------------------------- MODULE AgentSessionProofs -------------------------
(***************************************************************************)
(* Safety of AgentSession for any number of runs, prompts, tool calls and  *)
(* starts, and what the repair of a loaded session does to any history.    *)
(***************************************************************************)
EXTENDS AgentSession, WellFoundedInduction, SequenceTheorems, TLAPS

\* Induction over the naturals for a set instead of a predicate: the numbers that
\* are not in it would have a least one.
LEMMA NatInduct ==
  ASSUME NEW S, 0 \in S, \A n \in Nat : n \in S => n + 1 \in S
  PROVE  Nat \subseteq S
<1> DEFINE T == Nat \ S
           R == OpToRel(<, Nat)
<1>1. IsWellFoundedOn(R, Nat)
  BY NatLessThanWellFounded
<1>2. \A x, y \in Nat : x < y => <<x, y>> \in R
  BY DEF OpToRel
<1>3. SUFFICES ASSUME T # {} PROVE FALSE
  OBVIOUS
<1> HIDE DEF R
<1>4. PICK x \in T : \A y \in T : ~ (<<y, x>> \in R)
  <2>1. T \subseteq Nat
    OBVIOUS
  <2> HIDE DEF T
  <2> QED BY <1>1, <1>3, <2>1, WFMin, Zenon
<1>5. x # 0 /\ x - 1 \in Nat /\ x = (x - 1) + 1
  OBVIOUS
<1>6. x - 1 \in T
  BY <1>5
<1>7. <<x - 1, x>> \in R
  BY <1>2, <1>5
<1> QED BY <1>4, <1>6, <1>7

-----------------------------------------------------------------------------
(* FlattenSeq, as the sequence of its partial results.                     *)

Partials(f, seqs, n) ==
  f = [i \in 1..n |-> IF i = 1 THEN seqs[i] ELSE f[i - 1] \o seqs[i]]

LEMMA PartialsExist ==
  ASSUME NEW seqs, NEW n \in Nat
  PROVE  \E f : Partials(f, seqs, n)
<1> DEFINE S == {m \in Nat : \E f : Partials(f, seqs, m)}
<1>1. 0 \in S
  <2>1. Partials(<<>>, seqs, 0)
    BY DEF Partials
  <2> QED BY <2>1
<1>2. ASSUME NEW m \in Nat, m \in S
      PROVE  m + 1 \in S
  <2>1. PICK f : Partials(f, seqs, m)
    BY <1>2
  <2> DEFINE last == IF m = 0 THEN seqs[1] ELSE f[m] \o seqs[m + 1]
             g == [i \in 1..(m + 1) |-> IF i \in 1..m THEN f[i] ELSE last]
  <2>2. DOMAIN f = 1..m /\ \A i \in 1..m : f[i] = IF i = 1 THEN seqs[i] ELSE f[i - 1] \o seqs[i]
    BY <2>1 DEF Partials
  <2>3. \A i \in 1..m : g[i] = f[i]
    OBVIOUS
  <2>4. g[m + 1] = last
    OBVIOUS
  <2>5. DOMAIN g = 1..(m + 1) /\ g = [i \in 1..(m + 1) |-> g[i]]
    OBVIOUS
  <2> HIDE DEF g
  <2>6. ASSUME NEW i \in 1..(m + 1)
        PROVE  g[i] = IF i = 1 THEN seqs[i] ELSE g[i - 1] \o seqs[i]
    <3>1. CASE i \in 1..m
      <4>1. i # 1 => i - 1 \in 1..m
        BY <3>1
      <4> QED BY <2>2, <2>3, <3>1, <4>1
    <3>2. CASE i = m + 1 /\ m = 0
      BY <2>4, <3>2
    <3>3. CASE i = m + 1 /\ m # 0
      <4>1. m \in 1..m /\ i - 1 = m /\ i # 1
        BY <3>3
      <4> QED BY <2>3, <2>4, <3>3, <4>1
    <3> QED BY <3>1, <3>2, <3>3
  <2>7. Partials(g, seqs, m + 1)
    BY <2>5, <2>6 DEF Partials
  <2> QED BY <2>7
<1> HIDE DEF S
<1>3. Nat \subseteq S
  BY <1>1, <1>2, NatInduct
<1> QED BY <1>3 DEF S

LEMMA Flattened ==
  ASSUME NEW s, Len(s) \in Nat, Len(s) # 0
  PROVE  \E f : Partials(f, s, Len(s)) /\ FlattenSeq(s) = f[Len(s)]
<1> DEFINE g == CHOOSE f : Partials(f, s, Len(s))
<1>1. Partials(g, s, Len(s))
  BY PartialsExist
<1>2. FlattenSeq(s) = g[Len(s)]
  BY DEF FlattenSeq, Partials
<1> HIDE DEF g
<1> QED BY <1>1, <1>2

-----------------------------------------------------------------------------
(* What Load makes of a saved history.                                     *)

\* Every tool call is answered in the next entry.
Answered(es) == \A i \in DOMAIN es : Unanswered(es, i) = {}

\* The sets of tool calls that entries make or answer; the calls of one response
\* stay together.
Named(es) == {es[i].uses : i \in DOMAIN es} \cup {es[i].results : i \in DOMAIN es}
Grouped(K) == \A U, V \in K : U = V \/ U \cap V = {}

\* What stands for an entry after the repair.
Block(es, i) ==
  IF Unanswered(es, i) = {} THEN <<es[i]>> ELSE <<es[i], Results(Unanswered(es, i))>>

\* What is known of the first entries of es when they have become s.
Repairs(es, m, s) ==
  /\ s \in Seq(EntryTypes) /\ Len(s) >= 1
  /\ \A j \in 1..(Len(s) - 1) : s[j].uses \subseteq s[j + 1].results
  /\ \/ s[Len(s)] = es[m] /\ Unanswered(es, m) = {}
     \/ s[Len(s)].uses = {}
  /\ \A j \in 1..Len(s) : {s[j].uses, s[j].results} \subseteq Named(es) \cup {{}}
  /\ Answered(es) => Len(s) = m /\ \A j \in 1..m : s[j] = es[j]

LEMMA BlockRepairs ==
  ASSUME NEW es \in Seq(EntryTypes), NEW i \in 1..Len(es), Grouped(Named(es))
  PROVE  /\ Block(es, i) \in Seq(EntryTypes) /\ Block(es, i)[1] = es[i]
         /\ \/ Len(Block(es, i)) = 1 /\ Unanswered(es, i) = {}
            \/ /\ Len(Block(es, i)) = 2 /\ Unanswered(es, i) # {}
               /\ Block(es, i)[2] = Results(es[i].uses)
<1>1. DOMAIN es = 1..Len(es) /\ Len(es) \in Nat /\ es[i] \in EntryTypes
  BY LenProperties, ElementOfSeq
<1>2. Unanswered(es, i) = {} \/ Unanswered(es, i) = es[i].uses
  <2>1. CASE i < Len(es)
    <3>1. i + 1 \in DOMAIN es
      BY <1>1, <2>1
    <3>2. es[i].uses \in Named(es) /\ es[i + 1].results \in Named(es)
      BY <1>1, <3>1 DEF Named
    <3>3. es[i].uses = es[i + 1].results \/ es[i].uses \cap es[i + 1].results = {}
      BY <3>2 DEF Grouped
    <3> QED BY <2>1, <3>3 DEF Unanswered
  <2>2. CASE ~(i < Len(es))
    BY <2>2 DEF Unanswered
  <2> QED BY <2>1, <2>2
<1>3. Results(es[i].uses) \in EntryTypes
  BY <1>1 DEF Results, EntryTypes
<1>4. CASE Unanswered(es, i) = {}
  BY <1>1, <1>4 DEF Block
<1>5. CASE Unanswered(es, i) # {}
  BY <1>1, <1>2, <1>3, <1>5 DEF Block
<1> QED BY <1>4, <1>5

LEMMA RepairsStep ==
  ASSUME NEW es \in Seq(EntryTypes), Grouped(Named(es)), NEW m \in Nat \ {0}, m + 1 \in 1..Len(es),
         NEW s, Repairs(es, m, s)
  PROVE  Repairs(es, m + 1, s \o Block(es, m + 1))
<1> DEFINE b == Block(es, m + 1)
           t == s \o b
<1>1. /\ b \in Seq(EntryTypes) /\ b[1] = es[m + 1]
      /\ \/ Len(b) = 1 /\ Unanswered(es, m + 1) = {}
         \/ /\ Len(b) = 2 /\ Unanswered(es, m + 1) # {}
            /\ b[2] = Results(es[m + 1].uses)
  BY BlockRepairs
<1>2. s \in Seq(EntryTypes) /\ Len(s) \in Nat \ {0} /\ Len(b) \in {1, 2}
  BY <1>1, LenProperties DEF Repairs
<1>3. /\ t \in Seq(EntryTypes) /\ Len(t) = Len(s) + Len(b)
      /\ \A i \in 1..(Len(s) + Len(b)) : t[i] = IF i <= Len(s) THEN s[i] ELSE b[i - Len(s)]
  BY <1>1, <1>2, ConcatProperties
<1> HIDE DEF b, t
<1>4. DOMAIN es = 1..Len(es) /\ Len(es) \in Nat
  BY LenProperties
<1>5. {es[m + 1].uses, es[m + 1].results} \subseteq Named(es)
  BY <1>4 DEF Named
<1>6. t[Len(s) + 1] = es[m + 1] /\ t[Len(s)] = s[Len(s)]
  <2>1. Len(s) + 1 \in 1..(Len(s) + Len(b)) /\ Len(s) \in 1..(Len(s) + Len(b))
    <3>1. ASSUME NEW n \in Nat \ {0}, NEW k \in {1, 2}
          PROVE  n + 1 \in 1..(n + k) /\ n \in 1..(n + k)
      OBVIOUS
    <3> QED BY <1>2, <3>1
  <2>2. ~(Len(s) + 1 <= Len(s)) /\ (Len(s) + 1) - Len(s) = 1
    BY <1>2
  <2>3. t[Len(s) + 1] = b[1]
    BY <1>3, <2>1, <2>2
  <2>4. t[Len(s)] = s[Len(s)]
    BY <1>2, <1>3, <2>1
  <2> QED BY <1>1, <2>3, <2>4
<1>7. s[Len(s)].uses \subseteq es[m + 1].results
  <2>1. CASE s[Len(s)] = es[m] /\ Unanswered(es, m) = {}
    <3>1. m < Len(es)
      BY <1>4
    <3> QED BY <2>1, <3>1 DEF Unanswered
  <2> QED BY <2>1 DEF Repairs
<1>8. \A j \in 1..(Len(s) - 1) : t[j] = s[j] /\ t[j + 1] = s[j + 1]
  BY <1>2, <1>3
<1>9. \A j \in 1..Len(s) : t[j] = s[j]
  BY <1>2, <1>3
<1>10. CASE Len(b) = 1 /\ Unanswered(es, m + 1) = {}
  <2>1. Len(t) = Len(s) + 1 /\ t[Len(t)] = es[m + 1]
    BY <1>3, <1>6, <1>10
  <2>2. \A j \in 1..(Len(t) - 1) : t[j].uses \subseteq t[j + 1].results
    <3> SUFFICES ASSUME NEW j \in 1..(Len(t) - 1)
                 PROVE  t[j].uses \subseteq t[j + 1].results
      OBVIOUS
    <3>1. j \in 1..(Len(s) - 1) \/ j = Len(s)
      BY <1>2, <2>1
    <3> QED BY <1>6, <1>7, <1>8, <3>1 DEF Repairs
  <2>3. \A j \in 1..Len(t) : {t[j].uses, t[j].results} \subseteq Named(es) \cup {{}}
    <3> SUFFICES ASSUME NEW j \in 1..Len(t)
                 PROVE  {t[j].uses, t[j].results} \subseteq Named(es) \cup {{}}
      OBVIOUS
    <3>1. j \in 1..Len(s) \/ j = Len(s) + 1
      BY <1>2, <2>1
    <3> QED BY <1>5, <1>6, <1>9, <3>1 DEF Repairs
  <2>4. Answered(es) => Len(t) = m + 1 /\ \A j \in 1..(m + 1) : t[j] = es[j]
    <3> SUFFICES ASSUME Answered(es), NEW j \in 1..(m + 1)
                 PROVE  Len(t) = m + 1 /\ t[j] = es[j]
      BY <1>2, <2>1 DEF Repairs
    <3>1. Len(s) = m /\ \A k \in 1..m : s[k] = es[k]
      BY DEF Repairs
    <3>2. j \in 1..m \/ j = m + 1
      OBVIOUS
    <3> QED BY <1>6, <1>9, <2>1, <3>1, <3>2
  <2>5. Len(t) >= 1
    BY <1>2, <2>1
  <2> QED BY <1>3, <1>10, <2>1, <2>2, <2>3, <2>4, <2>5 DEF Repairs, b, t
<1>11. CASE /\ Len(b) = 2 /\ Unanswered(es, m + 1) # {}
            /\ b[2] = Results(es[m + 1].uses)
  <2>1. Len(t) = Len(s) + 2 /\ t[Len(s) + 2] = Results(es[m + 1].uses)
    BY <1>2, <1>3, <1>11
  <2>2. \A j \in 1..(Len(t) - 1) : t[j].uses \subseteq t[j + 1].results
    <3> SUFFICES ASSUME NEW j \in 1..(Len(t) - 1)
                 PROVE  t[j].uses \subseteq t[j + 1].results
      OBVIOUS
    <3>1. j \in 1..(Len(s) - 1) \/ j = Len(s) \/ (j = Len(s) + 1 /\ j + 1 = Len(s) + 2)
      BY <1>2, <2>1
    <3>2. t[Len(s) + 2].results = es[m + 1].uses
      BY <2>1 DEF Results
    <3> QED BY <1>6, <1>7, <1>8, <3>1, <3>2 DEF Repairs
  <2>3. \A j \in 1..Len(t) : {t[j].uses, t[j].results} \subseteq Named(es) \cup {{}}
    <3> SUFFICES ASSUME NEW j \in 1..Len(t)
                 PROVE  {t[j].uses, t[j].results} \subseteq Named(es) \cup {{}}
      OBVIOUS
    <3>1. j \in 1..Len(s) \/ j = Len(s) + 1 \/ j = Len(s) + 2
      BY <1>2, <2>1
    <3>2. t[Len(s) + 2].uses = {} /\ t[Len(s) + 2].results = es[m + 1].uses
      BY <2>1 DEF Results
    <3> QED BY <1>5, <1>6, <1>9, <3>1, <3>2 DEF Repairs
  <2>4. ~Answered(es)
    BY <1>4, <1>11 DEF Answered
  <2>5. Len(t) >= 1 /\ t[Len(t)].uses = {}
    BY <1>2, <2>1 DEF Results
  <2> QED BY <1>3, <2>2, <2>3, <2>4, <2>5 DEF Repairs, b, t
<1> QED BY <1>1, <1>10, <1>11

\* The repair answers every call, names no new ones, and leaves a history alone
\* that needs none (sanitize.go:29-86).
LEMMA RepairedCorrect ==
  ASSUME NEW es \in Seq(EntryTypes), Grouped(Named(es))
  PROVE  /\ Repaired(es) \in Seq(EntryTypes) /\ Answered(Repaired(es))
         /\ Named(Repaired(es)) \subseteq Named(es) \cup {{}}
         /\ Answered(es) => Repaired(es) = es
<1> DEFINE bs == [i \in DOMAIN es |-> Block(es, i)]
<1>1. DOMAIN es = 1..Len(es) /\ Len(es) \in Nat
  BY LenProperties
<1>2. Repaired(es) = FlattenSeq(bs)
  BY DEF Repaired, Block
<1>3. \A i \in 1..Len(es) : bs[i] = Block(es, i)
  BY <1>1
<1>4. bs \in Seq(Seq(EntryTypes)) /\ Len(bs) = Len(es)
  <2>1. \A i \in 1..Len(es) : Block(es, i) \in Seq(EntryTypes)
    BY BlockRepairs
  <2>2. bs \in [1..Len(es) -> Seq(EntryTypes)]
    BY <1>1, <2>1
  <2>3. bs \in Seq(Seq(EntryTypes)) /\ DOMAIN bs = 1..Len(es)
    BY <1>1, <2>2, SeqDef
  <2>4. Len(bs) = Len(es)
    BY <1>1, <2>3, LenProperties
  <2> QED BY <2>3, <2>4
<1> HIDE DEF bs
<1>5. CASE Len(es) = 0
  <2>1. es = <<>> /\ bs = <<>>
    BY <1>4, <1>5, EmptySeq
  <2>2. Repaired(es) = <<>>
    BY <1>2, <1>4, <1>5, <2>1 DEF FlattenSeq
  <2>3. DOMAIN es = {}
    BY <1>1, <1>5
  <2> QED BY <2>1, <2>2, <2>3, EmptySeq DEF Answered, Named
<1>6. CASE Len(es) # 0
  <2>1. PICK f : Partials(f, bs, Len(bs)) /\ FlattenSeq(bs) = f[Len(bs)]
    BY <1>1, <1>4, <1>6, Flattened
  <2>2. \A i \in 1..Len(es) : f[i] = IF i = 1 THEN bs[i] ELSE f[i - 1] \o bs[i]
    BY <1>4, <2>1 DEF Partials
  <2> DEFINE S == {m \in Nat : m + 1 \in 1..Len(es) => Repairs(es, m + 1, f[m + 1])}
  <2>3. 0 \in S
    <3>1. 1 \in 1..Len(es)
      BY <1>1, <1>6
    <3>2. f[1] = Block(es, 1)
      BY <1>3, <2>2, <3>1
    <3> DEFINE b == Block(es, 1)
    <3>3. /\ b \in Seq(EntryTypes) /\ b[1] = es[1]
          /\ \/ Len(b) = 1 /\ Unanswered(es, 1) = {}
             \/ Len(b) = 2 /\ Unanswered(es, 1) # {} /\ b[2] = Results(es[1].uses)
      BY <3>1, BlockRepairs
    <3> HIDE DEF b
    <3>4. {es[1].uses, es[1].results} \subseteq Named(es)
      BY <1>1, <3>1 DEF Named
    <3>5. Repairs(es, 1, b)
      <4>1. CASE Len(b) = 1 /\ Unanswered(es, 1) = {}
        <5>1. \A j \in 1..Len(b) : j = 1
          BY <4>1
        <5>2. 1..(Len(b) - 1) = {}
          BY <4>1
        <5> QED BY <3>3, <3>4, <4>1, <5>1, <5>2 DEF Repairs
      <4>2. CASE Len(b) = 2 /\ Unanswered(es, 1) # {} /\ b[2] = Results(es[1].uses)
        <5>1. \A j \in 1..Len(b) : j = 1 \/ j = 2
          BY <4>2
        <5>2. \A j \in 1..(Len(b) - 1) : j = 1 /\ j + 1 = 2
          BY <4>2
        <5>3. b[2].uses = {} /\ b[2].results = es[1].uses
          BY <4>2 DEF Results
        <5>4. ~Answered(es)
          BY <1>1, <3>1, <4>2 DEF Answered
        <5>5. \A j \in 1..(Len(b) - 1) : b[j].uses \subseteq b[j + 1].results
          BY <3>3, <5>2, <5>3
        <5>6. \A j \in 1..Len(b) : {b[j].uses, b[j].results} \subseteq Named(es) \cup {{}}
          BY <3>3, <3>4, <5>1, <5>3
        <5> QED BY <3>3, <4>2, <5>3, <5>4, <5>5, <5>6 DEF Repairs
      <4> QED BY <3>3, <4>1, <4>2
    <3> QED BY <3>2, <3>5 DEF b
  <2>4. ASSUME NEW m \in Nat, m \in S
        PROVE  m + 1 \in S
    <3> SUFFICES ASSUME (m + 1) + 1 \in 1..Len(es)
                 PROVE  Repairs(es, (m + 1) + 1, f[(m + 1) + 1])
      OBVIOUS
    <3>1. m + 1 \in 1..Len(es) /\ m + 1 \in Nat \ {0}
      BY <1>1
    <3>2. Repairs(es, m + 1, f[m + 1])
      BY <2>4, <3>1
    <3>3. f[(m + 1) + 1] = f[m + 1] \o Block(es, (m + 1) + 1)
      <4>1. (m + 1) + 1 # 1 /\ ((m + 1) + 1) - 1 = m + 1
        OBVIOUS
      <4> QED BY <1>3, <2>2, <4>1
    <3> HIDE DEF S
    <3> QED BY <3>1, <3>2, <3>3, RepairsStep
  <2> HIDE DEF S
  <2>5. Nat \subseteq S
    BY <2>3, <2>4, NatInduct
  <2>6. Repairs(es, Len(es), f[Len(es)])
    <3>1. Len(es) - 1 \in Nat /\ (Len(es) - 1) + 1 = Len(es) /\ Len(es) \in 1..Len(es)
      BY <1>1, <1>6
    <3>2. Len(es) - 1 \in S
      BY <2>5, <3>1
    <3> QED BY <3>1, <3>2 DEF S
  <2> DEFINE r == f[Len(es)]
  <2>7. Repaired(es) = r
    BY <1>2, <1>4, <2>1
  <2> HIDE DEF r
  <2>8. Repairs(es, Len(es), r)
    BY <2>6 DEF r
  <2>9. r \in Seq(EntryTypes) /\ DOMAIN r = 1..Len(r) /\ Len(r) \in Nat
    BY <2>8, LenProperties DEF Repairs
  <2>10. Answered(r)
    <3> SUFFICES ASSUME NEW j \in 1..Len(r)
                 PROVE  Unanswered(r, j) = {}
      BY <2>9 DEF Answered
    <3>1. CASE j < Len(r)
      <4>1. j \in 1..(Len(r) - 1)
        BY <2>9, <3>1
      <4>2. r[j].uses \subseteq r[j + 1].results
        BY <2>8, <4>1 DEF Repairs
      <4> QED BY <3>1, <4>2 DEF Unanswered
    <3>2. CASE j = Len(r)
      <4>1. Unanswered(r, j) = r[j].uses /\ Unanswered(es, Len(es)) = es[Len(es)].uses
        BY <1>1, <2>9, <3>2 DEF Unanswered
      <4>2. r[Len(r)].uses = {}
        BY <2>8, <4>1 DEF Repairs
      <4> QED BY <3>2, <4>1, <4>2
    <3>3. ASSUME NEW n \in Nat, NEW k \in 1..n
          PROVE  k < n \/ k = n
      OBVIOUS
    <3>4. j < Len(r) \/ j = Len(r)
      BY <2>9, <3>3
    <3> QED BY <3>1, <3>2, <3>4
  <2>11. Named(r) \subseteq Named(es) \cup {{}}
    BY <2>8, <2>9 DEF Named, Repairs
  <2>12. Answered(es) => r = es
    <3> SUFFICES ASSUME Answered(es) PROVE r = es
      OBVIOUS
    <3>1. Len(r) = Len(es) /\ \A j \in 1..Len(es) : r[j] = es[j]
      BY <2>8 DEF Repairs
    <3> QED BY <2>9, <3>1, SeqEqual
  <2> QED BY <2>7, <2>9, <2>10, <2>11, <2>12
<1> QED BY <1>5, <1>6

\* Entries as they are: a part of a history, from some entry on, and all but the
\* first of it.
LEMMA SubSeqTypes ==
  ASSUME NEW es \in Seq(EntryTypes), NEW m \in 1..(Len(es) + 1), NEW n \in 0..Len(es)
  PROVE  /\ SubSeq(es, m, n) \in Seq(EntryTypes)
         /\ Len(SubSeq(es, m, n)) = IF m <= n THEN n - m + 1 ELSE 0
         /\ \A i \in 1..(n - m + 1) : SubSeq(es, m, n)[i] = es[m + i - 1]
<1>1. Len(es) \in Nat /\ m \in Int /\ n \in Int
  BY LenProperties
<1>2. ASSUME NEW i \in m..n
      PROVE  es[i] \in EntryTypes
  <2>1. i \in 1..Len(es)
    BY <1>1
  <2> QED BY <2>1, ElementOfSeq
<1> QED BY <1>1, <1>2, SubSeqProperties

\* A compaction keeps every call that it keeps answered, and ends with at most
\* one entry more than the recent ones (compact.go:17-77).
LEMMA CompactedCorrect ==
  ASSUME NEW es \in Seq(EntryTypes)
  PROVE  /\ Compacted(es) \in Seq(EntryTypes) /\ Len(Compacted(es)) <= KeepRecent + 1
         /\ Named(Compacted(es)) \subseteq Named(es) \cup {{}}
         /\ Answered(es) => Answered(Compacted(es))
<1> USE AgentAssumption DEF AgentAssumption
<1>1. DOMAIN es = 1..Len(es) /\ Len(es) \in Nat
  BY LenProperties
<1>2. CASE Len(es) <= KeepRecent
  BY <1>1, <1>2 DEF Compacted
<1>3. CASE ~(Len(es) <= KeepRecent)
  <2> DEFINE cut == Len(es) - KeepRecent
             t == SubSeq(es, cut + 1, Len(es))
  <2>1. cut \in 1..Len(es) /\ Len(es) - cut = KeepRecent /\ cut + 1 \in 1..(Len(es) + 1)
    BY <1>1, <1>3
  <2>2. /\ t \in Seq(EntryTypes) /\ Len(t) = KeepRecent
        /\ \A i \in 1..KeepRecent : t[i] = es[cut + i]
    BY <1>1, <2>1, SubSeqTypes
  <2>3. PICK p \in {<<>>, <<Prompt>>} : Compacted(es) = p \o t
    BY <1>3 DEF Compacted
  <2> HIDE DEF cut, t
  <2>4. DOMAIN t = 1..KeepRecent
    BY <2>2, LenProperties
  <2>5. Named(t) \subseteq Named(es)
    <3>1. \A i \in 1..KeepRecent : cut + i \in DOMAIN es
      BY <1>1, <2>1
    <3> QED BY <2>2, <2>4, <3>1 DEF Named
  <2>6. Answered(es) => Answered(t)
    <3> SUFFICES ASSUME Answered(es), NEW i \in 1..KeepRecent
                 PROVE  Unanswered(t, i) = {}
      BY <2>4 DEF Answered
    <3>1. cut + i \in DOMAIN es /\ Unanswered(es, cut + i) = {}
      BY <1>1, <2>1 DEF Answered
    <3>2. CASE i < KeepRecent
      <4>1. t[i] = es[cut + i] /\ t[i + 1] = es[(cut + i) + 1] /\ cut + i < Len(es)
        <5>1. i + 1 \in 1..KeepRecent /\ cut + (i + 1) = (cut + i) + 1 /\ cut + i < Len(es)
          BY <1>1, <2>1, <3>2
        <5> QED BY <2>2, <5>1
      <4> QED BY <2>2, <3>1, <3>2, <4>1 DEF Unanswered
    <3>3. CASE i = KeepRecent
      <4>1. t[i] = es[cut + i] /\ cut + i = Len(es)
        BY <1>1, <2>1, <2>2, <3>3
      <4> QED BY <2>2, <3>1, <3>3, <4>1 DEF Unanswered
    <3> QED BY <3>2, <3>3
  <2>7. CASE p = <<>>
    <3>1. Compacted(es) = t
      BY <2>2, <2>3, <2>7, ConcatEmptySeq
    <3> QED BY <2>2, <2>5, <2>6, <3>1
  <2>8. CASE p = <<Prompt>>
    <3> DEFINE c == p \o t
    <3>1. p \in Seq(EntryTypes) /\ Len(p) = 1 /\ p[1] = Prompt
      BY <2>8 DEF Prompt, EntryTypes
    <3>2. /\ c \in Seq(EntryTypes) /\ Len(c) = 1 + KeepRecent
          /\ \A i \in 1..(1 + KeepRecent) : c[i] = IF i <= 1 THEN p[1] ELSE t[i - 1]
      <4>1. /\ c \in Seq(EntryTypes) /\ Len(c) = Len(p) + Len(t)
            /\ \A i \in 1..(Len(p) + Len(t)) :
                 c[i] = IF i <= Len(p) THEN p[i] ELSE t[i - Len(p)]
        <5>1. p \in Seq(EntryTypes) /\ t \in Seq(EntryTypes)
          BY <2>2, <3>1
        <5> QED BY <5>1, ConcatProperties
      <4>2. \A i \in 1..(1 + KeepRecent) : i <= 1 => i = 1
        OBVIOUS
      <4> HIDE DEF c
      <4>3. Len(p) + Len(t) = 1 + KeepRecent
        BY <2>2, <3>1
      <4>4. ASSUME NEW i \in 1..(1 + KeepRecent)
            PROVE  c[i] = IF i <= 1 THEN p[1] ELSE t[i - 1]
        <5>1. c[i] = IF i <= 1 THEN p[i] ELSE t[i - 1]
          BY <3>1, <4>1, <4>3
        <5> QED BY <4>2, <5>1
      <4> QED BY <4>1, <4>3, <4>4
    <3> HIDE DEF c
    <3>3. DOMAIN c = 1..(1 + KeepRecent)
      BY <3>2, LenProperties
    <3>4. c[1] = Prompt /\ \A i \in 1..KeepRecent : c[i + 1] = t[i]
      BY <3>1, <3>2
    <3>5. Named(c) \subseteq Named(t) \cup {{}}
      <4> SUFFICES ASSUME NEW i \in 1..(1 + KeepRecent)
                   PROVE  {c[i].uses, c[i].results} \subseteq Named(t) \cup {{}}
        BY <3>3 DEF Named
      <4>1. CASE i = 1
        BY <3>4, <4>1 DEF Prompt
      <4>2. CASE i # 1
        <5>1. i - 1 \in 1..KeepRecent /\ (i - 1) + 1 = i
          BY <4>2
        <5>2. c[i] = t[i - 1] /\ i - 1 \in DOMAIN t
          BY <2>4, <3>4, <5>1
        <5> QED BY <5>2 DEF Named
      <4> QED BY <4>1, <4>2
    <3>6. Answered(t) => Answered(c)
      <4> SUFFICES ASSUME Answered(t), NEW i \in 1..(1 + KeepRecent)
                   PROVE  Unanswered(c, i) = {}
        BY <3>3 DEF Answered
      <4>1. CASE i = 1
        BY <3>4, <4>1 DEF Unanswered, Prompt
      <4>2. CASE i # 1
        <5>1. i - 1 \in 1..KeepRecent /\ (i - 1) + 1 = i
          BY <4>2
        <5>2. c[i] = t[i - 1] /\ Unanswered(t, i - 1) = {}
          BY <2>4, <3>4, <5>1 DEF Answered
        <5>3. i < Len(c) => i \in 1..KeepRecent /\ c[i + 1] = t[i] /\ i - 1 < Len(t)
          BY <2>2, <3>2, <3>4
        <5>4. ~(i < Len(c)) => ~(i - 1 < Len(t))
          BY <2>2, <3>2
        <5> QED BY <5>1, <5>2, <5>3, <5>4 DEF Unanswered
      <4> QED BY <4>1, <4>2
    <3>7. Compacted(es) = c
      BY <2>3 DEF c
    <3> QED BY <2>5, <2>6, <3>2, <3>5, <3>6, <3>7
  <2> QED BY <2>7, <2>8
<1> QED BY <1>2, <1>3

\* A load answers every call of what was saved, and a second one changes nothing
\* more (sanitize.go:13-27, store.go:88-109).
LEMMA SanitizedCorrect ==
  ASSUME NEW es \in Seq(EntryTypes), Grouped(Named(es))
  PROVE  /\ Sanitized(es) \in Seq(EntryTypes) /\ Answered(Sanitized(es))
         /\ Named(Sanitized(es)) \subseteq Named(es) \cup {{}}
         /\ Sanitized(Sanitized(es)) = Sanitized(es)
<1> USE AgentAssumption DEF AgentAssumption
<1> DEFINE r == Repaired(es)
           c == Sanitized(es)
<1>1. r \in Seq(EntryTypes) /\ Answered(r) /\ Named(r) \subseteq Named(es) \cup {{}}
  BY RepairedCorrect
<1>2. /\ Compacted(r) \in Seq(EntryTypes) /\ Len(Compacted(r)) <= KeepRecent + 1
      /\ Named(Compacted(r)) \subseteq Named(r) \cup {{}} /\ Answered(Compacted(r))
  BY <1>1, CompactedCorrect
<1>3. c = IF Len(r) > MaxLoadEntries THEN Compacted(r) ELSE r
  BY DEF Sanitized
<1> HIDE DEF r, c
<1>4. c \in Seq(EntryTypes) /\ Answered(c) /\ Named(c) \subseteq Named(es) \cup {{}}
  BY <1>1, <1>2, <1>3
<1>5. Grouped(Named(c))
  BY <1>4 DEF Grouped
<1>6. Repaired(c) = c
  BY <1>4, <1>5, RepairedCorrect
<1>7. ~(Len(c) > MaxLoadEntries)
  <2>1. Len(c) \in Nat
    BY <1>4, LenProperties
  <2> QED BY <1>2, <1>3, <2>1
<1>8. Sanitized(c) = c
  BY <1>6, <1>7 DEF Sanitized
<1> QED BY <1>4, <1>8 DEF c

-----------------------------------------------------------------------------
(* The invariant.                                                          *)

Types ==
  /\ entries \in Seq(EntryTypes) /\ disk \in Seq(EntryTypes) /\ messages \in Seq(MessageTypes)
  /\ pc \in [Runs -> PCs] /\ calls \in [Runs -> SUBSET Nat]
  /\ lastID \in Nat /\ skipped \subseteq Nat

\* The calls of one response stay together wherever they are named, and the next
\* ones are new.
Known == Named(entries) \cup Named(disk) \cup {calls[r] : r \in Runs}
IDsGrouped == Grouped(Known) /\ Known \subseteq SUBSET (1..lastID)

\* Until two runs overlap there is one, and none while the program is off.
OneRun ==
  /\ ~overlap => \A q, r \in Runs : Active(q) /\ Active(r) => q = r
  /\ ui = "off" => \A r \in Runs : ~Active(r)

\* Which history is ahead of the other, at every step of the run.
Ahead ==
  ~edited /\ ~overlap =>
    /\ (\A r \in Runs : pc[r] \notin {"send", "assistant", "store"})
         => messages = Replayed(entries)
    /\ \A r \in Runs :
         /\ pc[r] = "send" => Replayed(entries) = Append(messages, MessageOf(Prompt))
         /\ pc[r] = "assistant" =>
              Replayed(entries) = Append(messages, MessageOf(Reply(FALSE, calls[r])))
         /\ pc[r] = "store" => messages = Append(Replayed(entries), MessageOf(Results(calls[r])))

\* Only the last message may have calls that are still being executed.
Awaited ==
  ~overlap => \A i \in DOMAIN messages :
    \/ Unanswered(messages, i) \subseteq skipped
    \/ /\ i = Len(messages)
       /\ \E r \in Runs : pc[r] = "results" /\ messages[i].uses = calls[r]

SessionInv == Types /\ IDsGrouped /\ OneRun /\ Ahead /\ Awaited

-----------------------------------------------------------------------------
(* How entries and messages grow.                                          *)

LEMMA EntryAppend ==
  ASSUME NEW es \in Seq(EntryTypes), NEW e \in EntryTypes
  PROVE  /\ Append(es, e) \in Seq(EntryTypes)
         /\ Named(Append(es, e)) = Named(es) \cup {e.uses, e.results}
<1>1. /\ Append(es, e) \in Seq(EntryTypes) /\ Len(Append(es, e)) = Len(es) + 1
      /\ \A i \in 1..Len(es) : Append(es, e)[i] = es[i]
      /\ Append(es, e)[Len(es) + 1] = e
  BY AppendProperties
<1> DEFINE a == Append(es, e)
<1> HIDE DEF a
<1>2. /\ DOMAIN es = 1..Len(es) /\ Len(es) \in Nat
      /\ DOMAIN a = 1..(Len(es) + 1)
  BY <1>1, LenProperties DEF a
<1>3. (\A i \in DOMAIN es : i \in DOMAIN a /\ a[i] = es[i]) /\ Len(es) + 1 \in DOMAIN a
  BY <1>1, <1>2 DEF a
<1>4. \A i \in DOMAIN a : i \in DOMAIN es \/ i = Len(es) + 1
  BY <1>2
<1>5. a[Len(es) + 1] = e
  BY <1>1 DEF a
<1>6. Named(a) = Named(es) \cup {e.uses, e.results}
  BY <1>3, <1>4, <1>5 DEF Named
<1> QED BY <1>1, <1>6 DEF a

LEMMA MessageTyped ==
  ASSUME NEW e \in EntryTypes
  PROVE  MessageOf(e) \in MessageTypes
BY DEF MessageOf, MessageTypes, EntryTypes

LEMMA ReplayedTyped ==
  ASSUME NEW es \in Seq(EntryTypes)
  PROVE  /\ Replayed(es) \in Seq(MessageTypes) /\ Len(Replayed(es)) = Len(es)
         /\ DOMAIN Replayed(es) = DOMAIN es
         /\ \A i \in DOMAIN es : Replayed(es)[i] = MessageOf(es[i])
<1>1. DOMAIN es = 1..Len(es) /\ Len(es) \in Nat
  BY LenProperties
<1>2. \A i \in 1..Len(es) : MessageOf(es[i]) \in MessageTypes
  BY ElementOfSeq, MessageTyped
<1>3. Replayed(es) \in [1..Len(es) -> MessageTypes]
  BY <1>1, <1>2 DEF Replayed
<1>4. Replayed(es) \in Seq(MessageTypes) /\ DOMAIN Replayed(es) = 1..Len(es)
  BY <1>1, <1>3, SeqDef
<1>5. Len(Replayed(es)) = Len(es)
  BY <1>1, <1>4, LenProperties
<1>6. \A i \in DOMAIN es : Replayed(es)[i] = MessageOf(es[i])
  BY DEF Replayed
<1> QED BY <1>1, <1>4, <1>5, <1>6

\* A replay shows the driver the calls and the answers of the session.
LEMMA ReplayedAnswered ==
  ASSUME NEW es \in Seq(EntryTypes), Answered(es)
  PROVE  \A i \in DOMAIN Replayed(es) : Unanswered(Replayed(es), i) = {}
<1> DEFINE rs == Replayed(es)
<1>0. /\ DOMAIN rs = DOMAIN es /\ Len(rs) = Len(es)
      /\ \A i \in DOMAIN es : rs[i] = MessageOf(es[i])
  BY ReplayedTyped
<1>a. DOMAIN es = 1..Len(es) /\ Len(es) \in Nat
  BY LenProperties
<1> HIDE DEF rs
<1>b. \A i \in DOMAIN es : rs[i].uses = es[i].uses /\ rs[i].results = es[i].results
  BY <1>0 DEF MessageOf
<1>1. /\ DOMAIN rs = DOMAIN es /\ Len(rs) = Len(es) /\ DOMAIN es = 1..Len(es) /\ Len(es) \in Nat
      /\ \A i \in DOMAIN es : rs[i].uses = es[i].uses /\ rs[i].results = es[i].results
  BY <1>0, <1>a, <1>b
<1>2. ASSUME NEW i \in DOMAIN rs
      PROVE  Unanswered(rs, i) = {}
  <2>1. Unanswered(es, i) = {} /\ rs[i].uses = es[i].uses
    BY <1>1 DEF Answered
  <2>2. i < Len(es) => i + 1 \in DOMAIN es
    BY <1>1
  <2>3. i < Len(es) => rs[i + 1].results = es[i + 1].results
    BY <1>1, <2>2
  <2> QED BY <1>1, <2>1, <2>3 DEF Unanswered
<1> QED BY <1>2 DEF rs

LEMMA ReplayedAppend ==
  ASSUME NEW es \in Seq(EntryTypes), NEW e \in EntryTypes
  PROVE  Replayed(Append(es, e)) = Append(Replayed(es), MessageOf(e))
<1> DEFINE a == Append(es, e)
           rs == Replayed(es)
           ra == Replayed(a)
           b == Append(rs, MessageOf(e))
<1>1. /\ a \in Seq(EntryTypes) /\ Len(a) = Len(es) + 1
      /\ \A i \in 1..Len(es) : a[i] = es[i]
      /\ a[Len(es) + 1] = e
  BY AppendProperties
<1>2. /\ rs \in Seq(MessageTypes) /\ Len(rs) = Len(es)
      /\ \A i \in DOMAIN es : rs[i] = MessageOf(es[i])
  BY ReplayedTyped
<1>3. MessageOf(e) \in MessageTypes
  BY MessageTyped
<1> HIDE DEF rs
<1>4. /\ b \in Seq(MessageTypes) /\ Len(b) = Len(rs) + 1
      /\ \A i \in 1..Len(rs) : b[i] = rs[i]
      /\ b[Len(rs) + 1] = MessageOf(e)
  BY <1>2, <1>3, AppendProperties
<1> HIDE DEF a
<1>5. /\ ra \in Seq(MessageTypes) /\ Len(ra) = Len(a)
      /\ \A i \in DOMAIN a : ra[i] = MessageOf(a[i])
  BY <1>1, ReplayedTyped
<1> HIDE DEF ra, b
<1>6. /\ DOMAIN es = 1..Len(es) /\ Len(es) \in Nat /\ DOMAIN a = 1..Len(a)
  BY <1>1, LenProperties
<1>7. ASSUME NEW i \in 1..Len(ra)
      PROVE  ra[i] = b[i]
  <2>1. i \in 1..Len(es) \/ i = Len(es) + 1
    BY <1>1, <1>5, <1>6
  <2>2. ra[i] = MessageOf(a[i])
    BY <1>5, <1>6
  <2>3. CASE i \in 1..Len(es)
    <3>1. b[i] = rs[i] /\ rs[i] = MessageOf(es[i]) /\ a[i] = es[i]
      BY <1>1, <1>2, <1>4, <1>6, <2>3
    <3> QED BY <2>2, <3>1
  <2>4. CASE i = Len(es) + 1
    BY <1>1, <1>2, <1>4, <2>2, <2>4
  <2> QED BY <2>1, <2>3, <2>4
<1>8. ra = b
  BY <1>1, <1>2, <1>4, <1>5, <1>7, SeqEqual
<1> QED BY <1>8 DEF a, rs, ra, b

\* A new message answers what it answers of the one before, and nothing else
\* changes.
LEMMA MessageAppend ==
  ASSUME NEW ms \in Seq(MessageTypes), NEW m \in MessageTypes
  PROVE  /\ Append(ms, m) \in Seq(MessageTypes)
         /\ Len(Append(ms, m)) = Len(ms) + 1 /\ Append(ms, m)[Len(ms) + 1] = m
         /\ DOMAIN Append(ms, m) = DOMAIN ms \cup {Len(ms) + 1}
         /\ \A i \in DOMAIN ms :
              Unanswered(Append(ms, m), i) =
                IF i = Len(ms) THEN ms[i].uses \ m.results ELSE Unanswered(ms, i)
         /\ Unanswered(Append(ms, m), Len(ms) + 1) = m.uses
<1> DEFINE a == Append(ms, m)
<1>1. /\ a \in Seq(MessageTypes) /\ Len(a) = Len(ms) + 1
      /\ \A i \in 1..Len(ms) : a[i] = ms[i]
      /\ a[Len(ms) + 1] = m
  BY AppendProperties
<1> HIDE DEF a
<1>2. DOMAIN ms = 1..Len(ms) /\ Len(ms) \in Nat /\ DOMAIN a = 1..Len(a)
  BY <1>1, LenProperties
<1>3. DOMAIN a = DOMAIN ms \cup {Len(ms) + 1}
  BY <1>1, <1>2
<1>4. ASSUME NEW i \in DOMAIN ms
      PROVE  Unanswered(a, i) = IF i = Len(ms) THEN ms[i].uses \ m.results ELSE Unanswered(ms, i)
  <2>1. a[i] = ms[i] /\ i < Len(a)
    BY <1>1, <1>2
  <2>2. CASE i = Len(ms)
    BY <1>1, <2>1, <2>2 DEF Unanswered
  <2>3. CASE i # Len(ms)
    <3>1. i < Len(ms) /\ i + 1 \in 1..Len(ms)
      BY <1>2, <2>3
    <3>2. a[i + 1] = ms[i + 1]
      BY <1>1, <3>1
    <3> QED BY <2>1, <2>3, <3>1, <3>2 DEF Unanswered
  <2> QED BY <2>2, <2>3
<1>5. Unanswered(a, Len(ms) + 1) = m.uses
  <2>1. ~(Len(ms) + 1 < Len(a))
    BY <1>1, <1>2
  <2> QED BY <1>1, <2>1 DEF Unanswered
<1> QED BY <1>1, <1>3, <1>4, <1>5 DEF a

\* Whatever a save finds is a history that names what the session's names.
LEMMA SaveableTyped ==
  ASSUME entries \in Seq(EntryTypes), NEW d \in Saveable
  PROVE  d \in Seq(EntryTypes) /\ Named(d) \subseteq Named(entries) \cup {{}}
<1> DEFINE c == Compacted(entries)
<1>1. c \in Seq(EntryTypes) /\ Named(c) \subseteq Named(entries) \cup {{}}
  BY CompactedCorrect
<1>2. CASE d = entries
  BY <1>2
<1>3. ASSUME NEW k \in 0..Len(c), d = SubSeq(c, 1, k)
      PROVE  d \in Seq(EntryTypes) /\ Named(d) \subseteq Named(entries) \cup {{}}
  <2> HIDE DEF c
  <2>1. Len(c) \in Nat /\ DOMAIN c = 1..Len(c)
    BY <1>1, LenProperties
  <2>2. 1 \in 1..(Len(c) + 1)
    BY <2>1
  <2>3. /\ d \in Seq(EntryTypes) /\ Len(d) = IF 1 <= k THEN k - 1 + 1 ELSE 0
        /\ \A i \in 1..(k - 1 + 1) : d[i] = c[1 + i - 1]
    BY <1>1, <1>3, <2>2, SubSeqTypes
  <2>4. Len(d) = k /\ \A i \in 1..k : d[i] = c[i] /\ i \in DOMAIN c
    BY <2>1, <2>3
  <2>5. DOMAIN d = 1..k
    BY <2>3, <2>4, LenProperties
  <2>6. Named(d) \subseteq Named(c)
    BY <2>4, <2>5 DEF Named
  <2> QED BY <1>1, <2>3, <2>6
<1> QED BY <1>2, <1>3 DEF Saveable

-----------------------------------------------------------------------------
(* The invariant is inductive.                                             *)

LEMMA KnownKept ==
  ASSUME lastID \in Nat, lastID' \in Nat, lastID <= lastID', IDsGrouped,
         Known' \subseteq Known \cup {{}, (lastID + 1)..lastID'}
  PROVE  IDsGrouped'
<1>1. \A U \in Known : U \subseteq 1..lastID
  BY DEF IDsGrouped
<1>2. \A U \in Known' : U \subseteq 1..lastID'
  <2> SUFFICES ASSUME NEW U \in Known', NEW x \in U
               PROVE  x \in 1..lastID'
    OBVIOUS
  <2>1. CASE U \in Known
    <3>1. x \in 1..lastID
      BY <1>1, <2>1
    <3> QED BY <3>1
  <2> QED BY <2>1
<1>3. ASSUME NEW U \in Known', NEW V \in Known'
      PROVE  U = V \/ U \cap V = {}
  <2> DEFINE fresh == (lastID + 1)..lastID'
  <2>1. ASSUME NEW W \in Known PROVE W \cap fresh = {}
    <3>1. \A x \in W : x \in 1..lastID
      BY <1>1
    <3> QED BY <3>1
  <2>2. U \in Known \cup {{}, fresh} /\ V \in Known \cup {{}, fresh}
    OBVIOUS
  <2> HIDE DEF fresh
  <2>3. U \in Known /\ V \in Known => U = V \/ U \cap V = {}
    BY DEF IDsGrouped, Grouped
  <2> QED BY <2>1, <2>2, <2>3
<1>4. Grouped(Known')
  BY <1>3 DEF Grouped
<1> HIDE DEF Known
<1> QED BY <1>2, <1>4 DEF IDsGrouped, Grouped

LEMMA DiskSaved ==
  ASSUME Types, disk' \in {disk} \cup Saveable
  PROVE  disk' \in Seq(EntryTypes) /\ Named(disk') \subseteq Known \cup {{}}
<1>1. CASE disk' = disk
  BY <1>1 DEF Types, Known
<1>2. CASE disk' \in Saveable
  <2>1. entries \in Seq(EntryTypes)
    BY DEF Types
  <2>2. ASSUME NEW d \in Saveable
        PROVE  d \in Seq(EntryTypes) /\ Named(d) \subseteq Named(entries) \cup {{}}
    BY <2>1, SaveableTyped
  <2> QED BY <1>2, <2>2 DEF Known
<1> QED BY <1>1, <1>2

LEMMA EntriesGrow ==
  ASSUME Types, NEW r \in Runs, NEW e \in EntryTypes, AppendEntry(r, e)
  PROVE  /\ entries' \in Seq(EntryTypes)
         /\ Named(entries') \subseteq Known \cup {e.uses, e.results}
         /\ OneRun /\ ~overlap /\ Active(r) => entries' = Append(entries, e)
<1>1. CASE entries' = Append(entries, e)
  BY <1>1, EntryAppend DEF Types, Known
<1>2. CASE entries' # Append(entries, e)
  <2>1. entries' = entries /\ \E q \in Runs \ {r} : Active(q)
    BY <1>2 DEF AppendEntry
  <2> QED BY <2>1 DEF Types, Known, OneRun
<1> QED BY <1>1, <1>2

LEMMA EntriesCompacted ==
  ASSUME Types
  PROVE  Compacted(entries) \in Seq(EntryTypes) /\ Named(Compacted(entries)) \subseteq Known \cup {{}}
BY CompactedCorrect DEF Types, Known

LEMMA DiskLoaded ==
  ASSUME Types, IDsGrouped
  PROVE  /\ Grouped(Named(disk))
         /\ Sanitized(disk) \in Seq(EntryTypes) /\ Answered(Sanitized(disk))
         /\ Named(Sanitized(disk)) \subseteq Known \cup {{}}
<1>1. Grouped(Named(disk))
  BY DEF IDsGrouped, Grouped, Known
<1> QED BY <1>1, SanitizedCorrect DEF Types, Known

LEMMA MessageGrows ==
  ASSUME Types, NEW e \in EntryTypes
  PROVE  Append(messages, MessageOf(e)) \in Seq(MessageTypes)
BY MessageTyped, AppendProperties DEF Types

LEMMA EntriesTyped ==
  /\ Prompt \in EntryTypes
  /\ \A t \in BOOLEAN, ids \in SUBSET Nat : Reply(t, ids) \in EntryTypes
  /\ \A ids \in SUBSET Nat : Results(ids) \in EntryTypes
BY DEF Prompt, Reply, Results, EntryTypes

\* The types and what the histories name, step by step.
LEMMA IDsStep ==
  ASSUME Types, IDsGrouped, [Next]_vars
  PROVE  Types' /\ IDsGrouped'
<1> USE AgentAssumption DEF AgentAssumption
<1> DEFINE Ok == /\ entries' \in Seq(EntryTypes) /\ disk' \in Seq(EntryTypes)
                 /\ messages' \in Seq(MessageTypes)
                 /\ pc' \in [Runs -> PCs] /\ calls' \in [Runs -> SUBSET Nat]
                 /\ lastID' \in Nat /\ skipped' \subseteq Nat
                 /\ lastID <= lastID'
           New == Known \cup {{}, (lastID + 1)..lastID'}
           Kept == /\ Named(entries') \subseteq New /\ Named(disk') \subseteq New
                   /\ \A r \in Runs : calls'[r] \in New
<1>1. Ok /\ Kept => Types' /\ IDsGrouped'
  <2> SUFFICES ASSUME Ok, Kept PROVE Types' /\ IDsGrouped'
    OBVIOUS
  <2>1. Types'
    BY DEF Types
  <2>2. Named(entries') \cup Named(disk') \cup {calls'[r] : r \in Runs} \subseteq New
    OBVIOUS
  <2>3. Known' \subseteq New
    <3> HIDE DEF New
    <3> QED BY <2>2 DEF Known, Named
  <2>4. lastID \in Nat
    BY DEF Types
  <2> QED BY <2>1, <2>3, <2>4, KnownKept
<1>2. /\ Named(entries) \subseteq New /\ Named(disk) \subseteq New
      /\ \A r \in Runs : calls[r] \in Known /\ calls[r] \in New
      /\ Known \cup {{}} \subseteq New /\ {} \in New
  BY DEF Known
<1>3. Types
  OBVIOUS
<1> HIDE DEF New
<1>4. CASE Boot
  <2>1. /\ Sanitized(disk) \in Seq(EntryTypes)
        /\ Named(Sanitized(disk)) \subseteq New
        /\ Named(disk') \subseteq New /\ disk' \in Seq(EntryTypes)
    BY <1>2, <1>4, DiskLoaded DEF Boot, Types
  <2>2. Replayed(Sanitized(disk)) \in Seq(MessageTypes)
    BY <2>1, ReplayedTyped
  <2> QED BY <1>1, <1>2, <1>4, <2>1, <2>2 DEF Boot, Types, runVars, history
<1>5. CASE ShellDone
  <2>1. disk' \in Seq(EntryTypes) /\ Named(disk') \subseteq New
    BY <1>2, <1>5, DiskSaved DEF ShellDone
  <2> QED BY <1>1, <1>2, <1>5, <2>1 DEF ShellDone, Types, runVars, history
<1>6. CASE SlashCompact
  <2>1. Compacted(entries) \in Seq(EntryTypes) /\ Named(Compacted(entries)) \subseteq New
    BY <1>2, EntriesCompacted
  <2> QED BY <1>1, <1>2, <1>6, <2>1 DEF SlashCompact, Types, runVars, counters
<1>7. CASE SlashClear
  <2>1. <<>> \in Seq(EntryTypes) /\ Named(<<>>) = {}
    BY EmptySeq DEF Named
  <2> QED BY <1>1, <1>2, <1>7, <2>1 DEF SlashClear, Types, runVars, counters
<1>8. CASE Quit
  <2>1. <<>> \in Seq(EntryTypes) /\ <<>> \in Seq(MessageTypes) /\ Named(<<>>) = {}
    BY EmptySeq DEF Named
  <2>2. disk' \in Seq(EntryTypes) /\ Named(disk') \subseteq New
    BY <1>2, <1>8, DiskSaved DEF Quit
  <2>3. /\ pc' \in [Runs -> PCs] /\ calls' \in [Runs -> SUBSET Nat]
        /\ \A r \in Runs : calls'[r] = {}
    BY <1>8 DEF Quit, PCs
  <2> QED BY <1>1, <1>2, <1>8, <2>1, <2>2, <2>3 DEF Quit, Types, counters
<1>9. ASSUME NEW r \in Runs, NEW t \in ToolModes, Submit(r, t)
      PROVE  Types' /\ IDsGrouped'
  <2>1. pc' \in [Runs -> PCs]
    BY <1>9 DEF Submit, Types, Goto, PCs
  <2> QED BY <1>1, <1>2, <1>9, <2>1 DEF Submit, Types
<1>10. ASSUME NEW r \in Runs, AppendPrompt(r)
       PROVE  Types' /\ IDsGrouped'
  <2>1. pc' \in [Runs -> PCs]
    BY <1>10 DEF AppendPrompt, Types, Goto, PCs
  <2>2. entries' \in Seq(EntryTypes) /\ Named(entries') \subseteq New
    BY <1>2, <1>10, EntriesGrow, EntriesTyped DEF AppendPrompt, Prompt
  <2> QED BY <1>1, <1>2, <1>10, <2>1, <2>2 DEF AppendPrompt, Types, runVars, counters, history
<1>11. ASSUME NEW r \in Runs, SendPrompt(r)
       PROVE  Types' /\ IDsGrouped'
  <2>1. pc' \in [Runs -> PCs]
    BY <1>11 DEF SendPrompt, Types, Goto, PCs
  <2>2. messages' \in Seq(MessageTypes)
    BY <1>11, MessageGrows, EntriesTyped DEF SendPrompt
  <2> QED BY <1>1, <1>2, <1>11, <2>1, <2>2 DEF SendPrompt, Types, runVars, counters, history
<1>12. ASSUME NEW r \in Runs, BeginTurn(r)
       PROVE  Types' /\ IDsGrouped'
  <2>1. pc' \in [Runs -> PCs]
    BY <1>12 DEF BeginTurn, Types, Goto, PCs
  <2> QED BY <1>1, <1>2, <1>12, <2>1 DEF BeginTurn, Types, runVars, counters, history
<1>13. ASSUME NEW r \in Runs, CompactTurn(r)
       PROVE  Types' /\ IDsGrouped'
  <2>1. pc' \in [Runs -> PCs]
    BY <1>13 DEF CompactTurn, Types, Goto, PCs
  <2>2. Compacted(entries) \in Seq(EntryTypes) /\ Named(Compacted(entries)) \subseteq New
    BY <1>2, EntriesCompacted
  <2> QED BY <1>1, <1>2, <1>13, <2>1, <2>2 DEF CompactTurn, Types, runVars, counters
<1>14. ASSUME NEW r \in Runs, ChatError(r)
       PROVE  Types' /\ IDsGrouped'
  <2>1. pc' \in [Runs -> PCs]
    BY <1>14 DEF ChatError, Types, Goto, PCs
  <2> QED BY <1>1, <1>2, <1>14, <2>1 DEF ChatError, Types, runVars, counters, history
<1>15. ASSUME NEW r \in Runs, NEW t \in Texts, NEW n \in 0..MaxCalls - lastID, ChatReply(r, t, n)
       PROVE  Types' /\ IDsGrouped'
  <2> DEFINE ids == lastID + 1 .. lastID + n
  <2>1. n \in Nat /\ lastID \in Nat /\ lastID' = lastID + n /\ lastID' \in Nat /\ lastID <= lastID'
    BY <1>15 DEF ChatReply, Types
  <2>2. ids \in SUBSET Nat /\ ids = (lastID + 1)..lastID'
    BY <2>1
  <2>3. AppendEntry(r, Reply(t, ids)) /\ calls' = [calls EXCEPT ![r] = ids]
    BY <1>15 DEF ChatReply
  <2>4. ids \in New
    BY <2>2 DEF New
  <2> HIDE DEF ids
  <2>5. Reply(t, ids) \in EntryTypes /\ Reply(t, ids).uses = ids /\ Reply(t, ids).results = {}
    BY <2>2, EntriesTyped DEF Reply
  <2>6. entries' \in Seq(EntryTypes) /\ Named(entries') \subseteq New
    BY <1>2, <2>3, <2>4, <2>5, EntriesGrow
  <2>7. pc' \in [Runs -> PCs]
    BY <1>15 DEF ChatReply, Types, Goto, PCs
  <2>8. calls' \in [Runs -> SUBSET Nat] /\ \A q \in Runs : calls'[q] \in New
    BY <1>2, <2>2, <2>3, <2>4 DEF Types
  <2> QED BY <1>1, <1>2, <1>15, <2>1, <2>6, <2>7, <2>8 DEF ChatReply, Types, history
<1>16. ASSUME NEW r \in Runs, AppendAssistant(r)
       PROVE  Types' /\ IDsGrouped'
  <2>1. pc' \in [Runs -> PCs]
    BY <1>16 DEF AppendAssistant, Types, Goto, PCs
  <2>2. calls[r] \in SUBSET Nat
    BY DEF Types
  <2>3. messages' \in Seq(MessageTypes)
    BY <1>16, <2>2, MessageGrows, EntriesTyped DEF AppendAssistant
  <2>4. skipped' \subseteq Nat
    BY <1>16, <2>2 DEF AppendAssistant, Types
  <2>5. entries' = entries /\ disk' = disk /\ calls' = calls /\ lastID' = lastID
    BY <1>16 DEF AppendAssistant, runVars, counters
  <2> QED BY <1>1, <1>2, <2>1, <2>3, <2>4, <2>5 DEF Types
<1>17. ASSUME NEW r \in Runs, SendResults(r)
       PROVE  Types' /\ IDsGrouped'
  <2>1. pc' \in [Runs -> PCs]
    BY <1>17 DEF SendResults, Types, Goto, PCs
  <2>2. calls[r] \in SUBSET Nat
    BY DEF Types
  <2>3. messages' \in Seq(MessageTypes)
    BY <1>17, <2>2, MessageGrows, EntriesTyped DEF SendResults
  <2> QED BY <1>1, <1>2, <1>17, <2>1, <2>3 DEF SendResults, Types, runVars, counters, history
<1>18. ASSUME NEW r \in Runs, AppendResults(r)
       PROVE  Types' /\ IDsGrouped'
  <2>1. pc' \in [Runs -> PCs]
    BY <1>18 DEF AppendResults, Types, Goto, PCs
  <2>2. calls[r] \in SUBSET Nat
    BY DEF Types
  <2>3. /\ Results(calls[r]) \in EntryTypes
        /\ Results(calls[r]).uses = {} /\ Results(calls[r]).results = calls[r]
    BY <2>2, EntriesTyped DEF Results
  <2>4. AppendEntry(r, Results(calls[r])) /\ calls' = [calls EXCEPT ![r] = {}]
    BY <1>18 DEF AppendResults
  <2>5. entries' \in Seq(EntryTypes) /\ Named(entries') \subseteq New
    BY <1>2, <2>3, <2>4, EntriesGrow
  <2>6. calls' \in [Runs -> SUBSET Nat] /\ \A q \in Runs : calls'[q] \in New
    BY <1>2, <2>4 DEF Types
  <2> QED BY <1>1, <1>2, <1>18, <2>1, <2>5, <2>6 DEF AppendResults, Types, counters, history
<1>19. ASSUME NEW r \in Runs, AgentDone(r)
       PROVE  Types' /\ IDsGrouped'
  <2>1. pc' \in [Runs -> PCs]
    BY <1>19 DEF AgentDone, Types, Goto, PCs
  <2>2. disk' \in Seq(EntryTypes) /\ Named(disk') \subseteq New
    BY <1>2, <1>19, DiskSaved DEF AgentDone
  <2>3. calls' \in [Runs -> SUBSET Nat] /\ \A q \in Runs : calls'[q] \in New
    BY <1>2, <1>19 DEF AgentDone, Types
  <2> QED BY <1>1, <1>2, <1>19, <2>1, <2>2, <2>3 DEF AgentDone, Types, counters, history
<1>20. CASE UNCHANGED vars
  <2>1. /\ entries' = entries /\ disk' = disk /\ messages' = messages /\ pc' = pc
        /\ calls' = calls /\ lastID' = lastID /\ skipped' = skipped
    BY <1>20 DEF vars, runVars, counters, history
  <2>2. Ok
    BY <2>1 DEF Types
  <2>3. Kept
    <3> HIDE DEF Kept, Ok
    <3> QED BY <1>2, <2>1 DEF Kept
  <2> HIDE DEF Ok, Kept
  <2> QED BY <1>1, <2>2, <2>3
<1> QED
  BY <1>4, <1>5, <1>6, <1>7, <1>8, <1>9, <1>10, <1>11, <1>12, <1>13, <1>14, <1>15, <1>16,
     <1>17, <1>18, <1>19, <1>20, Zenon DEF Next, RunStep

\* Until two runs overlap there is one.
LEMMA OneRunStep ==
  ASSUME Types, OneRun, [Next]_vars
  PROVE  OneRun'
<1>1. CASE Quit
  BY <1>1 DEF Quit, OneRun, Active
<1>2. ASSUME NEW r \in Runs, NEW t \in ToolModes, Submit(r, t)
      PROVE  OneRun'
  <2>1. /\ pc' = [pc EXCEPT ![r] = "begin"] /\ ui' = "streaming"
        /\ overlap' = (overlap \/ \E q \in Runs : Active(q))
    BY <1>2 DEF Submit, Goto
  <2>2. \A q \in Runs : q # r => pc'[q] = pc[q]
    BY <2>1 DEF Types
  <2>3. ~overlap' => \A q \in Runs : q # r => ~Active(q)'
    BY <2>1, <2>2 DEF Active
  <2> QED BY <2>1, <2>3 DEF OneRun
<1>3. ASSUME NEW r \in Runs, RunStep(r)
      PROVE  OneRun'
  <2>1. Active(r) /\ overlap' = overlap /\ (ui' = ui \/ ui' = "input")
        /\ \E l : pc' = [pc EXCEPT ![r] = l]
    BY <1>3 DEF RunStep, AppendPrompt, SendPrompt, BeginTurn, CompactTurn, ChatError, ChatReply,
       AppendAssistant, SendResults, AppendResults, AgentDone, Active, Goto, history
  <2>2. \A q \in Runs : Active(q)' => Active(q)
    BY <2>1 DEF Active, Types
  <2>3. ui # "off"
    BY <2>1 DEF OneRun
  <2>4. ui' # "off"
    BY <2>1, <2>3
  <2> QED BY <2>1, <2>2, <2>4 DEF OneRun
<1>4. CASE Boot \/ ShellDone \/ SlashCompact \/ SlashClear \/ UNCHANGED vars
  <2>1. pc' = pc /\ overlap' = overlap /\ (ui' = "off" => ui = "off")
    BY <1>4 DEF Boot, ShellDone, SlashCompact, SlashClear, vars, history
  <2> QED BY <2>1 DEF OneRun, Active
<1> QED BY <1>1, <1>2, <1>3, <1>4 DEF Next

\* A step of the only run: nobody else is inside agent.Run.
LEMMA Alone ==
  ASSUME OneRun, ~overlap, NEW r \in Runs, Active(r)
  PROVE  \A q \in Runs : q # r => pc[q] = "idle"
BY DEF OneRun, Active

\* What the driver keeps of a response does not depend on its text.
LEMMA ReplyMessage ==
  ASSUME NEW t \in BOOLEAN, NEW ids
  PROVE  MessageOf(Reply(t, ids)) = MessageOf(Reply(FALSE, ids))
BY DEF MessageOf, Reply

\* The two histories, step by step.
LEMMA AheadStep ==
  ASSUME Types, OneRun, Ahead, [Next]_vars
  PROVE  Ahead'
<1> USE AgentAssumption DEF AgentAssumption
<1> SUFFICES ASSUME ~edited', ~overlap'
             PROVE  /\ (\A r \in Runs : pc'[r] \notin {"send", "assistant", "store"})
                         => messages' = Replayed(entries')
                    /\ \A r \in Runs :
                         /\ pc'[r] = "send" => Replayed(entries') = Append(messages', MessageOf(Prompt))
                         /\ pc'[r] = "assistant" =>
                              Replayed(entries') = Append(messages', MessageOf(Reply(FALSE, calls'[r])))
                         /\ pc'[r] = "store" => messages' = Append(Replayed(entries'), MessageOf(Results(calls'[r])))
  BY DEF Ahead, Replayed, MessageOf, Prompt, Reply, Results
<1> DEFINE Goal == /\ (\A r \in Runs : pc'[r] \notin {"send", "assistant", "store"})
                         => messages' = Replayed(entries')
                   /\ \A r \in Runs :
                         /\ pc'[r] = "send" => Replayed(entries') = Append(messages', MessageOf(Prompt))
                         /\ pc'[r] = "assistant" =>
                              Replayed(entries') = Append(messages', MessageOf(Reply(FALSE, calls'[r])))
                         /\ pc'[r] = "store" => messages' = Append(Replayed(entries'), MessageOf(Results(calls'[r])))
<1>1. CASE Boot
  <2>1. \A r \in Runs : pc'[r] = "idle"
    BY <1>1 DEF Boot, OneRun, Active
  <2> QED BY <1>1, <2>1 DEF Boot
<1>2. CASE Quit
  <2>1. Replayed(<<>>) = <<>>
    BY DEF Replayed
  <2> QED BY <1>2, <2>1 DEF Quit
<1>3. CASE ShellDone \/ UNCHANGED vars
  BY <1>3 DEF ShellDone, vars, runVars, history, Ahead
<1>4. CASE SlashCompact \/ SlashClear
  BY <1>4 DEF SlashCompact, SlashClear, runVars, Ahead
<1>5. ASSUME NEW r \in Runs, NEW t \in ToolModes, Submit(r, t)
      PROVE  Goal
  <2>1. /\ pc' = [pc EXCEPT ![r] = "begin"] /\ ~Active(r) /\ ~overlap /\ ~edited
        /\ messages' = messages /\ entries' = entries /\ calls' = calls
    BY <1>5 DEF Submit, Goto
  <2>2. \A q \in Runs : q # r => pc'[q] = pc[q]
    BY <2>1 DEF Types
  <2>3. pc'[r] = "begin" /\ pc[r] = "idle"
    BY <2>1 DEF Types, Active
  <2> QED BY <2>1, <2>2, <2>3 DEF Ahead
<1>6. ASSUME NEW r \in Runs, RunStep(r)
      PROVE  Goal
  <2>1. Active(r) /\ overlap' = overlap /\ \E l : pc' = [pc EXCEPT ![r] = l]
    BY <1>6 DEF RunStep, AppendPrompt, SendPrompt, BeginTurn, CompactTurn, ChatError, ChatReply,
       AppendAssistant, SendResults, AppendResults, AgentDone, Active, Goto, history
  <2>b. edited => edited'
    <3>1. CASE CompactTurn(r)
      BY <3>1 DEF CompactTurn
    <3>2. CASE ~CompactTurn(r)
      <4>1. edited' = edited
        BY <1>6, <3>2 DEF RunStep, AppendPrompt, SendPrompt, BeginTurn, ChatError, ChatReply,
           AppendAssistant, SendResults, AppendResults, AgentDone, history
      <4> QED BY <4>1
    <3> QED BY <3>1, <3>2
  <2>2. ~overlap /\ ~edited
    BY <2>1, <2>b
  <2>3. \A q \in Runs : q # r => pc[q] = "idle" /\ pc'[q] = "idle"
    BY <2>1, <2>2, Alone DEF Types
  <2> DEFINE Step == /\ pc'[r] \notin {"send", "assistant", "store"} => messages' = Replayed(entries')
                     /\ pc'[r] = "send" => Replayed(entries') = Append(messages', MessageOf(Prompt))
                     /\ pc'[r] = "assistant" =>
                          Replayed(entries') = Append(messages', MessageOf(Reply(FALSE, calls'[r])))
                     /\ pc'[r] = "store" => messages' = Append(Replayed(entries'), MessageOf(Results(calls'[r])))
  <2>4. SUFFICES Step
    BY <2>3
  <2>5. /\ pc[r] \notin {"send", "assistant", "store"} => messages = Replayed(entries)
        /\ pc[r] = "send" => Replayed(entries) = Append(messages, MessageOf(Prompt))
        /\ pc[r] = "assistant" =>
             Replayed(entries) = Append(messages, MessageOf(Reply(FALSE, calls[r])))
        /\ pc[r] = "store" => messages = Append(Replayed(entries), MessageOf(Results(calls[r])))
    <3>1. pc[r] \notin {"send", "assistant", "store"} =>
            \A q \in Runs : pc[q] \notin {"send", "assistant", "store"}
      BY <2>3
    <3> QED BY <2>2, <3>1 DEF Ahead
  <2>6. ASSUME NEW e \in EntryTypes, AppendEntry(r, e)
        PROVE  Replayed(entries') = Append(Replayed(entries), MessageOf(e))
    <3>1. entries' = Append(entries, e)
      BY <2>1, <2>2, <2>6, EntriesGrow
    <3> QED BY <3>1, ReplayedAppend DEF Types
  <2>a. calls[r] \in SUBSET Nat
    BY DEF Types
  <2>7. CASE AppendPrompt(r)
    <3>1. pc[r] = "begin" /\ pc'[r] = "send" /\ messages' = messages
      BY <2>7 DEF AppendPrompt, Goto, Types
    <3>2. Replayed(entries') = Append(Replayed(entries), MessageOf(Prompt))
      BY <2>6, <2>7, EntriesTyped DEF AppendPrompt
    <3> QED BY <2>5, <3>1, <3>2
  <2>8. CASE SendPrompt(r)
    <3>1. pc[r] = "send" /\ pc'[r] = "turn" /\ entries' = entries
          /\ messages' = Append(messages, MessageOf(Prompt))
      BY <2>8 DEF SendPrompt, Goto, Types
    <3> QED BY <2>5, <3>1
  <2>9. CASE BeginTurn(r) \/ ChatError(r) \/ AgentDone(r)
    <3>1. /\ pc[r] \in {"turn", "chat", "done"} /\ pc'[r] \in {"chat", "compact", "done", "idle"}
          /\ entries' = entries /\ messages' = messages
      BY <2>9 DEF BeginTurn, ChatError, AgentDone, Goto, Types
    <3> QED BY <2>5, <3>1
  <2>10. CASE CompactTurn(r)
    <3>1. pc[r] = "compact" /\ pc'[r] = "chat" /\ entries' = entries /\ messages' = messages
      BY <2>10 DEF CompactTurn, Goto, Types
    <3> QED BY <2>5, <3>1
  <2>11. ASSUME NEW t \in Texts, NEW n \in 0..MaxCalls - lastID, ChatReply(r, t, n)
         PROVE  Step
    <3> DEFINE ids == lastID + 1 .. lastID + n
    <3>1. ids \in SUBSET Nat
      <4>1. lastID \in Nat /\ n \in Int
        BY DEF Types
      <4> QED BY <4>1
    <3>2. /\ pc[r] = "chat" /\ AppendEntry(r, Reply(t, ids)) /\ messages' = messages
          /\ calls' = [calls EXCEPT ![r] = ids] /\ pc' = [pc EXCEPT ![r] = "assistant"]
      BY <2>11 DEF ChatReply, Goto
    <3> HIDE DEF ids
    <3>3. pc'[r] = "assistant" /\ calls'[r] = ids
      BY <3>2 DEF Types
    <3>4. Reply(t, ids) \in EntryTypes
      BY <3>1, EntriesTyped
    <3>5. Replayed(entries') = Append(Replayed(entries), MessageOf(Reply(FALSE, ids)))
      BY <2>6, <3>2, <3>4, ReplyMessage
    <3> QED BY <2>5, <3>2, <3>3, <3>5
  <2>12. CASE AppendAssistant(r)
    <3>1. /\ pc[r] = "assistant" /\ pc'[r] \in {"results", "done"} /\ entries' = entries
          /\ messages' = Append(messages, MessageOf(Reply(FALSE, calls[r])))
      BY <2>12 DEF AppendAssistant, Goto, Types
    <3> QED BY <2>5, <3>1
  <2>13. CASE SendResults(r)
    <3>1. /\ pc[r] = "results" /\ pc'[r] = "store" /\ entries' = entries /\ calls' = calls
          /\ messages' = Append(messages, MessageOf(Results(calls[r])))
      BY <2>13 DEF SendResults, Goto, Types, runVars
    <3> QED BY <2>5, <3>1
  <2>14. CASE AppendResults(r)
    <3>1. /\ pc[r] = "store" /\ pc'[r] = "turn" /\ messages' = messages
          /\ AppendEntry(r, Results(calls[r]))
      BY <2>14 DEF AppendResults, Goto, Types
    <3>2. Replayed(entries') = Append(Replayed(entries), MessageOf(Results(calls[r])))
      BY <2>6, <2>a, <3>1, EntriesTyped
    <3> QED BY <2>5, <3>1, <3>2
  <2> QED BY <1>6, <2>7, <2>8, <2>9, <2>10, <2>11, <2>12, <2>13, <2>14, Zenon DEF RunStep
<1> QED BY <1>1, <1>2, <1>3, <1>4, <1>5, <1>6 DEF Next

\* A message that makes no calls leaves no call of the driver's messages open that
\* was not open before.
LEMMA AnswerSent ==
  ASSUME Types, NEW m \in MessageTypes, m.uses = {},
         \A i \in DOMAIN messages :
           \/ Unanswered(messages, i) \subseteq skipped
           \/ i = Len(messages) /\ messages[i].uses \subseteq m.results
  PROVE  \A i \in DOMAIN Append(messages, m) : Unanswered(Append(messages, m), i) \subseteq skipped
<1> DEFINE a == Append(messages, m)
<1>1. /\ DOMAIN a = DOMAIN messages \cup {Len(messages) + 1}
      /\ \A i \in DOMAIN messages :
           Unanswered(a, i) =
             IF i = Len(messages) THEN messages[i].uses \ m.results ELSE Unanswered(messages, i)
      /\ Unanswered(a, Len(messages) + 1) = m.uses
  BY MessageAppend DEF Types
<1> HIDE DEF a
<1>2. \A i \in DOMAIN messages : i = Len(messages) => Unanswered(messages, i) = messages[i].uses
  <2> SUFFICES ASSUME NEW i \in DOMAIN messages, i = Len(messages)
               PROVE  Unanswered(messages, i) = messages[i].uses
    OBVIOUS
  <2>1. Len(messages) \in Nat
    BY LenProperties DEF Types
  <2>2. ~(i < Len(messages))
    BY <2>1
  <2> QED BY <2>2 DEF Unanswered
<1>3. ASSUME NEW i \in DOMAIN messages
      PROVE  Unanswered(a, i) \subseteq skipped
  <2>1. CASE i = Len(messages)
    BY <1>1, <1>2, <2>1
  <2>2. CASE i # Len(messages)
    BY <1>1, <2>2
  <2> QED BY <2>1, <2>2
<1>4. Unanswered(a, Len(messages) + 1) \subseteq skipped
  BY <1>1
<1> QED BY <1>1, <1>3, <1>4 DEF a

\* What is answered, step by step.
LEMMA AwaitedStep ==
  ASSUME Types, IDsGrouped, OneRun, Awaited, [Next]_vars
  PROVE  Awaited'
<1> DEFINE Goal == \A i \in DOMAIN messages' :
                     \/ Unanswered(messages', i) \subseteq skipped'
                     \/ /\ i = Len(messages')
                        /\ \E r \in Runs : pc'[r] = "results" /\ messages'[i].uses = calls'[r]
<1> SUFFICES ASSUME ~overlap' PROVE Goal
  BY DEF Awaited, Unanswered
<1>a. ASSUME messages' = messages, skipped' = skipped, ~overlap,
             \A r \in Runs : pc[r] = "results" => pc'[r] = "results" /\ calls'[r] = calls[r]
      PROVE  Goal
  BY <1>a DEF Awaited
<1>1. CASE Boot
  <2>1. \A i \in DOMAIN Replayed(Sanitized(disk)) : Unanswered(Replayed(Sanitized(disk)), i) = {}
    BY DiskLoaded, ReplayedAnswered
  <2> QED BY <1>1, <2>1 DEF Boot
<1>2. CASE Quit
  <2>1. messages' = <<>>
    BY <1>2 DEF Quit
  <2> QED BY <2>1
<1>3. CASE ShellDone \/ SlashCompact \/ SlashClear \/ UNCHANGED vars
  BY <1>a, <1>3 DEF ShellDone, SlashCompact, SlashClear, vars, runVars, history
<1>4. ASSUME NEW r \in Runs, NEW t \in ToolModes, Submit(r, t)
      PROVE  Goal
  <2>1. /\ pc' = [pc EXCEPT ![r] = "begin"] /\ ~Active(r) /\ ~overlap
        /\ messages' = messages /\ skipped' = skipped /\ calls' = calls
    BY <1>4 DEF Submit, Goto
  <2>2. \A q \in Runs : pc[q] = "results" => pc'[q] = "results"
    BY <2>1 DEF Types, Active
  <2> QED BY <1>a, <2>1, <2>2
<1>5. ASSUME NEW r \in Runs, RunStep(r)
      PROVE  Goal
  <2>1. Active(r) /\ overlap' = overlap
    BY <1>5 DEF RunStep, AppendPrompt, SendPrompt, BeginTurn, CompactTurn, ChatError, ChatReply,
       AppendAssistant, SendResults, AppendResults, AgentDone, Active, history
  <2>2. ~overlap /\ \A q \in Runs : q # r => pc[q] = "idle"
    BY <2>1, Alone
  <2>3. \A i \in DOMAIN messages :
          \/ Unanswered(messages, i) \subseteq skipped
          \/ i = Len(messages) /\ pc[r] = "results" /\ messages[i].uses = calls[r]
    BY <2>2 DEF Awaited
  <2>4. calls[r] \in SUBSET Nat
    BY DEF Types
  <2>5. CASE SendPrompt(r)
    <3>1. pc[r] = "send" /\ skipped' = skipped /\ messages' = Append(messages, MessageOf(Prompt))
      BY <2>5 DEF SendPrompt, history
    <3>2. MessageOf(Prompt) \in MessageTypes /\ MessageOf(Prompt).uses = {}
      BY MessageTyped, EntriesTyped DEF MessageOf, Prompt
    <3> QED BY <2>3, <3>1, <3>2, AnswerSent
  <2>6. CASE SendResults(r)
    <3>1. skipped' = skipped /\ messages' = Append(messages, MessageOf(Results(calls[r])))
      BY <2>6 DEF SendResults, history
    <3>2. /\ MessageOf(Results(calls[r])) \in MessageTypes /\ MessageOf(Results(calls[r])).uses = {}
          /\ MessageOf(Results(calls[r])).results = calls[r]
      BY <2>4, MessageTyped, EntriesTyped DEF MessageOf, Results
    <3> QED BY <2>3, <3>1, <3>2, AnswerSent
  <2>7. CASE AppendAssistant(r)
    <3> DEFINE m == MessageOf(Reply(FALSE, calls[r]))
               a == Append(messages, m)
    <3>1. /\ pc[r] = "assistant" /\ messages' = a /\ calls' = calls
          /\ skipped' = IF tools[r] THEN skipped ELSE skipped \cup calls[r]
          /\ calls[r] # {} /\ tools[r] => pc' = [pc EXCEPT ![r] = "results"]
      BY <2>7 DEF AppendAssistant, Goto, runVars
    <3>2. m \in MessageTypes /\ m.uses = calls[r] /\ m.results = {}
      BY <2>4, MessageTyped, EntriesTyped DEF MessageOf, Reply
    <3> HIDE DEF m
    <3>3. /\ a \in Seq(MessageTypes) /\ Len(a) = Len(messages) + 1 /\ a[Len(messages) + 1] = m
          /\ DOMAIN a = DOMAIN messages \cup {Len(messages) + 1}
          /\ \A i \in DOMAIN messages :
               Unanswered(a, i) =
                 IF i = Len(messages) THEN messages[i].uses \ m.results ELSE Unanswered(messages, i)
          /\ Unanswered(a, Len(messages) + 1) = m.uses
      BY <3>2, MessageAppend DEF Types
    <3> HIDE DEF a
    <3>4. Len(messages) \in Nat
      BY LenProperties DEF Types
    <3>5. ASSUME NEW i \in DOMAIN messages
          PROVE  Unanswered(a, i) \subseteq skipped'
      <4>1. Unanswered(messages, i) \subseteq skipped
        BY <2>3, <3>1
      <4>2. i = Len(messages) => Unanswered(messages, i) = messages[i].uses
        <5>1. i = Len(messages) => ~(i < Len(messages))
          BY <3>4
        <5> QED BY <5>1 DEF Unanswered
      <4>3. Unanswered(a, i) \subseteq Unanswered(messages, i)
        BY <3>2, <3>3, <4>2
      <4> QED BY <3>1, <4>1, <4>3
    <3>6. CASE tools[r] /\ calls[r] # {}
      <4>1. pc'[r] = "results"
        BY <3>1, <3>6 DEF Types
      <4> QED BY <3>1, <3>2, <3>3, <3>5, <4>1
    <3>7. CASE ~(tools[r] /\ calls[r] # {})
      <4>1. Unanswered(a, Len(messages) + 1) \subseteq skipped'
        BY <3>1, <3>2, <3>3, <3>7
      <4> QED BY <3>1, <3>3, <3>5, <4>1
    <3> QED BY <3>6, <3>7
  <2>8. CASE ~(SendPrompt(r) \/ SendResults(r) \/ AppendAssistant(r))
    <3>1. messages' = messages /\ skipped' = skipped /\ pc[r] # "results"
      BY <1>5, <2>8 DEF RunStep, AppendPrompt, BeginTurn, CompactTurn, ChatError, ChatReply,
         AppendResults, AgentDone, history
    <3> QED BY <2>3, <3>1
  <2> QED BY <2>5, <2>6, <2>7, <2>8
<1> QED BY <1>1, <1>2, <1>3, <1>4, <1>5 DEF Next

LEMMA SessionInit == Init => SessionInv
<1> SUFFICES ASSUME Init PROVE SessionInv
  OBVIOUS
<1>1. <<>> \in Seq(EntryTypes) /\ <<>> \in Seq(MessageTypes) /\ Named(<<>>) = {} /\ Replayed(<<>>) = <<>>
  BY EmptySeq DEF Named, Replayed
<1>2. Types
  BY <1>1 DEF Init, Types, PCs
<1>3. \A U \in Known : U = {}
  BY <1>1 DEF Init, Known
<1>4. IDsGrouped
  BY <1>3 DEF IDsGrouped, Grouped
<1>5. OneRun
  BY DEF Init, OneRun, Active
<1>6. Ahead
  BY <1>1 DEF Init, Ahead
<1>7. Awaited
  BY DEF Init, Awaited
<1> QED BY <1>2, <1>4, <1>5, <1>6, <1>7 DEF SessionInv

LEMMA SessionStep == SessionInv /\ [Next]_vars => SessionInv'
BY IDsStep, OneRunStep, AheadStep, AwaitedStep DEF SessionInv

LEMMA SessionInvariant == Spec => []SessionInv
BY SessionInit, SessionStep, PTL DEF Spec

-----------------------------------------------------------------------------
\* The driver's messages are a replay of the session at the head of a turn, at a
\* chat and between runs, for any number of runs, turns and starts, until the
\* session is edited or two runs overlap (loop.go:80-175, model.go:560-640).
THEOREM MirrorCorrect == Spec => []SessionMirrorsDriver
<1>1. SessionInv => SessionMirrorsDriver
  BY DEF SessionInv, Ahead, SessionMirrorsDriver
<1> QED BY <1>1, SessionInvariant, PTL

\* What the provider is shown answers every tool call at once, but for those of
\* runs with tools disabled, until two runs overlap.
THEOREM AnsweredCorrect == Spec => []ChatUsesAnswered
<1>1. ASSUME SessionInv, ~overlap, NEW r \in Runs, pc[r] = "chat", NEW i \in DOMAIN messages
      PROVE  Unanswered(messages, i) \subseteq skipped
  <2>1. \A q \in Runs : pc[q] # "results"
    BY <1>1, Alone DEF SessionInv, Active
  <2> QED BY <1>1, <2>1 DEF SessionInv, Awaited
<1>2. SessionInv => ChatUsesAnswered
  BY <1>1 DEF ChatUsesAnswered
<1> QED BY <1>2, SessionInvariant, PTL

\* A second load changes nothing that a first one has repaired, at any time.
THEOREM RepairCorrect == Spec => []RepairIdempotent
<1>1. SessionInv => RepairIdempotent
  <2> SUFFICES ASSUME SessionInv PROVE RepairIdempotent
    OBVIOUS
  <2>1. entries \in Seq(EntryTypes) /\ Grouped(Named(entries))
    BY DEF SessionInv, Types, IDsGrouped, Grouped, Known
  <2> QED BY <2>1, SanitizedCorrect DEF RepairIdempotent
<1> QED BY <1>1, SessionInvariant, PTL

\* A start answers every call of what it loads, whatever was saved.
THEOREM LoadCorrect == Spec => LoadUsesAnswered
<1>1. ASSUME SessionInv, Boot
      PROVE  \A i \in DOMAIN messages' : Unanswered(messages', i) = {}
  <2>1. \A i \in DOMAIN Replayed(Sanitized(disk)) : Unanswered(Replayed(Sanitized(disk)), i) = {}
    BY <1>1, DiskLoaded, ReplayedAnswered DEF SessionInv
  <2> QED BY <1>1, <2>1 DEF Boot
<1>2. SessionInv => [Boot => \A i \in DOMAIN messages' : Unanswered(messages', i) = {}]_vars
  BY <1>1
<1> QED BY <1>2, SessionInvariant, PTL DEF LoadUsesAnswered

-----------------------------------------------------------------------------
\* The counters, and the turns of a run: one that is inside a turn has it left.
Counts ==
  /\ turn \in [Runs -> 0..MaxTurns]
  /\ \A r \in Runs : pc[r] \in {"compact", "chat", "assistant", "results", "store"}
                      => turn[r] < MaxTurns
  /\ prompts \in 0..MaxPrompts /\ shells \in 0..MaxShells /\ boots \in 0..MaxBoots

Switches ==
  /\ ui \in {"off", "input", "streaming"} /\ tools \in [Runs -> BOOLEAN]
  /\ edited \in BOOLEAN /\ overlap \in BOOLEAN

LEMMA CountsKept ==
  ASSUME Types, Counts, [Next]_vars
  PROVE  Counts'
<1> USE AgentAssumption DEF Counts, Goto, runVars, counters
<1>1. ASSUME NEW r \in Runs, BeginTurn(r)
      PROVE  Counts'
  BY <1>1 DEF BeginTurn, MoreTurns, Types
<1>2. ASSUME NEW r \in Runs, CompactTurn(r) \/ AppendAssistant(r) \/ SendResults(r)
      PROVE  Counts'
  BY <1>2 DEF CompactTurn, AppendAssistant, SendResults, Types
<1>3. ASSUME NEW r \in Runs, NEW t, NEW n, ChatReply(r, t, n)
      PROVE  Counts'
  BY <1>3 DEF ChatReply, Types
<1>4. ASSUME NEW r \in Runs, AppendResults(r)
      PROVE  Counts'
  <2>1. /\ pc[r] = "store" /\ pc' = [pc EXCEPT ![r] = "turn"]
        /\ turn' = [turn EXCEPT ![r] = turn[r] + 1]
        /\ UNCHANGED <<prompts, shells, boots>>
    BY <1>4 DEF AppendResults
  <2>2. turn[r] + 1 \in 0..MaxTurns
    BY <2>1
  <2> QED BY <2>1, <2>2 DEF Types
<1>5. ASSUME NEW r \in Runs, AppendPrompt(r) \/ SendPrompt(r) \/ ChatError(r)
      PROVE  Counts'
  BY <1>5 DEF AppendPrompt, SendPrompt, ChatError, Types
<1>6. ASSUME NEW r \in Runs, AgentDone(r)
      PROVE  Counts'
  BY <1>6 DEF AgentDone, Types
<1>7. ASSUME NEW r \in Runs, NEW t, Submit(r, t)
      PROVE  Counts'
  BY <1>7 DEF Submit, Types
<1>8. CASE Boot \/ ShellDone \/ SlashCompact \/ SlashClear \/ UNCHANGED vars
  BY <1>8 DEF Boot, ShellDone, SlashCompact, SlashClear, vars
<1>9. CASE Quit
  BY <1>9 DEF Quit
<1> QED BY <1>1, <1>2, <1>3, <1>4, <1>5, <1>6, <1>7, <1>8, <1>9 DEF Next, RunStep

LEMMA SwitchesKept ==
  ASSUME Switches, [Next]_vars
  PROVE  Switches'
<1> USE AgentAssumption DEF Switches, runVars, history
<1>1. ASSUME NEW r \in Runs, AppendPrompt(r) \/ SendPrompt(r) \/ BeginTurn(r) \/ ChatError(r)
               \/ AppendAssistant(r) \/ SendResults(r) \/ AppendResults(r)
      PROVE  Switches'
  BY <1>1 DEF AppendPrompt, SendPrompt, BeginTurn, ChatError, AppendAssistant, SendResults, AppendResults
<1>2. ASSUME NEW r \in Runs, NEW t, NEW n, ChatReply(r, t, n)
      PROVE  Switches'
  BY <1>2 DEF ChatReply
<1>3. ASSUME NEW r \in Runs, CompactTurn(r) \/ SlashCompact \/ SlashClear
      PROVE  Switches'
  <2>1. UNCHANGED <<ui, tools, overlap>> /\ edited' = (edited \/ entries' # entries)
    BY <1>3 DEF CompactTurn, SlashCompact, SlashClear
  <2>2. edited' \in BOOLEAN
    BY <2>1
  <2> QED BY <2>1, <2>2
<1>4. ASSUME NEW r \in Runs, AgentDone(r)
      PROVE  Switches'
  BY <1>4 DEF AgentDone
<1>5. ASSUME NEW r \in Runs, NEW t \in ToolModes, Submit(r, t)
      PROVE  Switches'
  <2>1. /\ UNCHANGED edited /\ ui' = "streaming" /\ tools' = [tools EXCEPT ![r] = t]
        /\ overlap' = (overlap \/ \E q \in Runs : Active(q))
    BY <1>5 DEF Submit
  <2>2. t \in BOOLEAN
    OBVIOUS
  <2>3. tools' \in [Runs -> BOOLEAN]
    BY <2>1, <2>2
  <2>4. overlap' \in BOOLEAN
    BY <2>1
  <2> QED BY <2>1, <2>3, <2>4
<1>6. CASE Boot \/ ShellDone \/ SlashCompact \/ SlashClear \/ UNCHANGED vars
  <2>1. UNCHANGED <<tools, overlap>> /\ ui' \in {"off", "input", "streaming"}
    BY <1>6 DEF Boot, ShellDone, SlashCompact, SlashClear, vars
  <2>2. edited' = edited \/ edited' = (edited \/ entries' # entries)
    BY <1>6 DEF Boot, ShellDone, SlashCompact, SlashClear, vars
  <2>3. edited' \in BOOLEAN
    BY <2>2
  <2> QED BY <2>1, <2>3
<1>7. CASE Quit
  BY <1>7 DEF Quit
<1> QED BY <1>1, <1>2, <1>3, <1>4, <1>5, <1>6, <1>7 DEF Next, RunStep

\* The types hold for any runs, and a run inside a turn has it left: Run makes no
\* more turns than it may (loop.go:110-175).
THEOREM SessionTypeCorrect == Spec => []TypeOK
<1>1. Init => Counts /\ Switches
  <2> SUFFICES ASSUME Init PROVE Counts /\ Switches
    OBVIOUS
  <2>1. Counts
    BY AgentAssumption DEF Init, Counts
  <2>2. Switches
    BY DEF Init, Switches
  <2> QED BY <2>1, <2>2
<1>2. SessionInv /\ Counts /\ Switches /\ [Next]_vars => Counts' /\ Switches'
  BY CountsKept, SwitchesKept DEF SessionInv
<1>3. SessionInv /\ Counts /\ Switches => TypeOK
  BY DEF SessionInv, Types, Counts, Switches, TypeOK
<1> QED BY <1>1, <1>2, <1>3, SessionInvariant, PTL DEF Spec
=============================================================================
