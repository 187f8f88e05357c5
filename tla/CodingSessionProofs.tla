------------------------- MODULE CodingSessionProofs -------------------------
(***************************************************************************)
(* Theorems about the coding agent's sessions, for paths and files of any  *)
(* length: what a compaction summarises and what it keeps, and that a      *)
(* request has a result for every call (Compaction); that a session        *)
(* survives failed writes, forks and being opened again (SessionManager).  *)
(***************************************************************************)
EXTENDS Compaction, SessionManager, SequenceTheorems, FiniteSetTheorems, WellFoundedInduction, TLAPS

(***************************************************************************)
(* What a path is: what its last entry tells, at every length it has had.  *)
(***************************************************************************)
TrailEntries ==
  [kind : {"user", "bash", "assistant", "toolResult", "custom", "setting", "compaction"}, size : Nat, calls : Nat,
   failed : BOOLEAN, of : Nat, nth : Nat, kept : Nat, covers : SUBSET Nat, budget : Nat, at : Nat]

\* A result: of a reply with nothing shown between but its other results, and one more than those.
ResultsTo(q, a) == {j \in 1..Len(q) : q[j].kind = "toolResult" /\ q[j].of = a}
FollowsCall(q, e) ==
  /\ e.of \in 1..(Len(q) - 1) /\ q[e.of].kind = "assistant" /\ ~q[e.of].failed
  /\ e.nth \in 1..q[e.of].calls /\ e.nth = Cardinality(ResultsTo(q, e.of))
  /\ \A j \in (e.of + 1)..(Len(q) - 1) : IsShown(q[j]) => q[j].kind = "toolResult" /\ q[j].of = e.of

\* A compaction: keeps from a cut point on, or from entries before it that are no messages.
LeadsToCut(q, first) == \E cut \in first..Len(q) : Cuttable(q[cut]) /\ \A j \in first..(cut - 1) : ~IsMessage(q[j])

\* The body of SummaryMeetsKept: e, prepared when the path had e.at entries, is added to p.
Meets(p, e) ==
  LET before == InContext(p)
      kept   == InContext(Append(p, e))
  IN /\ kept \subseteq before
     /\ before \ kept \subseteq e.covers
     /\ kept \cap e.covers = {}
     /\ \A i, j \in {k \in e.kept..e.at : IsMessage(p[k])} : i < j => SizeFrom(SubSeq(p, 1, e.at), j) < e.budget

\* What is summarised lies before what is kept.
Compacts(p, e) ==
  /\ e.kept \in 1..Len(p) /\ LeadsToCut(p, e.kept) /\ e.at \in 0..Len(p)
  /\ \A i \in e.covers : i < e.kept
  /\ Meets(p, e)

Sound(p, e) ==
  /\ e.kind = "toolResult" => FollowsCall(Append(p, e), e)
  /\ e.kind = "compaction" => Compacts(p, e)

Before(t, c) == SubSeq(t, 1, c - 1)
Sounds(t) == \A c \in 1..Len(t) : Sound(Before(t, c), t[c])
TrailInv ==
  /\ trail \in Seq(TrailEntries) /\ Sounds(trail)
  /\ \A e \in planned : e \in TrailEntries /\ e.kind = "compaction" /\ Compacts(trail, e)

(***************************************************************************)
(* Prefixes.                                                               *)
(***************************************************************************)
LEMMA PrefixIs ==
  ASSUME NEW S, NEW s \in Seq(S), NEW k \in 0..Len(s)
  PROVE  LET p == SubSeq(s, 1, k) IN p \in Seq(S) /\ Len(p) = k /\ \A i \in 1..k : p[i] = s[i]
  OBVIOUS

LEMMA PrefixOfPrefix ==
  ASSUME NEW S, NEW s \in Seq(S), NEW k \in 0..Len(s), NEW j \in 0..k
  PROVE  SubSeq(SubSeq(s, 1, k), 1, j) = SubSeq(s, 1, j)
<1> DEFINE p == SubSeq(s, 1, k)
           a == SubSeq(p, 1, j)
           b == SubSeq(s, 1, j)
<1>1. p \in Seq(S) /\ Len(p) = k /\ \A i \in 1..k : p[i] = s[i]
  BY PrefixIs
<1>2. j \in 0..Len(s) /\ j \in 0..Len(p) /\ j \in Nat
  BY <1>1
<1> HIDE DEF p
<1>3. a \in Seq(S) /\ Len(a) = j /\ \A i \in 1..j : a[i] = p[i]
  BY <1>1, <1>2, PrefixIs
<1>4. b \in Seq(S) /\ Len(b) = j /\ \A i \in 1..j : b[i] = s[i]
  BY <1>2, PrefixIs
<1> HIDE DEF a, b
<1>5. \A i \in 1..j : a[i] = b[i]
  BY <1>1, <1>2, <1>3, <1>4
<1>6. a = b
  BY <1>3, <1>4, <1>5, SeqEqual
<1> QED BY <1>6 DEF a, b, p

LEMMA PrefixOfAppended ==
  ASSUME NEW S, NEW s \in Seq(S), NEW x \in S, NEW k \in 0..Len(s)
  PROVE  SubSeq(Append(s, x), 1, k) = SubSeq(s, 1, k)
<1> DEFINE t == Append(s, x)
           a == SubSeq(t, 1, k)
           b == SubSeq(s, 1, k)
<1>1. t \in Seq(S) /\ Len(t) = Len(s) + 1 /\ \A i \in 1..Len(s) : t[i] = s[i]
  OBVIOUS
<1>2. k \in 0..Len(t) /\ \A i \in 1..k : i \in 1..Len(s)
  BY <1>1
<1> HIDE DEF t
<1>3. a \in Seq(S) /\ Len(a) = k /\ \A i \in 1..k : a[i] = t[i]
  BY <1>1, <1>2, PrefixIs
<1>4. b \in Seq(S) /\ Len(b) = k /\ \A i \in 1..k : b[i] = s[i]
  BY PrefixIs
<1> HIDE DEF a, b
<1>5. a = b
  BY <1>1, <1>2, <1>3, <1>4, SeqEqual
<1> QED BY <1>5 DEF a, b, t

LEMMA WholePrefix ==
  ASSUME NEW S, NEW s \in Seq(S) PROVE SubSeq(s, 1, Len(s)) = s
<1>1. Len(s) \in 0..Len(s)
  OBVIOUS
<1> DEFINE a == SubSeq(s, 1, Len(s))
<1>2. a \in Seq(S) /\ Len(a) = Len(s) /\ \A i \in 1..Len(s) : a[i] = s[i]
  BY <1>1, PrefixIs
<1> HIDE DEF a
<1>3. a = s
  BY <1>2, SeqEqual
<1> QED BY <1>3 DEF a

\* A prefix and the entry after it.
LEMMA PrefixAndNext ==
  ASSUME NEW S, NEW s \in Seq(S), NEW c \in 1..Len(s)
  PROVE  Append(Before(s, c), s[c]) = SubSeq(s, 1, c)
<1> DEFINE p == Before(s, c)
           a == Append(p, s[c])
           b == SubSeq(s, 1, c)
<1>1. c \in Nat /\ c - 1 \in 0..Len(s) /\ c \in 0..Len(s) /\ s[c] \in S
  OBVIOUS
<1>2. p \in Seq(S) /\ Len(p) = c - 1 /\ \A i \in 1..(c - 1) : p[i] = s[i]
  BY <1>1, PrefixIs DEF Before
<1>3. b \in Seq(S) /\ Len(b) = c /\ \A i \in 1..c : b[i] = s[i]
  BY <1>1, PrefixIs
<1> HIDE DEF p
<1>4. a \in Seq(S) /\ Len(a) = c /\ a[c] = s[c] /\ \A i \in 1..(c - 1) : a[i] = p[i]
  BY <1>1, <1>2
<1> HIDE DEF a, b
<1>5. \A i \in 1..c : a[i] = b[i]
  <2> SUFFICES ASSUME NEW i \in 1..c PROVE a[i] = b[i]
    OBVIOUS
  <2>1. CASE i = c
    BY <1>3, <1>4, <2>1
  <2>2. CASE i # c
    <3>1. i \in 1..(c - 1)
      BY <1>1, <2>2
    <3> QED BY <1>2, <1>3, <1>4, <3>1
  <2> QED BY <2>1, <2>2
<1>6. a = b
  BY <1>3, <1>4, <1>5, SeqEqual
<1> QED BY <1>6 DEF a, b, p

\* An entry that is sound where it is added leaves every entry sound, and so does a branch.
LEMMA AppendSounds ==
  ASSUME NEW t \in Seq(TrailEntries), Sounds(t), NEW e \in TrailEntries, Sound(t, e)
  PROVE  Sounds(Append(t, e)) /\ Append(t, e) \in Seq(TrailEntries)
<1> DEFINE u == Append(t, e)
           n == Len(t)
<1>1. n \in Nat /\ u \in Seq(TrailEntries) /\ Len(u) = n + 1 /\ u[n + 1] = e /\ \A i \in 1..n : u[i] = t[i]
  OBVIOUS
<1>2. \A k \in 0..n : SubSeq(u, 1, k) = SubSeq(t, 1, k)
  BY PrefixOfAppended
<1>3. SubSeq(t, 1, n) = t
  BY WholePrefix
<1> HIDE DEF u, n
<1>4. ASSUME NEW c \in 1..(n + 1) PROVE Sound(Before(u, c), u[c])
  <2>1. CASE c = n + 1
    <3>1. c - 1 = n /\ n \in 0..n
      BY <1>1, <2>1
    <3>2. Before(u, c) = t
      BY <1>2, <1>3, <3>1 DEF Before
    <3> QED BY <1>1, <2>1, <3>2
  <2>2. CASE c # n + 1
    <3>1. c \in 1..n /\ c - 1 \in 0..n
      BY <1>1, <2>2
    <3>2. Before(u, c) = Before(t, c) /\ u[c] = t[c]
      BY <1>1, <1>2, <3>1 DEF Before
    <3> QED BY <3>1, <3>2 DEF Sounds, n
  <2> QED BY <2>1, <2>2
<1>5. Sounds(u)
  BY <1>1, <1>4 DEF Sounds
<1> QED BY <1>1, <1>5 DEF u

LEMMA PrefixSounds ==
  ASSUME NEW t \in Seq(TrailEntries), Sounds(t), NEW k \in 0..Len(t)
  PROVE  Sounds(SubSeq(t, 1, k)) /\ SubSeq(t, 1, k) \in Seq(TrailEntries)
<1> DEFINE u == SubSeq(t, 1, k)
<1>1. u \in Seq(TrailEntries) /\ Len(u) = k /\ \A i \in 1..k : u[i] = t[i]
  BY PrefixIs
<1>2. \A j \in 0..k : SubSeq(u, 1, j) = SubSeq(t, 1, j)
  BY PrefixOfPrefix
<1> HIDE DEF u
<1>3. ASSUME NEW c \in 1..k PROVE Sound(Before(u, c), u[c])
  <2>1. c - 1 \in 0..k /\ c \in 1..Len(t)
    OBVIOUS
  <2>2. Before(u, c) = Before(t, c) /\ u[c] = t[c]
    BY <1>1, <1>2, <2>1 DEF Before
  <2> QED BY <2>1, <2>2 DEF Sounds
<1> QED BY <1>1, <1>3 DEF Sounds, u

(***************************************************************************)
(* Least and greatest.                                                     *)
(***************************************************************************)
LEMMA LeastOf ==
  ASSUME NEW T \in SUBSET Nat, T # {} PROVE \E n \in T : \A k \in T : n <= k
<1>1. IsWellFoundedOn(OpToRel(<, Nat), Nat)
  BY NatLessThanWellFounded
<1>2. PICK n \in T : \A k \in T : <<k, n>> \notin OpToRel(<, Nat)
  BY <1>1, WFMin
<1>3. \A k \in T : ~(k < n)
  BY <1>2 DEF OpToRel
<1> QED BY <1>3

LEMMA MinIs ==
  ASSUME NEW I \in SUBSET Nat, I # {}
  PROVE  Min(I) \in I /\ \A i \in I : Min(I) <= i
<1>1. \E x \in I : \A y \in I : x <= y
  BY LeastOf
<1> QED BY <1>1 DEF Min

LEMMA MaxIs ==
  ASSUME NEW n \in Nat, NEW I \in SUBSET (0..n), I # {}
  PROVE  Max(I) \in I /\ \A i \in I : i <= Max(I)
<1> DEFINE T == {k \in Nat : \A i \in I : i <= k}
<1>1. n \in T
  OBVIOUS
<1>2. PICK k \in T : \A j \in T : k <= j
  BY <1>1, LeastOf
<1>3. k \in I
  <2> SUFFICES ASSUME k \notin I PROVE FALSE
    OBVIOUS
  <2>1. PICK i \in I : i \in 0..n
    OBVIOUS
  <2>2. k - 1 \in Nat /\ \A j \in I : j <= k - 1
    BY <1>2, <2>1
  <2> QED BY <1>2, <2>2
<1>4. \E x \in I : \A y \in I : x >= y
  BY <1>2, <1>3
<1>5. Max(I) \in I /\ \A y \in I : Max(I) >= y
  BY <1>4 DEF Max
<1> QED BY <1>5

\* The last entry of a kind, or 0.
LastSuch(p, I, m) == /\ m \in 0..Len(p) /\ (m # 0 => m \in I) /\ \A i \in I : i <= m
                     /\ (m = 0) = (I = {})

LEMMA LastSuchIs ==
  ASSUME NEW p \in Seq(TrailEntries), NEW I \in SUBSET (1..Len(p))
  PROVE  LastSuch(p, I, Max({0} \cup I))
<1> DEFINE J == {0} \cup I
<1>1. Len(p) \in Nat /\ J \in SUBSET (0..Len(p)) /\ J # {}
  OBVIOUS
<1>2. Max(J) \in J /\ \A i \in J : i <= Max(J)
  <2> HIDE DEF J
  <2> QED BY <1>1, MaxIs
<1> DEFINE m == Max(J)
<1>3. m \in J /\ \A i \in J : i <= m
  BY <1>2
<1> HIDE DEF m
<1>4. LastSuch(p, I, m)
  BY <1>1, <1>3 DEF LastSuch
<1> QED BY <1>4 DEF m

Compactions(p) == {i \in 1..Len(p) : p[i].kind = "compaction"}

LEMMA LatestIs ==
  ASSUME NEW p \in Seq(TrailEntries) PROVE LastSuch(p, Compactions(p), LatestCompaction(p))
<1>1. DOMAIN p = 1..Len(p)
  OBVIOUS
<1>2. LatestCompaction(p) = Max({0} \cup Compactions(p))
  BY <1>1 DEF LatestCompaction, Compactions
<1>3. Compactions(p) \in SUBSET (1..Len(p))
  BY DEF Compactions
<1> QED BY <1>2, <1>3, LastSuchIs

LEMMA AppendedIs ==
  ASSUME NEW p \in Seq(TrailEntries), NEW e \in TrailEntries
  PROVE  LET q == Append(p, e) IN
         /\ q \in Seq(TrailEntries) /\ Len(q) = Len(p) + 1 /\ Len(p) \in Nat
         /\ q[Len(p) + 1] = e /\ \A i \in 1..Len(p) : q[i] = p[i]
  OBVIOUS

LEMMA LatestGrows ==
  ASSUME NEW p \in Seq(TrailEntries), NEW e \in TrailEntries
  PROVE  LatestCompaction(Append(p, e)) = IF e.kind = "compaction" THEN Len(p) + 1 ELSE LatestCompaction(p)
<1> DEFINE q == Append(p, e)
<1>1. q \in Seq(TrailEntries) /\ Len(q) = Len(p) + 1 /\ Len(p) \in Nat /\ q[Len(p) + 1] = e /\ \A i \in 1..Len(p) : q[i] = p[i]
  BY AppendedIs
<1> HIDE DEF q
<1>2. LastSuch(q, Compactions(q), LatestCompaction(q)) /\ LastSuch(p, Compactions(p), LatestCompaction(p))
  BY <1>1, LatestIs
<1>3. Compactions(q) = Compactions(p) \cup (IF e.kind = "compaction" THEN {Len(p) + 1} ELSE {})
  BY <1>1 DEF Compactions
<1> DEFINE k == LatestCompaction(q)
           l == LatestCompaction(p)
           n == Len(p)
           I == Compactions(p)
<1>4. n \in Nat /\ l \in 0..n /\ k \in 0..(n + 1) /\ (l # 0 => l \in I) /\ (\A i \in I : i <= l) /\ I \subseteq 1..n
  BY <1>1, <1>2 DEF LastSuch, Compactions
<1>5. /\ k # 0 => k \in I \cup (IF e.kind = "compaction" THEN {n + 1} ELSE {})
      /\ \A i \in I \cup (IF e.kind = "compaction" THEN {n + 1} ELSE {}) : i <= k
  BY <1>1, <1>2, <1>3 DEF LastSuch
<1> HIDE DEF k, l, n, I
<1>6. k = IF e.kind = "compaction" THEN n + 1 ELSE l
  BY <1>4, <1>5
<1> QED BY <1>6 DEF k, l, n, q

(***************************************************************************)
(* Sizes are numbers: a recursive function of the number of entries, by    *)
(* induction over it (of the numbers for which a claim fails there is a    *)
(* least one).                                                             *)
(***************************************************************************)
Weight(p, n) == LET e == p[Len(p) - n + 1] IN IF IsMessage(e) THEN e.size ELSE 0
Adds(p, k, f) == f = [n \in 0..k |-> IF n = 0 THEN 0 ELSE f[n - 1] + Weight(p, n)]

LEMMA AddsIs ==
  ASSUME NEW p, NEW k \in Nat, NEW f, Adds(p, k, f)
  PROVE  f[0] = 0 /\ \A n \in 1..k : f[n] = f[n - 1] + Weight(p, n)
<1> DEFINE F(n) == IF n = 0 THEN 0 ELSE f[n - 1] + Weight(p, n)
<1>1. f = [n \in 0..k |-> F(n)]
  BY DEF Adds
<1>2. \A n \in 0..k : f[n] = F(n)
  <2> HIDE DEF F
  <2> QED BY <1>1
<1>3. 0 \in 0..k /\ \A n \in 1..k : n \in 0..k /\ n # 0
  OBVIOUS
<1> QED BY <1>2, <1>3

LEMMA AddsExists ==
  ASSUME NEW p, NEW k \in Nat PROVE \E f : Adds(p, k, f)
<1> DEFINE T == {m \in Nat : ~\E f : Adds(p, m, f)}
<1> SUFFICES ASSUME k \in T PROVE FALSE
  OBVIOUS
<1>1. PICK m \in T : \A j \in T : m <= j
  BY LeastOf
<1>2. CASE m = 0
  <2> DEFINE f == [n \in 0..0 |-> 0]
  <2>1. Adds(p, 0, f)
    BY DEF Adds
  <2> QED BY <1>1, <1>2, <2>1
<1>3. CASE m # 0
  <2>1. m \in Nat /\ m - 1 \in Nat /\ m - 1 \notin T
    BY <1>1, <1>3
  <2>2. PICK g : Adds(p, m - 1, g)
    BY <2>1
  <2> DEFINE last == g[m - 1] + Weight(p, m)
             f == [n \in 0..m |-> IF n = m THEN last ELSE g[n]]
  <2>3. g[0] = 0 /\ \A n \in 1..(m - 1) : g[n] = g[n - 1] + Weight(p, n)
    BY <2>1, <2>2, AddsIs
  <2>4. \A n \in 0..m : f[n] = IF n = 0 THEN 0 ELSE f[n - 1] + Weight(p, n)
    <3> SUFFICES ASSUME NEW n \in 0..m PROVE f[n] = IF n = 0 THEN 0 ELSE f[n - 1] + Weight(p, n)
      OBVIOUS
    <3>1. CASE n = 0
      BY <1>3, <2>1, <2>3, <3>1
    <3>2. CASE n = m
      <4>1. f[n] = last /\ m - 1 \in 0..m /\ m - 1 # m
        BY <2>1, <3>2
      <4>2. f[n - 1] = g[n - 1]
        BY <3>2, <4>1
      <4> QED BY <1>3, <3>2, <4>1, <4>2
    <3>3. CASE n \in 1..(m - 1)
      <4>1. n # m /\ n # 0 /\ n - 1 \in 0..m /\ n - 1 # m
        BY <2>1, <3>3
      <4> QED BY <2>3, <3>3, <4>1
    <3> QED BY <2>1, <3>1, <3>2, <3>3
  <2>5. Adds(p, m, f)
    <3> HIDE DEF last
    <3>1. f = [n \in 0..m |-> f[n]]
      OBVIOUS
    <3> HIDE DEF f
    <3> QED BY <2>4, <3>1 DEF Adds
  <2> QED BY <1>1, <2>5
<1> QED BY <1>2, <1>3

LEMMA SizeIsNumber ==
  ASSUME NEW p \in Seq(TrailEntries), NEW i \in 1..Len(p) PROVE SizeFrom(p, i) \in Nat
<1> DEFINE n == Len(p)
           f == CHOOSE f : Adds(p, n, f)
<1>1. SizeFrom(p, i) = f[n - i + 1]
  BY DEF SizeFrom, Adds, Weight
<1>2. n \in Nat /\ Adds(p, n, f)
  BY AddsExists
<1> HIDE DEF f
<1>3. \A k \in 1..n : Weight(p, k) \in Nat
  <2> SUFFICES ASSUME NEW k \in 1..n PROVE Weight(p, k) \in Nat
    OBVIOUS
  <2>1. n - k + 1 \in 1..n
    OBVIOUS
  <2>2. p[n - k + 1] \in TrailEntries
    BY <2>1
  <2> QED BY <2>2 DEF Weight, TrailEntries
<1>4. f[0] = 0 /\ \A k \in 1..n : f[k] = f[k - 1] + Weight(p, k)
  BY <1>2, AddsIs
<1> HIDE DEF n
<1> DEFINE T == {k \in 0..n : f[k] \notin Nat}
<1>5. T = {}
  <2> SUFFICES ASSUME T # {} PROVE FALSE
    OBVIOUS
  <2>0. T \in SUBSET Nat
    BY <1>2
  <2>1. PICK k \in T : \A j \in T : k <= j
    <3> HIDE DEF T
    <3> QED BY <2>0, LeastOf
  <2>2. k \in 1..n /\ k - 1 \in 0..n /\ k - 1 \notin T
    BY <1>2, <1>4, <2>1
  <2>3. f[k - 1] \in Nat /\ Weight(p, k) \in Nat /\ f[k] = f[k - 1] + Weight(p, k)
    BY <1>3, <1>4, <2>2
  <2> QED BY <2>1, <2>3
<1>6. n - i + 1 \in 0..n
  BY <1>2 DEF n
<1> QED BY <1>1, <1>5, <1>6

(***************************************************************************)
(* What a sound path tells of its results and compactions.                 *)
(***************************************************************************)
AnswersCall(t, k, a) ==
  /\ a \in 1..(k - 1) /\ t[a].kind = "assistant" /\ ~t[a].failed
  /\ t[k].nth \in 1..t[a].calls /\ t[k].nth = Cardinality({j \in 1..k : t[j].kind = "toolResult" /\ t[j].of = a})
  /\ \A j \in (a + 1)..(k - 1) : IsShown(t[j]) => t[j].kind = "toolResult" /\ t[j].of = a

LEMMA ResultAt ==
  ASSUME NEW t \in Seq(TrailEntries), Sounds(t), NEW k \in 1..Len(t), t[k].kind = "toolResult"
  PROVE  AnswersCall(t, k, t[k].of)
<1> DEFINE p == Before(t, k)
           q == SubSeq(t, 1, k)
           a == t[k].of
<1>1. Append(p, t[k]) = q
  BY PrefixAndNext
<1>2. Sound(p, t[k])
  BY DEF Sounds
<1>3. FollowsCall(q, t[k])
  BY <1>1, <1>2 DEF Sound
<1>4. k \in 0..Len(t) /\ k \in Nat
  OBVIOUS
<1>5. Len(q) = k /\ \A i \in 1..k : q[i] = t[i]
  BY <1>4, PrefixIs
<1> HIDE DEF q
<1>6. a \in 1..(k - 1) /\ q[a].kind = "assistant" /\ ~q[a].failed /\ t[k].nth \in 1..q[a].calls
  BY <1>3, <1>5 DEF FollowsCall
<1>7. a \in 1..k /\ \A j \in (a + 1)..(k - 1) : j \in 1..k
  BY <1>4, <1>6
<1>8. ResultsTo(q, a) = {j \in 1..k : t[j].kind = "toolResult" /\ t[j].of = a}
  BY <1>5 DEF ResultsTo
<1>9. \A j \in (a + 1)..(k - 1) : IsShown(t[j]) => t[j].kind = "toolResult" /\ t[j].of = a
  BY <1>3, <1>5, <1>7 DEF FollowsCall
<1> QED BY <1>3, <1>5, <1>6, <1>7, <1>8, <1>9 DEF AnswersCall, FollowsCall

LEMMA CompactionAt ==
  ASSUME NEW t \in Seq(TrailEntries), Sounds(t), NEW c \in 1..Len(t), t[c].kind = "compaction"
  PROVE  /\ t[c].kept \in 1..(c - 1) /\ t[c].at \in 0..(c - 1)
         /\ \E cut \in t[c].kept..(c - 1) : Cuttable(t[cut]) /\ \A j \in t[c].kept..(cut - 1) : ~IsMessage(t[j])
         /\ \A i \in t[c].covers : i < t[c].kept
         /\ Meets(Before(t, c), t[c])
<1> DEFINE p == Before(t, c)
           e == t[c]
<1>1. Compacts(p, e)
  BY DEF Sounds, Sound
<1>2. c - 1 \in 0..Len(t) /\ c \in Nat
  OBVIOUS
<1>3. Len(p) = c - 1 /\ \A i \in 1..(c - 1) : p[i] = t[i]
  BY <1>2, PrefixIs DEF Before
<1> HIDE DEF p, e
<1>4. e.kept \in 1..(c - 1) /\ e.at \in 0..(c - 1) /\ (\A i \in e.covers : i < e.kept) /\ Meets(p, e)
  BY <1>1, <1>3 DEF Compacts
<1>5. PICK cut \in e.kept..(c - 1) : Cuttable(p[cut]) /\ \A j \in e.kept..(cut - 1) : ~IsMessage(p[j])
  BY <1>1, <1>3 DEF Compacts, LeadsToCut
<1>6. cut \in 1..(c - 1) /\ \A j \in e.kept..(cut - 1) : j \in 1..(c - 1)
  BY <1>2, <1>4, <1>5
<1>7. Cuttable(t[cut]) /\ \A j \in e.kept..(cut - 1) : ~IsMessage(t[j])
  BY <1>3, <1>5, <1>6
<1> QED BY <1>4, <1>5, <1>7 DEF p, e

LEMMA KindsAre ==
  ASSUME NEW e
  PROVE  /\ Cuttable(e) => IsShown(e) /\ e.kind # "toolResult" /\ e.kind # "compaction"
         /\ IsShown(e) /\ ~Cuttable(e) => e.kind = "toolResult"
         /\ e.kind = "toolResult" \/ e.kind = "assistant" => IsShown(e) /\ IsMessage(e)
         /\ e.kind = "compaction" => ~IsShown(e)
  BY DEF Cuttable, StartsTurn, IsShown, IsMessage

\* Where a compaction starts, and the context: every result there is after a cut point.
LEMMA BoundaryIs ==
  ASSUME NEW t \in Seq(TrailEntries), Sounds(t), t # <<>>
  PROVE  /\ Boundary(t) \in 1..Len(t)
         /\ InContext(t) = {i \in Boundary(t)..Len(t) : IsShown(t[i])}
         /\ \A i \in PreviousSummary(t) : i < Boundary(t)
         /\ \A k \in Boundary(t)..Len(t) : t[k].kind = "toolResult" => \E c \in Boundary(t)..(k - 1) : Cuttable(t[c])
<1> DEFINE l == LatestCompaction(t)
           s == Boundary(t)
           n == Len(t)
<1>1. n \in Nat /\ n >= 1 /\ DOMAIN t = 1..n
  OBVIOUS
<1>2. LastSuch(t, Compactions(t), l)
  BY LatestIs
<1>3. l \in 0..n /\ (l # 0 => t[l].kind = "compaction")
  BY <1>2 DEF LastSuch, Compactions
<1>4. /\ s \in 1..n /\ s = (IF l = 0 THEN 1 ELSE t[l].kept)
      /\ \A i \in PreviousSummary(t) : i < s
  <2>1. CASE l = 0
    BY <1>1, <2>1 DEF Boundary, PreviousSummary
  <2>2. CASE l # 0
    <3>1. l \in 1..n /\ t[l].kind = "compaction"
      BY <1>3, <2>2
    <3>2. t[l].kept \in 1..(l - 1) /\ \A i \in t[l].covers : i < t[l].kept
      BY <3>1, CompactionAt
    <3>3. s = t[l].kept /\ PreviousSummary(t) = t[l].covers
      BY <2>2 DEF Boundary, PreviousSummary
    <3> HIDE DEF s, l
    <3> QED BY <1>1, <2>2, <3>1, <3>2, <3>3
  <2> QED BY <2>1, <2>2
<1>5. InContext(t) = {i \in s..n : IsShown(t[i])}
  <2>1. InContext(t) = {i \in 1..n : i >= s /\ IsShown(t[i])}
    BY <1>1, <1>4 DEF InContext
  <2> HIDE DEF s, n
  <2> QED BY <1>1, <1>4, <2>1
<1>6. ASSUME NEW k \in s..n, t[k].kind = "toolResult" PROVE \E c \in s..(k - 1) : Cuttable(t[c])
  <2>1. CASE l = 0
    <3>1. k \in 1..n /\ s = 1
      BY <1>4, <2>1
    <3>2. AnswersCall(t, k, t[k].of)
      BY <1>6, <3>1, ResultAt
    <3>3. t[k].of \in s..(k - 1) /\ Cuttable(t[t[k].of])
      BY <3>1, <3>2 DEF AnswersCall, Cuttable
    <3> QED BY <3>3
  <2>2. CASE l # 0
    <3>1. l \in 1..n /\ t[l].kind = "compaction" /\ s = t[l].kept
      BY <1>3, <1>4, <2>2
    <3>2. PICK cut \in s..(l - 1) : Cuttable(t[cut]) /\ \A j \in s..(cut - 1) : ~IsMessage(t[j])
      BY <3>1, CompactionAt
    <3>3. k \notin s..(cut - 1) /\ k # cut
      BY <1>6, <3>2, KindsAre
    <3>4. cut \in s..(k - 1)
      <4> HIDE DEF s, n, l
      <4> QED BY <1>1, <1>3, <1>4, <3>2, <3>3
    <3> QED BY <3>2, <3>4
  <2> QED BY <2>1, <2>2
<1> QED BY <1>4, <1>5, <1>6

(***************************************************************************)
(* Where a path is cut.                                                    *)
(***************************************************************************)
Points(t, s) == {i \in s..Len(t) : Cuttable(t[i])}
Filled(t, s, budget) == {i \in s..Len(t) : IsMessage(t[i]) /\ SizeFrom(t, i) >= budget}

\* The cut is at or after the message that fills the budget, or at the first cut point.
LEMMA BudgetCutIs ==
  ASSUME NEW t \in Seq(TrailEntries), NEW s \in 1..Len(t), NEW budget \in Nat
  PROVE  LET b == BudgetCut(t, s, budget) IN
         /\ b \in s..Len(t)
         /\ Points(t, s) # {} => b \in Points(t, s)
         /\ (\A i \in Filled(t, s, budget) : i <= b) \/ (\A c \in Points(t, s) : b <= c)
<1> DEFINE n == Len(t)
           P == Points(t, s)
           O == Filled(t, s, budget)
           A == {c \in P : O # {} /\ c >= Max(O)}
           b == BudgetCut(t, s, budget)
<1>1. b = CASE P = {} -> s [] A # {} -> Min(A) [] OTHER -> Min(P)
  BY DEF BudgetCut, Points, Filled
<1>2. n \in Nat /\ s \in 1..n /\ P \subseteq s..n /\ O \subseteq s..n /\ A \subseteq P
  BY DEF Points, Filled
<1>3. P \in SUBSET Nat /\ A \in SUBSET Nat /\ O \in SUBSET (0..n)
  BY <1>2
<1>4. P # {} => Min(P) \in P /\ \A c \in P : Min(P) <= c
  <2> HIDE DEF P
  <2> QED BY <1>3, MinIs
<1>5. A # {} => Min(A) \in A
  <2> HIDE DEF A
  <2> QED BY <1>3, MinIs
<1>6. O # {} => Max(O) \in O /\ \A i \in O : i <= Max(O)
  <2> HIDE DEF O
  <2> QED BY <1>2, <1>3, MaxIs
<1>7. A # {} => /\ Min(A) \in P /\ P # {}
                /\ \A i \in O : i <= Min(A)
  <2> SUFFICES ASSUME A # {} PROVE Min(A) \in P /\ P # {} /\ \A i \in O : i <= Min(A)
    OBVIOUS
  <2> DEFINE m == Min(A)
             x == Max(O)
  <2>1. m \in P /\ O # {} /\ m >= x
    BY <1>5
  <2>2. x \in O /\ (\A i \in O : i <= x) /\ m \in Nat /\ O \subseteq Nat
    BY <1>2, <1>3, <1>6, <2>1
  <2> HIDE DEF m, x, P, O
  <2>3. \A i \in O : i <= m
    BY <2>1, <2>2
  <2> QED BY <2>1, <2>3 DEF m
<1> HIDE DEF b, P, O, A, n
<1>8. CASE P = {}
  <2>1. A = {}
    BY <1>2, <1>8
  <2>2. b = s
    BY <1>1, <1>8, <2>1
  <2> QED BY <1>2, <1>8, <2>2 DEF b, P, O, n
<1>9. CASE P # {} /\ A # {}
  <2>1. b = Min(A)
    BY <1>1, <1>9
  <2>2. b \in P /\ \A i \in O : i <= b
    BY <1>7, <1>9, <2>1
  <2> QED BY <1>2, <2>2 DEF b, P, O, n
<1>10. CASE P # {} /\ A = {}
  <2>1. b = Min(P)
    BY <1>1, <1>10
  <2>2. b \in P /\ \A c \in P : b <= c
    BY <1>4, <1>10, <2>1
  <2> QED BY <1>2, <2>2 DEF b, P, O, n
<1> QED BY <1>8, <1>9, <1>10

LEMMA CutPointIs ==
  ASSUME NEW t \in Seq(TrailEntries), NEW s \in 1..Len(t), NEW budget \in Nat
  PROVE  /\ CutPoint(t, s, budget) \in s..BudgetCut(t, s, budget)
         /\ \A j \in CutPoint(t, s, budget)..(BudgetCut(t, s, budget) - 1) : ~IsMessage(t[j])
<1> DEFINE b == BudgetCut(t, s, budget)
           I == {i \in s..b : \A j \in i..(b - 1) : ~IsMessage(t[j]) /\ t[j].kind # "compaction"}
<1>1. CutPoint(t, s, budget) = Min(I)
  BY DEF CutPoint
<1>2. b \in s..Len(t) /\ s \in Nat
  <2>1. s \in 1..Len(t) /\ budget \in Nat
    OBVIOUS
  <2>2. b \in s..Len(t)
    BY ONLY <2>1, t \in Seq(TrailEntries), BudgetCutIs
  <2> QED BY <2>1, <2>2
<1> HIDE DEF b
<1>3. b \in I /\ I \in SUBSET Nat
  BY <1>2
<1>4. Min(I) \in I
  <2> HIDE DEF I
  <2> QED BY <1>3, MinIs
<1> QED BY <1>1, <1>4 DEF b

\* What is summarised is what the context shows before the cut.
LEMMA PreparationIs ==
  ASSUME NEW t \in Seq(TrailEntries), t # <<>>, NEW s \in 1..Len(t), s = Boundary(t), NEW budget \in Nat
  PROVE  LET plan == Preparation(t, budget) IN
         /\ plan.cut = CutPoint(t, s, budget)
         /\ plan.history \cup plan.prefix = {i \in s..(plan.cut - 1) : IsShown(t[i])}
<1> DEFINE plan == Preparation(t, budget)
           cut == CutPoint(t, s, budget)
           turn == TurnStart(t, cut, s)
           split == t[cut].kind # "user" /\ turn # 0
           shown == {i \in DOMAIN t : IsShown(t[i])}
<1>1. /\ plan.cut = cut
      /\ plan.history = shown \cap (s..((IF split THEN turn ELSE cut) - 1))
      /\ plan.prefix = IF split THEN shown \cap (turn..(cut - 1)) ELSE {}
  BY DEF Preparation
<1>2. cut \in s..BudgetCut(t, s, budget) /\ BudgetCut(t, s, budget) \in s..Len(t)
  BY CutPointIs, BudgetCutIs
<1>3. cut \in s..Len(t) /\ s \in Nat /\ Len(t) \in Nat
  <2> HIDE DEF cut
  <2> QED BY <1>2
<1>4. turn = 0 \/ turn \in s..cut
  <2> DEFINE I == {i \in s..cut : StartsTurn(t[i])}
  <2>1. turn = Max({0} \cup I)
    BY DEF TurnStart
  <2>2. {0} \cup I \in SUBSET (0..Len(t)) /\ {0} \cup I # {}
    <3> HIDE DEF cut
    <3> QED BY <1>3
  <2>3. Max({0} \cup I) \in {0} \cup I
    <3> DEFINE J == {0} \cup I
    <3>1. J \in SUBSET (0..Len(t)) /\ J # {}
      BY <2>2
    <3> HIDE DEF J
    <3>2. Max(J) \in J
      BY <1>3, <3>1, MaxIs
    <3> QED BY <3>2 DEF J
  <2> HIDE DEF turn
  <2> QED BY <2>1, <2>3
<1>5. shown = {i \in 1..Len(t) : IsShown(t[i])}
  OBVIOUS
<1> HIDE DEF plan, cut, turn, shown
<1>6. CASE split
  <2>1. turn \in s..cut
    BY <1>4, <1>6
  <2>2. plan.history \cup plan.prefix = shown \cap (s..(cut - 1))
    BY <1>1, <1>3, <1>6, <2>1
  <2> QED BY <1>1, <1>3, <1>5, <2>2 DEF plan, cut
<1>7. CASE ~split
  <2>1. plan.history \cup plan.prefix = shown \cap (s..(cut - 1))
    BY <1>1, <1>7
  <2> QED BY <1>1, <1>3, <1>5, <2>1 DEF plan, cut
<1> QED BY <1>6, <1>7

CompactionEntry(t, plan, budget) ==
  [Entry("compaction", 0) EXCEPT !.kept = plan.cut, !.covers = Summarised(t, plan), !.budget = budget,
                               !.at = Len(t)]

\* After a compaction the context is what is shown from the first kept entry on.
LEMMA KeptContext ==
  ASSUME NEW t \in Seq(TrailEntries), NEW e \in TrailEntries, e.kind = "compaction", e.kept \in 1..Len(t)
  PROVE  InContext(Append(t, e)) = {i \in e.kept..Len(t) : IsShown(t[i])}
<1> DEFINE q == Append(t, e)
           n == Len(t)
           k == e.kept
           kept == InContext(q)
<1>1. /\ q \in Seq(TrailEntries) /\ Len(q) = n + 1 /\ DOMAIN q = 1..(n + 1) /\ q[n + 1] = e
      /\ (\A i \in 1..n : q[i] = t[i]) /\ n \in Nat /\ k \in 1..n
  BY AppendedIs
<1>2. LatestCompaction(q) = n + 1
  BY LatestGrows
<1> HIDE DEF q, n
<1>3. kept = {i \in 1..(n + 1) : i >= k /\ IsShown(q[i])}
  <2>1. n + 1 # 0
    BY <1>1
  <2> QED BY <1>1, <1>2, <2>1 DEF InContext
<1>4. ~IsShown(q[n + 1])
  BY <1>1, KindsAre
<1> HIDE DEF k
<1>5. ASSUME NEW i PROVE (i \in 1..(n + 1) /\ i >= k /\ IsShown(q[i])) <=> (i \in k..n /\ IsShown(t[i]))
  <2>1. ASSUME i \in 1..(n + 1), i >= k, IsShown(q[i]) PROVE i \in k..n /\ IsShown(t[i])
    <3>1. i # n + 1 /\ i \in Nat /\ n \in Nat /\ k \in Nat
      <4>1. i \in Nat /\ n \in Nat /\ k \in Nat
        BY <1>1, <2>1
      <4>2. i # n + 1
        BY ONLY <1>4, <2>1
      <4> QED BY <4>1, <4>2
    <3>2. i \in 1..n /\ i \in k..n
      BY <2>1, <3>1
    <3> QED BY <1>1, <2>1, <3>2
  <2>2. ASSUME i \in k..n, IsShown(t[i]) PROVE i \in 1..(n + 1) /\ i >= k /\ IsShown(q[i])
    <3>1. i \in 1..n /\ i \in 1..(n + 1) /\ i >= k
      BY <1>1, <2>2
    <3> QED BY <1>1, <2>2, <3>1
  <2> QED BY <2>1, <2>2
<1> QED BY <1>3, <1>5 DEF q, n, k

\* A compaction that has something to summarise is sound.
LEMMA CompactionIsSound ==
  ASSUME NEW t \in Seq(TrailEntries), Sounds(t), t # <<>>, NEW budget \in Nat,
         NEW plan, plan = Preparation(t, budget), plan.history \cup plan.prefix # {},
         NEW e, e = CompactionEntry(t, plan, budget)
  PROVE  e \in TrailEntries /\ e.kind = "compaction" /\ Compacts(t, e)
<1> DEFINE n == Len(t)
           s == Boundary(t)
           b == BudgetCut(t, s, budget)
           k == plan.cut
           shown == {i \in s..(k - 1) : IsShown(t[i])}
<1>1. /\ s \in 1..n /\ n \in Nat /\ (\A i \in PreviousSummary(t) : i < s)
      /\ InContext(t) = {i \in s..n : IsShown(t[i])}
      /\ \A i \in s..n : t[i].kind = "toolResult" => \E c \in s..(i - 1) : Cuttable(t[c])
  BY BoundaryIs
<1>2. k = CutPoint(t, s, budget) /\ plan.history \cup plan.prefix = shown
  BY <1>1, PreparationIs
<1>3. /\ b \in s..n
      /\ Points(t, s) # {} => b \in Points(t, s)
      /\ (\A i \in Filled(t, s, budget) : i <= b) \/ (\A c \in Points(t, s) : b <= c)
  <2>1. s \in 1..Len(t) /\ budget \in Nat /\ t \in Seq(TrailEntries)
    BY <1>1
  <2> QED BY ONLY <2>1, BudgetCutIs
<1>4. k \in s..b /\ \A j \in k..(b - 1) : ~IsMessage(t[j])
  BY <1>1, <1>2, CutPointIs
<1>5. /\ e.kind = "compaction" /\ e.kept = k /\ e.covers = Summarised(t, plan) /\ e.budget = budget /\ e.at = n
      /\ e.size = 0 /\ e.calls = 0 /\ e.failed = FALSE /\ e.of = 0 /\ e.nth = 0
      /\ e = [kind |-> e.kind, size |-> e.size, calls |-> e.calls, failed |-> e.failed, of |-> e.of, nth |-> e.nth,
              kept |-> e.kept, covers |-> e.covers, budget |-> e.budget, at |-> e.at]
  BY DEF CompactionEntry, Entry
<1>6. e.covers \subseteq shown \cup PreviousSummary(t) /\ shown \subseteq e.covers
  <2> HIDE DEF shown
  <2> QED BY <1>2, <1>5 DEF Summarised
<1>7. PreviousSummary(t) \subseteq Nat
  <2>1. LastSuch(t, Compactions(t), LatestCompaction(t))
    BY LatestIs
  <2>2. CASE LatestCompaction(t) = 0
    BY <2>2 DEF PreviousSummary
  <2>3. CASE LatestCompaction(t) # 0
    <3>1. LatestCompaction(t) \in 1..Len(t)
      BY <2>1, <2>3 DEF LastSuch
    <3>2. t[LatestCompaction(t)] \in TrailEntries
      BY <3>1
    <3> QED BY <2>3, <3>2 DEF PreviousSummary, TrailEntries
  <2> QED BY <2>2, <2>3
<1> HIDE DEF b, s, k, n
<1>8. e \in TrailEntries
  <2>1. k \in Nat /\ e.covers \in SUBSET Nat
    BY <1>1, <1>3, <1>4, <1>6, <1>7
  <2> DEFINE size == e.size
             calls == e.calls
             failed == e.failed
             of == e.of
             nth == e.nth
             covers == e.covers
             kept == e.kept
             kind == e.kind
             most == e.budget
             when == e.at
  <2>2. /\ kind \in {"user", "bash", "assistant", "toolResult", "custom", "setting", "compaction"}
        /\ size \in Nat /\ calls \in Nat /\ failed \in BOOLEAN /\ of \in Nat /\ nth \in Nat
        /\ kept \in Nat /\ covers \in SUBSET Nat /\ most \in Nat /\ when \in Nat
    <3>1. /\ kind = "compaction" /\ size = 0 /\ calls = 0 /\ failed = FALSE /\ of = 0 /\ nth = 0 /\ kept = k
          /\ most = budget /\ when = n
      BY <1>5
    <3>2. covers \in SUBSET Nat
      BY <2>1
    <3> HIDE DEF size, calls, failed, of, nth, covers, kept, kind, most, when
    <3> QED BY <1>1, <2>1, <3>1, <3>2
  <2>3. e = [kind |-> kind, size |-> size, calls |-> calls, failed |-> failed, of |-> of, nth |-> nth,
             kept |-> kept, covers |-> covers, budget |-> most, at |-> when]
    BY <1>5
  <2> HIDE DEF size, calls, failed, of, nth, covers, kept, kind, most, when
  <2> QED BY ONLY <2>2, <2>3 DEF TrailEntries
<1>9. PICK x \in s..(k - 1) : IsShown(t[x])
  BY <1>2
<1>10. x \in s..n /\ x < b /\ x \in Nat /\ b \in Nat
  BY <1>1, <1>3, <1>4, <1>9
<1>11. \E c \in Points(t, s) : c < b
  <2>1. CASE Cuttable(t[x])
    <3>1. x \in Points(t, s)
      BY <1>10, <2>1 DEF Points, n
    <3> QED BY <1>10, <3>1
  <2>2. CASE ~Cuttable(t[x])
    <3>1. t[x].kind = "toolResult"
      BY <1>9, <2>2, KindsAre
    <3>2. PICK c \in s..(x - 1) : Cuttable(t[c])
      BY <1>1, <1>10, <3>1
    <3>3. c \in s..n /\ c < b
      BY <1>1, <1>10, <3>2
    <3> QED BY <3>2, <3>3 DEF Points, n
  <2> QED BY <2>1, <2>2
<1>12. Cuttable(t[b])
  BY <1>3, <1>11 DEF Points
<1>13. \A i \in Filled(t, s, budget) : i <= b
  <2>1. Points(t, s) \subseteq Nat
    BY <1>1 DEF Points, n
  <2> QED BY <1>3, <1>10, <1>11, <2>1
<1>14. \A i \in e.covers : i < k
  <2>1. ASSUME NEW i \in shown PROVE i < k
    BY <1>1, <1>3, <1>4
  <2>2. ASSUME NEW i \in PreviousSummary(t) PROVE i < k
    BY <1>1, <1>3, <1>4, <1>7
  <2> HIDE DEF shown
  <2> QED BY <1>6, <2>1, <2>2
<1>15. k \in 1..n /\ LeadsToCut(t, k)
  <2>1. k \in 1..n /\ b \in k..n
    BY <1>1, <1>3, <1>4
  <2> QED BY <1>4, <1>12, <2>1 DEF LeadsToCut, n
<1>16. Meets(t, e)
  <2> DEFINE q == Append(t, e)
             before == InContext(t)
             kept == InContext(q)
  <2>1. kept = {i \in k..n : IsShown(t[i])}
    <3>1. e.kept \in 1..Len(t)
      BY <1>5, <1>15 DEF n
    <3> QED BY <1>5, <1>8, <3>1, KeptContext DEF n
  <2>2. kept \subseteq before
    BY <1>1, <1>3, <1>4, <2>1
  <2>3. before \ kept \subseteq e.covers
    <3>1. before \ kept \subseteq shown
      BY <1>1, <1>3, <1>4, <2>1
    <3> HIDE DEF shown
    <3> QED BY <1>6, <3>1
  <2>4. kept \cap e.covers = {}
    <3> HIDE DEF kept
    <3> QED BY <1>1, <1>14, <1>15, <2>1
  <2>5. ASSUME NEW i \in {h \in e.kept..n : IsMessage(t[h])}, NEW j \in {h \in e.kept..n : IsMessage(t[h])}, i < j
        PROVE  SizeFrom(t, j) < e.budget
    <3>1. i \in k..n /\ j \in k..n /\ IsMessage(t[i]) /\ IsMessage(t[j])
      BY <1>5, <2>5
    <3>2. i >= b
      BY <1>3, <1>4, <1>10, <1>15, <3>1
    <3>3. j > b /\ j \in s..n /\ j \in 1..n
      BY <1>1, <1>3, <1>4, <1>10, <1>15, <2>5, <3>1, <3>2
    <3>4. j \notin Filled(t, s, budget)
      BY <1>10, <1>13, <3>3
    <3>5. SizeFrom(t, j) \in Nat
      BY <3>3, SizeIsNumber DEF n
    <3> QED BY <1>5, <3>1, <3>3, <3>4, <3>5 DEF Filled, n
  <2> HIDE DEF kept, before
  <2>6. \A i, j \in {h \in e.kept..n : IsMessage(t[h])} : i < j => SizeFrom(t, j) < e.budget
    BY <2>5
  <2>7. SubSeq(t, 1, e.at) = t /\ e.at = n
    BY <1>5, WholePrefix DEF n
  <2>8. \A i, j \in {h \in e.kept..e.at : IsMessage(t[h])} : i < j => SizeFrom(SubSeq(t, 1, e.at), j) < e.budget
    BY <2>6, <2>7
  <2> QED BY <2>2, <2>3, <2>4, <2>8 DEF Meets, kept, before
<1>17. e.at \in 0..Len(t)
  BY <1>1, <1>5 DEF n
<1> QED BY <1>5, <1>8, <1>14, <1>15, <1>16, <1>17 DEF Compacts, n

\* What is recorded while the summary is generated is kept: the compaction stays sound.
LEMMA CompactsStays ==
  ASSUME NEW p \in Seq(TrailEntries), Sounds(p), NEW x \in TrailEntries, Sound(p, x), x.kind # "compaction",
         NEW e \in TrailEntries, e.kind = "compaction", Compacts(p, e)
  PROVE  Compacts(Append(p, x), e)
<1> DEFINE q == Append(p, x)
           n == Len(p)
           k == e.kept
           s == Boundary(p)
<1>1. /\ q \in Seq(TrailEntries) /\ Len(q) = n + 1 /\ n \in Nat /\ \A i \in 1..n : q[i] = p[i]
      /\ SubSeq(q, 1, e.at) = SubSeq(p, 1, e.at)
  <2>1. e.at \in 0..Len(p)
    BY DEF Compacts
  <2> QED BY <2>1, AppendedIs, PrefixOfAppended
<1>2. k \in 1..n /\ LeadsToCut(p, k) /\ (\A i \in e.covers : i < k) /\ e.at \in 0..n /\ Meets(p, e)
  BY DEF Compacts
<1>3. Sounds(q)
  BY AppendSounds
<1>4. p # <<>> /\ q # <<>>
  BY <1>1, <1>2
<1> HIDE DEF q
<1>5. Boundary(q) = s /\ s \in 1..n /\ InContext(p) = {i \in s..n : IsShown(p[i])}
  <2>1. s \in 1..n /\ InContext(p) = {i \in s..n : IsShown(p[i])}
    BY <1>4, BoundaryIs
  <2>2. LatestCompaction(q) = LatestCompaction(p)
    BY LatestGrows DEF q
  <2>3. LatestCompaction(p) \in 0..n
    BY LatestIs DEF LastSuch
  <2>4. LatestCompaction(p) # 0 => q[LatestCompaction(p)] = p[LatestCompaction(p)]
    BY <1>1, <2>3
  <2> QED BY <2>1, <2>2, <2>4 DEF Boundary
<1>6. InContext(q) = {i \in s..(n + 1) : IsShown(q[i])}
  BY <1>1, <1>3, <1>4, <1>5, BoundaryIs
<1>7. InContext(Append(p, e)) = {i \in k..n : IsShown(p[i])}
  BY <1>2, KeptContext
<1>8. InContext(Append(q, e)) = {i \in k..(n + 1) : IsShown(q[i])}
  <2>1. e.kept \in 1..Len(q)
    BY <1>1, <1>2
  <2> QED BY <1>1, <2>1, KeptContext
<1>9. /\ {i \in k..n : IsShown(p[i])} \subseteq {i \in s..n : IsShown(p[i])}
      /\ {i \in s..n : IsShown(p[i])} \ {i \in k..n : IsShown(p[i])} \subseteq e.covers
      /\ \A i, j \in {h \in k..e.at : IsMessage(p[h])} : i < j => SizeFrom(SubSeq(p, 1, e.at), j) < e.budget
  BY <1>2, <1>5, <1>7 DEF Meets
<1> HIDE DEF k, s, n
<1>10. ASSUME NEW i \in k..(n + 1), IsShown(q[i]) PROVE i \in s..(n + 1) /\ i \notin e.covers
  <2>1. CASE i = n + 1
    BY <1>1, <1>2, <1>5, <2>1
  <2>2. CASE i # n + 1
    <3>1. i \in k..n /\ i \in 1..n
      BY <1>1, <1>2, <2>2
    <3>2. i \in s..n
      BY <1>1, <1>9, <1>10, <3>1
    <3> QED BY <1>1, <1>2, <1>5, <3>1, <3>2
  <2> QED BY <2>1, <2>2
<1>11. ASSUME NEW i \in s..(n + 1), IsShown(q[i]), i \notin k..(n + 1) PROVE i \in e.covers
  <2>1. i \in s..n /\ i \notin k..n /\ i \in 1..n
    BY <1>1, <1>2, <1>5, <1>11
  <2> QED BY <1>1, <1>9, <1>11, <2>1
<1>12. {h \in k..e.at : IsMessage(q[h])} = {h \in k..e.at : IsMessage(p[h])}
  <2>1. \A h \in k..e.at : h \in 1..n
    BY <1>1, <1>2
  <2> QED BY <1>1, <2>1
<1>13. Meets(q, e)
  <2>1. \A i, j \in {h \in e.kept..e.at : IsMessage(q[h])} : i < j => SizeFrom(SubSeq(q, 1, e.at), j) < e.budget
    BY <1>1, <1>9, <1>12 DEF k
  <2> QED BY <1>6, <1>8, <1>10, <1>11, <2>1 DEF Meets
<1>14. LeadsToCut(q, k)
  <2>1. PICK cut \in k..n : Cuttable(p[cut]) /\ \A j \in k..(cut - 1) : ~IsMessage(p[j])
    BY <1>2 DEF LeadsToCut, n
  <2>2. cut \in k..(n + 1) /\ cut \in 1..n /\ \A j \in k..(cut - 1) : j \in 1..n
    BY <1>1, <1>2, <2>1
  <2>3. Cuttable(q[cut]) /\ \A j \in k..(cut - 1) : ~IsMessage(q[j])
    BY <1>1, <2>1, <2>2
  <2> QED BY <1>1, <2>2, <2>3 DEF LeadsToCut
<1>15. k \in 1..Len(q) /\ e.at \in 0..Len(q)
  BY <1>1, <1>2
<1> QED BY <1>2, <1>13, <1>14, <1>15 DEF Compacts, k, q

\* The reply whose calls are being answered is followed by nothing but its results.
LEMMA AskingIs ==
  ASSUME NEW t \in Seq(TrailEntries), Sounds(t), Owing(t)
  PROVE  /\ Asking(t) \in 1..Len(t) /\ t[Asking(t)].kind = "assistant" /\ ~t[Asking(t)].failed
         /\ \A j \in (Asking(t) + 1)..Len(t) : IsShown(t[j]) => t[j].kind = "toolResult" /\ t[j].of = Asking(t)
<1> DEFINE n == Len(t)
           a == Asking(t)
           l == LastShown(t)
           Replies == {i \in 1..n : t[i].kind = "assistant"}
           Shown == {i \in 1..n : IsShown(t[i])}
<1>1. n \in Nat /\ DOMAIN t = 1..n
  OBVIOUS
<1>2. a = Max({0} \cup Replies) /\ l = Max({0} \cup Shown)
  BY <1>1 DEF Asking, LastShown
<1>3. Replies \in SUBSET (1..Len(t)) /\ Shown \in SUBSET (1..Len(t))
  OBVIOUS
<1>4. LastSuch(t, Replies, a) /\ LastSuch(t, Shown, l)
  <2> HIDE DEF Replies, Shown, a, l
  <2> QED BY <1>2, <1>3, LastSuchIs
<1>5. l # 0 /\ t[l].kind \in {"assistant", "toolResult"} /\ ~t[a].failed
  BY DEF Owing
<1> HIDE DEF a, l
<1>6. /\ l \in 1..n /\ IsShown(t[l]) /\ \A i \in 1..n : IsShown(t[i]) => i <= l
      /\ a \in 0..n /\ \A i \in 1..n : t[i].kind = "assistant" => i <= a
      /\ a # 0 => t[a].kind = "assistant"
  BY <1>1, <1>4, <1>5 DEF LastSuch
<1>7. CASE t[l].kind = "assistant"
  <2>1. a \in 1..n /\ l <= a
    BY <1>1, <1>6, <1>7
  <2>2. a <= l
    BY <1>6, <2>1, KindsAre
  <2>3. a = l
    BY <1>6, <2>1, <2>2
  <2>4. ASSUME NEW j \in (a + 1)..n PROVE ~IsShown(t[j])
    BY <1>1, <1>6, <2>3
  <2> QED BY <1>5, <1>6, <2>1, <2>4 DEF a, n
<1>8. CASE t[l].kind = "toolResult"
  <2> DEFINE o == t[l].of
  <2>1. AnswersCall(t, l, o)
    BY <1>6, <1>8, ResultAt
  <2> HIDE DEF o
  <2>2. /\ o \in 1..(l - 1) /\ t[o].kind = "assistant"
        /\ \A j \in (o + 1)..(l - 1) : IsShown(t[j]) => t[j].kind = "toolResult" /\ t[j].of = o
    BY <2>1 DEF AnswersCall
  <2>3. o \in 1..n /\ o <= a /\ a \in 1..n
    BY <1>1, <1>6, <2>2
  <2>4. t[a].kind = "assistant" /\ IsShown(t[a])
    BY <1>6, <2>3, KindsAre
  <2>5. a <= l /\ a # l
    BY <1>6, <1>8, <2>3, <2>4
  <2>6. a \notin (o + 1)..(l - 1)
    BY <2>2, <2>4
  <2>7. a = o
    BY <1>6, <2>2, <2>3, <2>5, <2>6
  <2>8. ASSUME NEW j \in (a + 1)..n, IsShown(t[j]) PROVE t[j].kind = "toolResult" /\ t[j].of = a
    <3>1. j \in 1..n /\ j <= l
      BY <1>6, <2>3, <2>8
    <3>2. CASE j = l
      BY <1>8, <2>7, <3>2 DEF o
    <3>3. CASE j # l
      <4>1. j \in (o + 1)..(l - 1)
        BY <1>6, <2>3, <2>7, <3>1, <3>3
      <4> QED BY <2>2, <2>7, <2>8, <4>1
    <3> QED BY <3>2, <3>3
  <2> QED BY <1>5, <2>3, <2>4, <2>8 DEF a, n
<1> QED BY <1>5, <1>7, <1>8

\* The entries the actions add.
LEMMA EntryIs ==
  ASSUME NEW kind \in {"user", "bash", "custom", "setting"}, NEW size \in Nat, NEW e, e = Entry(kind, size)
  PROVE  e \in TrailEntries /\ e.kind # "compaction" /\ \A p : Sound(p, e)
<1>1. e = [kind |-> kind, size |-> size, calls |-> 0, failed |-> FALSE, of |-> 0, nth |-> 0,
           kept |-> 0, covers |-> {}, budget |-> 0, at |-> 0]
  BY DEF Entry
<1>2. {} \in SUBSET Nat /\ 0 \in Nat
  OBVIOUS
<1>3. e \in TrailEntries
  BY <1>1, <1>2 DEF TrailEntries
<1>4. e.kind = kind
  BY ONLY <1>1
<1> QED BY <1>3, <1>4 DEF Sound

LEMMA ReplyIs ==
  ASSUME NEW size \in Nat, NEW calls \in Nat, NEW failed \in BOOLEAN, NEW e, e = NewReply(size, calls, failed)
  PROVE  e \in TrailEntries /\ e.kind # "compaction" /\ \A p : Sound(p, e)
<1>1. e = [kind |-> "assistant", size |-> size, calls |-> calls, failed |-> failed, of |-> 0, nth |-> 0,
           kept |-> 0, covers |-> {}, budget |-> 0, at |-> 0]
  BY DEF NewReply, Entry
<1>2. {} \in SUBSET Nat /\ 0 \in Nat
  OBVIOUS
<1>3. e \in TrailEntries
  BY <1>1, <1>2 DEF TrailEntries
<1>4. e.kind = "assistant"
  BY ONLY <1>1
<1> QED BY <1>3, <1>4 DEF Sound

LEMMA ResultIsSound ==
  ASSUME NEW t \in Seq(TrailEntries), Sounds(t), Owing(t), NEW size \in Nat,
         NEW e, e = ToolResult(size, Asking(t), ResultsOf(t) + 1)
  PROVE  e \in TrailEntries /\ e.kind # "compaction" /\ Sound(t, e)
<1> DEFINE n == Len(t)
           a == Asking(t)
           R == {i \in 1..n : t[i].kind = "toolResult" /\ t[i].of = a}
           m == Cardinality(R)
           q == Append(t, e)
<1>1. n \in Nat /\ DOMAIN t = 1..n
  OBVIOUS
<1>2. /\ a \in 1..n /\ t[a].kind = "assistant" /\ ~t[a].failed
      /\ \A j \in (a + 1)..n : IsShown(t[j]) => t[j].kind = "toolResult" /\ t[j].of = a
  BY AskingIs
<1>3. ResultsOf(t) = m
  BY <1>1 DEF ResultsOf
<1>4. IsFiniteSet(R) /\ m \in Nat
  <2>1. IsFiniteSet(1..n)
    BY <1>1, FS_Interval
  <2>2. R \subseteq 1..n
    OBVIOUS
  <2> HIDE DEF R
  <2>3. IsFiniteSet(R)
    BY <2>1, <2>2, FS_Subset
  <2> QED BY <2>3, FS_CardinalityType
<1>5. m < t[a].calls
  BY <1>3 DEF Owing
<1>6. t[a] \in TrailEntries
  BY <1>2
<1>7. t[a].calls \in Nat
  BY <1>6 DEF TrailEntries
<1> HIDE DEF a, m, n
<1>8. e \in TrailEntries /\ e.kind = "toolResult" /\ e.of = a /\ e.nth = m + 1
  <2>1. size \in Nat /\ a \in Nat /\ m + 1 \in Nat /\ 0 \in Nat /\ FALSE \in BOOLEAN
        /\ "toolResult" \in {"user", "bash", "assistant", "toolResult", "custom", "setting", "compaction"}
    BY <1>1, <1>2, <1>4
  <2>2. e = ToolResult(size, a, m + 1)
    BY <1>3 DEF a
  <2> DEFINE h == m + 1
  <2>3. e = [kind |-> "toolResult", size |-> size, calls |-> 0, failed |-> FALSE, of |-> a, nth |-> h,
             kept |-> 0, covers |-> {}, budget |-> 0, at |-> 0]
    BY <2>2 DEF ToolResult, Entry
  <2>4. h \in Nat /\ {} \in SUBSET Nat
    BY <2>1
  <2> HIDE DEF h
  <2>5. e \in TrailEntries
    BY ONLY <2>1, <2>3, <2>4 DEF TrailEntries
  <2>6. e.kind = "toolResult" /\ e.of = a /\ e.nth = h
    BY ONLY <2>3
  <2> QED BY <2>5, <2>6 DEF h
<1>9. q \in Seq(TrailEntries) /\ Len(q) = n + 1 /\ q[n + 1] = e /\ \A i \in 1..n : q[i] = t[i]
  BY <1>8, AppendedIs DEF n
<1> HIDE DEF q
<1>10. ResultsTo(q, a) = R \cup {n + 1}
  <2>1. ASSUME NEW j PROVE (j \in 1..(n + 1) /\ q[j].kind = "toolResult" /\ q[j].of = a) <=> j \in R \cup {n + 1}
    <3>1. CASE j = n + 1
      BY <1>1, <1>8, <1>9, <3>1
    <3>2. CASE j # n + 1
      <4>1. j \in 1..(n + 1) <=> j \in 1..n
        BY <1>1, <3>2
      <4> QED BY <1>9, <3>2, <4>1
    <3> QED BY <3>1, <3>2
  <2> QED BY <1>9, <2>1 DEF ResultsTo
<1>11. Cardinality(ResultsTo(q, a)) = m + 1
  <2>1. n + 1 \notin R
    BY <1>1
  <2> HIDE DEF R
  <2> QED BY <1>4, <1>10, <2>1, FS_AddElement DEF m
<1>12. FollowsCall(q, e)
  <2>1. a \in 1..(Len(q) - 1) /\ q[a].kind = "assistant" /\ ~q[a].failed /\ q[a].calls = t[a].calls
    BY <1>1, <1>2, <1>9
  <2>2. m + 1 \in 1..t[a].calls
    BY <1>4, <1>5, <1>7
  <2>3. ASSUME NEW j \in (a + 1)..(Len(q) - 1), IsShown(q[j]) PROVE q[j].kind = "toolResult" /\ q[j].of = a
    <3>1. j \in (a + 1)..n /\ j \in 1..n
      BY <1>1, <1>2, <1>9
    <3> QED BY <1>2, <1>9, <2>3, <3>1
  <2> QED BY <1>8, <1>11, <2>1, <2>2, <2>3 DEF FollowsCall
<1> QED BY <1>8, <1>12 DEF Sound, q

(***************************************************************************)
(* Every path there is is sound.                                           *)
(***************************************************************************)
LEMMA TrailStarts == TrailInit => TrailInv
  BY DEF TrailInit, TrailInv, Sounds

LEMMA TrailGoesOn == TrailInv /\ [TrailNext]_trailVars => TrailInv'
<1> SUFFICES ASSUME TrailInv, [TrailNext]_trailVars PROVE TrailInv'
  OBVIOUS
<1> USE CompactionAssumption
<1> DEFINE Planned(p, c) == c \in TrailEntries /\ c.kind = "compaction" /\ Compacts(p, c)
<1>0. trail \in Seq(TrailEntries) /\ Sounds(trail) /\ \A c \in planned : Planned(trail, c)
  BY DEF TrailInv
<1>a. ASSUME NEW e \in TrailEntries, Sound(trail, e), e.kind # "compaction", trail' = Append(trail, e), planned' = planned
      PROVE  TrailInv'
  <2>1. Sounds(trail') /\ trail' \in Seq(TrailEntries)
    BY <1>0, <1>a, AppendSounds
  <2>2. \A c \in planned' : Planned(trail', c)
    BY <1>0, <1>a, CompactsStays
  <2> QED BY <2>1, <2>2 DEF TrailInv
<1>1. ASSUME NEW size \in Sizes, AppendUser(size) PROVE TrailInv'
  <2> DEFINE e == Entry("user", size)
  <2>1. trail' = Append(trail, e) /\ planned' = planned /\ size \in Nat
    BY <1>1 DEF AppendUser, Extended
  <2>2. e \in TrailEntries /\ Sound(trail, e) /\ e.kind # "compaction"
    BY <2>1, EntryIs
  <2> HIDE DEF e
  <2> QED BY <1>a, <2>1, <2>2
<1>2. ASSUME NEW size \in Sizes, AppendResult(size) PROVE TrailInv'
  <2> DEFINE e == ToolResult(size, Asking(trail), ResultsOf(trail) + 1)
  <2>1. trail' = Append(trail, e) /\ planned' = planned /\ Owing(trail) /\ size \in Nat
    BY <1>2 DEF AppendResult, Extended
  <2>2. e \in TrailEntries /\ Sound(trail, e) /\ e.kind # "compaction"
    BY <1>0, <2>1, ResultIsSound
  <2> HIDE DEF e
  <2> QED BY <1>a, <2>1, <2>2
<1>3. ASSUME NEW size \in Sizes, NEW calls \in 0..MaxCalls, NEW failed \in BOOLEAN,
             AppendReply(size, calls, failed) \/ Retry(size, calls, failed)
      PROVE  TrailInv'
  <2> DEFINE e == NewReply(size, calls, failed)
  <2>1. trail' = Append(trail, e) /\ planned' = planned /\ size \in Nat /\ calls \in Nat
    BY <1>3 DEF AppendReply, Retry, Extended
  <2>2. e \in TrailEntries /\ Sound(trail, e) /\ e.kind # "compaction"
    BY <2>1, ReplyIs
  <2> HIDE DEF e
  <2> QED BY <1>a, <2>1, <2>2
<1>4. ASSUME NEW kind \in {"bash", "custom"}, NEW size \in Sizes, AppendBetween(kind, size) PROVE TrailInv'
  <2> DEFINE e == Entry(kind, size)
  <2>1. trail' = Append(trail, e) /\ planned' = planned /\ size \in Nat /\ kind \in {"user", "bash", "custom", "setting"}
    BY <1>4 DEF AppendBetween, Extended
  <2>2. e \in TrailEntries /\ Sound(trail, e) /\ e.kind # "compaction"
    BY <2>1, EntryIs
  <2> HIDE DEF e
  <2> QED BY <1>a, <2>1, <2>2
<1>5. ASSUME AppendSetting PROVE TrailInv'
  <2> DEFINE e == Entry("setting", 0)
  <2>1. trail' = Append(trail, e) /\ planned' = planned /\ 0 \in Nat
    BY <1>5 DEF AppendSetting, Extended
  <2>2. e \in TrailEntries /\ Sound(trail, e) /\ e.kind # "compaction"
    BY <2>1, EntryIs
  <2> HIDE DEF e
  <2> QED BY <1>a, <2>1, <2>2
<1>6. ASSUME BreakOff PROVE TrailInv'
  BY <1>0, <1>6 DEF BreakOff, TrailInv
<1>7. ASSUME NEW budget \in Budgets, PrepareCompaction(budget) PROVE TrailInv'
  <2> DEFINE plan == Preparation(trail, budget)
             e == CompactionEntry(trail, plan, budget)
  <2>1. trail # <<>> /\ plan.history \cup plan.prefix # {} /\ planned' = {e} /\ trail' = trail /\ budget \in Nat
    BY <1>7 DEF PrepareCompaction, CompactionEntry
  <2> HIDE DEF plan
  <2>2. plan = Preparation(trail, budget)
    BY DEF plan
  <2>3. Planned(trail, e)
    BY <1>0, <2>1, <2>2, CompactionIsSound
  <2> HIDE DEF e
  <2> QED BY <1>0, <2>1, <2>3 DEF TrailInv
<1>8. ASSUME AppendCompaction PROVE TrailInv'
  <2>1. PICK e \in planned : trail' = Append(trail, e) /\ planned' = {}
    BY <1>8 DEF AppendCompaction, Extended
  <2>2. Planned(trail, e)
    BY <1>0, <2>1
  <2>3. Sound(trail, e)
    BY <2>2 DEF Sound
  <2>4. Sounds(trail') /\ trail' \in Seq(TrailEntries)
    BY <1>0, <2>1, <2>2, <2>3, AppendSounds
  <2> QED BY <2>1, <2>4 DEF TrailInv
<1>9. ASSUME GiveUpCompaction PROVE TrailInv'
  BY <1>0, <1>9 DEF GiveUpCompaction, TrailInv
<1>10. ASSUME NEW n \in 1..MaxPath, BranchTo(n) PROVE TrailInv'
  <2>1. trail' = SubSeq(trail, 1, n) /\ n \in 0..Len(trail) /\ planned' = {}
    BY <1>0, <1>10 DEF BranchTo
  <2>2. Sounds(SubSeq(trail, 1, n)) /\ SubSeq(trail, 1, n) \in Seq(TrailEntries)
    BY <1>0, <2>1, PrefixSounds
  <2> QED BY <2>1, <2>2 DEF TrailInv
<1>11. ASSUME UNCHANGED trailVars PROVE TrailInv'
  BY <1>0, <1>11 DEF trailVars, TrailInv
<1> QED BY <1>1, <1>2, <1>3, <1>4, <1>5, <1>6, <1>7, <1>8, <1>9, <1>10, <1>11 DEF TrailNext

\* A summary meets what is kept, since it did when it was made.
LEMMA SoundMeetsKept == TrailInv => SummaryMeetsKept
<1> SUFFICES ASSUME TrailInv, NEW c \in DOMAIN trail, trail[c].kind = "compaction"
             PROVE  LET p        == SubSeq(trail, 1, c - 1)
                        before   == InContext(p)
                        kept     == InContext(SubSeq(trail, 1, c))
                        messages == {i \in trail[c].kept..trail[c].at : IsMessage(trail[i])}
                    IN /\ kept \subseteq before
                       /\ before \ kept \subseteq trail[c].covers
                       /\ kept \cap trail[c].covers = {}
                       /\ \A i, j \in messages : i < j => SizeFrom(SubSeq(trail, 1, trail[c].at), j) < trail[c].budget
  BY DEF SummaryMeetsKept
<1> DEFINE p == Before(trail, c)
           e == trail[c]
           messages == {i \in e.kept..e.at : IsMessage(trail[i])}
<1>1. trail \in Seq(TrailEntries) /\ Sounds(trail) /\ c \in 1..Len(trail)
  BY DEF TrailInv
<1>2. e.kept \in 1..(c - 1) /\ e.at \in 0..(c - 1) /\ Meets(p, e)
  BY <1>1, CompactionAt
<1>3. Append(p, e) = SubSeq(trail, 1, c)
  BY <1>1, PrefixAndNext
<1>4. c \in Nat /\ c - 1 \in 0..Len(trail)
  BY <1>1
<1>5. Len(p) = c - 1 /\ \A i \in 1..(c - 1) : p[i] = trail[i]
  BY <1>1, <1>4, PrefixIs DEF Before
<1>6. p = SubSeq(trail, 1, c - 1)
  BY DEF Before
<1>0. SubSeq(p, 1, e.at) = SubSeq(trail, 1, e.at)
  BY <1>1, <1>2, <1>4, <1>6, PrefixOfPrefix
<1> HIDE DEF p, e
<1>7. messages = {i \in e.kept..e.at : IsMessage(p[i])}
  <2>1. \A i \in e.kept..e.at : i \in 1..(c - 1)
    BY <1>2, <1>4
  <2> QED BY <1>5, <2>1
<1> HIDE DEF messages
<1>8. /\ InContext(Append(p, e)) \subseteq InContext(p)
      /\ InContext(p) \ InContext(Append(p, e)) \subseteq e.covers
      /\ InContext(Append(p, e)) \cap e.covers = {}
      /\ \A i, j \in messages : i < j => SizeFrom(SubSeq(trail, 1, e.at), j) < e.budget
  BY <1>0, <1>2, <1>7 DEF Meets
<1> QED BY <1>3, <1>6, <1>8 DEF e, messages

\* Whatever was appended, cut and branched from: each entry of the path fits those before it.
THEOREM PathsAreSound == TrailSpec => []TrailInv
  BY TrailStarts, TrailGoesOn, PTL DEF TrailSpec

\* What prepareCompaction summarises is what the context that buildSessionContext makes after the
\* compaction no longer has, and what is kept is below the budget but for its first message.
THEOREM SummariesMeetWhatIsKept == TrailSpec => []SummaryMeetsKept
  BY PathsAreSound, SoundMeetsKept, PTL

(***************************************************************************)
(* The request: the results that are added for a reply, and the pass over  *)
(* the path, both as recursive functions that exist.                       *)
(***************************************************************************)
Missing(s, x, n) == IF <<s.reply, n>> \in s.answered THEN x ELSE Append(x, Sent("toolResult", s.reply, n))
Misses(s, k, f) == f = [n \in 0..k |-> IF n = 0 THEN <<>> ELSE Missing(s, f[n - 1], n)]

LEMMA MissesIs ==
  ASSUME NEW s, NEW k \in Nat, NEW f, Misses(s, k, f)
  PROVE  f[0] = <<>> /\ \A n \in 1..k : f[n] = Missing(s, f[n - 1], n)
<1> DEFINE F(n) == IF n = 0 THEN <<>> ELSE Missing(s, f[n - 1], n)
<1>1. f = [n \in 0..k |-> F(n)]
  BY DEF Misses
<1>2. \A n \in 0..k : f[n] = F(n)
  <2> HIDE DEF F
  <2> QED BY <1>1
<1>3. 0 \in 0..k /\ \A n \in 1..k : n \in 0..k /\ n # 0
  OBVIOUS
<1> QED BY <1>2, <1>3

LEMMA MissesExists ==
  ASSUME NEW s, NEW k \in Nat PROVE \E f : Misses(s, k, f)
<1> DEFINE T == {m \in Nat : ~\E f : Misses(s, m, f)}
<1> SUFFICES ASSUME k \in T PROVE FALSE
  OBVIOUS
<1>1. PICK m \in T : \A j \in T : m <= j
  BY LeastOf
<1>2. CASE m = 0
  <2> DEFINE f == [n \in 0..0 |-> <<>>]
  <2>1. Misses(s, 0, f)
    BY DEF Misses
  <2> QED BY <1>1, <1>2, <2>1
<1>3. CASE m # 0
  <2>1. m \in Nat /\ m - 1 \in Nat /\ m - 1 \notin T
    BY <1>1, <1>3
  <2>2. PICK g : Misses(s, m - 1, g)
    BY <2>1
  <2> DEFINE last == Missing(s, g[m - 1], m)
             f == [n \in 0..m |-> IF n = m THEN last ELSE g[n]]
  <2>3. g[0] = <<>> /\ \A n \in 1..(m - 1) : g[n] = Missing(s, g[n - 1], n)
    BY <2>1, <2>2, MissesIs
  <2>4. \A n \in 0..m : f[n] = IF n = 0 THEN <<>> ELSE Missing(s, f[n - 1], n)
    <3> SUFFICES ASSUME NEW n \in 0..m PROVE f[n] = IF n = 0 THEN <<>> ELSE Missing(s, f[n - 1], n)
      OBVIOUS
    <3>1. CASE n = 0
      BY <1>3, <2>1, <2>3, <3>1
    <3>2. CASE n = m
      <4>1. f[n] = last /\ m - 1 \in 0..m /\ m - 1 # m
        BY <2>1, <3>2
      <4>2. f[n - 1] = g[n - 1]
        BY <3>2, <4>1
      <4> QED BY <1>3, <3>2, <4>1, <4>2
    <3>3. CASE n \in 1..(m - 1)
      <4>1. n # m /\ n # 0 /\ n \in 0..m /\ n - 1 \in 0..m /\ n - 1 # m
        BY <2>1, <3>3
      <4>2. f[n] = g[n] /\ f[n - 1] = g[n - 1]
        BY <4>1
      <4> HIDE DEF f
      <4> QED BY <2>3, <3>3, <4>1, <4>2
    <3> QED BY <2>1, <3>1, <3>2, <3>3
  <2>5. Misses(s, m, f)
    <3> HIDE DEF last
    <3>1. f = [n \in 0..m |-> f[n]]
      OBVIOUS
    <3> HIDE DEF f
    <3> QED BY <2>4, <3>1 DEF Misses
  <2> QED BY <1>1, <2>5
<1> QED BY <1>2, <1>3

Begun(p) ==
  LET last == LatestCompaction(p)
  IN [out |-> IF last = 0 THEN <<>> ELSE <<Sent("user", last, 0)>>, reply |-> 0, answered |-> {}]
Passed(p, x, i) == IF i \in InContext(p) THEN Transformed(p, x, i) ELSE x
Passes(p, k, f) == f = [i \in 0..k |-> IF i = 0 THEN Begun(p) ELSE Passed(p, f[i - 1], i)]

LEMMA PassesIs ==
  ASSUME NEW p, NEW k \in Nat, NEW f, Passes(p, k, f)
  PROVE  f[0] = Begun(p) /\ \A n \in 1..k : f[n] = Passed(p, f[n - 1], n)
<1> DEFINE F(n) == IF n = 0 THEN Begun(p) ELSE Passed(p, f[n - 1], n)
<1>1. f = [n \in 0..k |-> F(n)]
  BY DEF Passes
<1>2. \A n \in 0..k : f[n] = F(n)
  <2> HIDE DEF F
  <2> QED BY <1>1
<1>3. 0 \in 0..k /\ \A n \in 1..k : n \in 0..k /\ n # 0
  OBVIOUS
<1> QED BY <1>2, <1>3

LEMMA PassesExists ==
  ASSUME NEW p, NEW k \in Nat PROVE \E f : Passes(p, k, f)
<1> DEFINE T == {m \in Nat : ~\E f : Passes(p, m, f)}
<1> SUFFICES ASSUME k \in T PROVE FALSE
  OBVIOUS
<1>1. PICK m \in T : \A j \in T : m <= j
  BY LeastOf
<1>2. CASE m = 0
  <2> DEFINE f == [n \in 0..0 |-> Begun(p)]
  <2>1. Passes(p, 0, f)
    BY DEF Passes
  <2> QED BY <1>1, <1>2, <2>1
<1>3. CASE m # 0
  <2>1. m \in Nat /\ m - 1 \in Nat /\ m - 1 \notin T
    BY <1>1, <1>3
  <2>2. PICK g : Passes(p, m - 1, g)
    BY <2>1
  <2> DEFINE last == Passed(p, g[m - 1], m)
             f == [n \in 0..m |-> IF n = m THEN last ELSE g[n]]
  <2>3. g[0] = Begun(p) /\ \A n \in 1..(m - 1) : g[n] = Passed(p, g[n - 1], n)
    BY <2>1, <2>2, PassesIs
  <2>4. \A n \in 0..m : f[n] = IF n = 0 THEN Begun(p) ELSE Passed(p, f[n - 1], n)
    <3> SUFFICES ASSUME NEW n \in 0..m PROVE f[n] = IF n = 0 THEN Begun(p) ELSE Passed(p, f[n - 1], n)
      OBVIOUS
    <3>1. CASE n = 0
      BY <1>3, <2>1, <2>3, <3>1
    <3>2. CASE n = m
      <4>1. f[n] = last /\ m - 1 \in 0..m /\ m - 1 # m
        BY <2>1, <3>2
      <4>2. f[n - 1] = g[n - 1]
        BY <3>2, <4>1
      <4> QED BY <1>3, <3>2, <4>1, <4>2
    <3>3. CASE n \in 1..(m - 1)
      <4>1. n # m /\ n # 0 /\ n \in 0..m /\ n - 1 \in 0..m /\ n - 1 # m
        BY <2>1, <3>3
      <4>2. f[n] = g[n] /\ f[n - 1] = g[n - 1]
        BY <4>1
      <4> HIDE DEF f
      <4> QED BY <2>3, <3>3, <4>1, <4>2
    <3> QED BY <2>1, <3>1, <3>2, <3>3
  <2>5. Passes(p, m, f)
    <3> HIDE DEF last
    <3>1. f = [n \in 0..m |-> f[n]]
      OBVIOUS
    <3> HIDE DEF f
    <3> QED BY <2>4, <3>1 DEF Passes
  <2> QED BY <1>1, <2>5
<1> QED BY <1>2, <1>3

CallsOf(p, s) == IF s.reply = 0 THEN 0 ELSE p[s.reply].calls

LEMMA UnansweredIs ==
  ASSUME NEW p, NEW s, CallsOf(p, s) \in Nat
  PROVE  \E f : Misses(s, CallsOf(p, s), f) /\ Unanswered(p, s) = f[CallsOf(p, s)]
<1> DEFINE k == CallsOf(p, s)
           f == CHOOSE f : Misses(s, k, f)
<1>1. Unanswered(p, s) = f[k]
  BY DEF Unanswered, Misses, Missing, CallsOf
<1>2. Misses(s, k, f)
  <2> HIDE DEF k
  <2>1. \E g : Misses(s, k, g)
    BY MissesExists DEF k
  <2> QED BY <2>1
<1> QED BY <1>1, <1>2

LEMMA RequestIs ==
  ASSUME NEW p \in Seq(TrailEntries)
  PROVE  \E f : Passes(p, Len(p), f) /\ Request(p) = f[Len(p)].out \o Unanswered(p, f[Len(p)])
<1> DEFINE f == CHOOSE f : Passes(p, Len(p), f)
<1>1. Request(p) = f[Len(p)].out \o Unanswered(p, f[Len(p)])
  BY DEF Request, Passes, Passed, Begun
<1>2. Passes(p, Len(p), f)
  <2>1. Len(p) \in Nat
    OBVIOUS
  <2>2. \E g : Passes(p, Len(p), g)
    BY <2>1, PassesExists
  <2> QED BY <2>2
<1> QED BY <1>1, <1>2

(***************************************************************************)
(* What is sent: messages, among them the results of a reply's calls.      *)
(***************************************************************************)
Outs == [kind : {"user", "assistant", "toolResult"}, of : Nat, nth : Nat]
IsResult(out, k, o) == out[k].kind = "toolResult" /\ out[k].of = o
IsNth(out, k, o, m) == IsResult(out, k, o) /\ out[k].nth = m
Once(out, o, m) == \E k \in 1..Len(out) : IsNth(out, k, o, m) /\ \A j \in 1..Len(out) : IsNth(out, j, o, m) => j = k
AllAnswered(p, out, o) == \A m \in 1..p[o].calls : Once(out, o, m)

\* The message that was sent at x is the last but for its results.
EndsWith(out, x, o) ==
  x \in 1..Len(out) /\ out[x].kind = "assistant" /\ out[x].of = o /\ \A j \in (x + 1)..Len(out) : IsResult(out, j, o)
AfterCalls(out) == \A k \in 1..Len(out) : out[k].kind = "toolResult" =>
  \E i \in 1..(k - 1) : out[i].kind = "assistant" /\ \A j \in (i + 1)..k : IsResult(out, j, out[i].of)

LEMMA JoinedIs ==
  ASSUME NEW u \in Seq(Outs), NEW v \in Seq(Outs)
  PROVE  /\ u \o v \in Seq(Outs) /\ Len(u \o v) = Len(u) + Len(v) /\ Len(u) \in Nat /\ Len(v) \in Nat
         /\ \A k \in 1..Len(u) : (u \o v)[k] = u[k]
         /\ \A k \in (Len(u) + 1)..(Len(u) + Len(v)) : (u \o v)[k] = v[k - Len(u)] /\ k - Len(u) \in 1..Len(v)
<1> DEFINE c == u \o v
<1>1. /\ c \in Seq(Outs) /\ Len(c) = Len(u) + Len(v)
      /\ \A i \in 1..(Len(u) + Len(v)) : c[i] = IF i <= Len(u) THEN u[i] ELSE v[i - Len(u)]
  BY ConcatProperties
<1>2. Len(u) \in Nat /\ Len(v) \in Nat
  OBVIOUS
<1> HIDE DEF c
<1>3. ASSUME NEW k \in 1..Len(u) PROVE c[k] = u[k]
  <2>1. k \in 1..(Len(u) + Len(v)) /\ k <= Len(u)
    BY <1>2
  <2> QED BY <1>1, <2>1
<1>4. ASSUME NEW k \in (Len(u) + 1)..(Len(u) + Len(v)) PROVE c[k] = v[k - Len(u)] /\ k - Len(u) \in 1..Len(v)
  <2>1. k \in 1..(Len(u) + Len(v)) /\ ~(k <= Len(u)) /\ k - Len(u) \in 1..Len(v)
    BY <1>2
  <2> QED BY <1>1, <2>1
<1> QED BY <1>1, <1>2, <1>3, <1>4 DEF c

LEMMA OneMore ==
  ASSUME NEW u \in Seq(Outs), NEW x \in Outs
  PROVE  <<x>> \in Seq(Outs) /\ Append(u, x) = u \o <<x>> /\ Len(<<x>>) = 1 /\ <<x>>[1] = x
<1>1. Append(u, x) = u \o <<x>>
  BY AppendIsConcat
<1> QED BY <1>1

\* A place of a sequence that is two is a place of one of them.
LEMMA PlaceIs ==
  ASSUME NEW u \in Seq(Outs), NEW v \in Seq(Outs), NEW k \in 1..Len(u \o v)
  PROVE  \/ k \in 1..Len(u) /\ (u \o v)[k] = u[k]
         \/ k \in (Len(u) + 1)..Len(u \o v) /\ (u \o v)[k] = v[k - Len(u)] /\ k - Len(u) \in 1..Len(v)
<1> DEFINE c == u \o v
<1>1. /\ Len(c) = Len(u) + Len(v) /\ Len(u) \in Nat /\ Len(v) \in Nat
      /\ \A i \in 1..Len(u) : c[i] = u[i]
      /\ \A i \in (Len(u) + 1)..(Len(u) + Len(v)) : c[i] = v[i - Len(u)] /\ i - Len(u) \in 1..Len(v)
  BY JoinedIs
<1> HIDE DEF c
<1>2. k \in 1..Len(u) \/ k \in (Len(u) + 1)..(Len(u) + Len(v))
  BY <1>1 DEF c
<1> QED BY <1>1, <1>2 DEF c

LEMMA OnceLeft ==
  ASSUME NEW u \in Seq(Outs), NEW v \in Seq(Outs), NEW o, NEW m, Once(u, o, m), \A j \in 1..Len(v) : ~IsNth(v, j, o, m)
  PROVE  Once(u \o v, o, m)
<1> DEFINE c == u \o v
<1>1. PICK k \in 1..Len(u) : IsNth(u, k, o, m) /\ \A j \in 1..Len(u) : IsNth(u, j, o, m) => j = k
  BY DEF Once
<1>2. Len(c) = Len(u) + Len(v) /\ Len(u) \in Nat /\ Len(v) \in Nat /\ \A i \in 1..Len(u) : c[i] = u[i]
  BY JoinedIs
<1>3. ASSUME NEW j \in 1..Len(c), IsNth(c, j, o, m) PROVE j = k
  <2>1. CASE j \in 1..Len(u) /\ c[j] = u[j]
    BY <1>1, <1>3, <2>1 DEF IsNth, IsResult
  <2>2. CASE c[j] = v[j - Len(u)] /\ j - Len(u) \in 1..Len(v)
    BY <1>3, <2>2 DEF IsNth, IsResult
  <2> QED BY <2>1, <2>2, PlaceIs
<1>4. k \in 1..Len(c) /\ IsNth(c, k, o, m)
  BY <1>1, <1>2 DEF IsNth, IsResult
<1> QED BY <1>3, <1>4 DEF Once

LEMMA OnceRight ==
  ASSUME NEW u \in Seq(Outs), NEW v \in Seq(Outs), NEW o, NEW m, Once(v, o, m), \A j \in 1..Len(u) : ~IsNth(u, j, o, m)
  PROVE  Once(u \o v, o, m)
<1> DEFINE c == u \o v
<1>1. PICK k \in 1..Len(v) : IsNth(v, k, o, m) /\ \A j \in 1..Len(v) : IsNth(v, j, o, m) => j = k
  BY DEF Once
<1>2. /\ Len(c) = Len(u) + Len(v) /\ Len(u) \in Nat /\ Len(v) \in Nat
      /\ \A i \in (Len(u) + 1)..(Len(u) + Len(v)) : c[i] = v[i - Len(u)]
  BY JoinedIs
<1> DEFINE h == Len(u) + k
<1>3. ASSUME NEW j \in 1..Len(c), IsNth(c, j, o, m) PROVE j = h
  <2>1. CASE j \in 1..Len(u) /\ c[j] = u[j]
    BY <1>3, <2>1 DEF IsNth, IsResult
  <2>2. CASE c[j] = v[j - Len(u)] /\ j - Len(u) \in 1..Len(v)
    <3>1. j - Len(u) = k
      BY <1>1, <1>3, <2>2 DEF IsNth, IsResult
    <3> HIDE DEF c
    <3> QED BY <1>2, <3>1
  <2> QED BY <2>1, <2>2, PlaceIs
<1>4. h \in 1..Len(c) /\ h \in (Len(u) + 1)..(Len(u) + Len(v)) /\ h - Len(u) = k
  <2> HIDE DEF c
  <2> QED BY <1>1, <1>2
<1> HIDE DEF h
<1>5. IsNth(c, h, o, m)
  BY <1>1, <1>2, <1>4 DEF IsNth, IsResult
<1> QED BY <1>3, <1>4, <1>5 DEF Once

\* Results of the reply at the end may follow, and messages that are no results.
LEMMA AfterCallsGrows ==
  ASSUME NEW u \in Seq(Outs), NEW v \in Seq(Outs), AfterCalls(u), NEW x, NEW o,
         (\A j \in 1..Len(v) : v[j].kind # "toolResult") \/ (EndsWith(u, x, o) /\ \A j \in 1..Len(v) : IsResult(v, j, o))
  PROVE  AfterCalls(u \o v)
<1> DEFINE c == u \o v
<1>1. /\ Len(c) = Len(u) + Len(v) /\ Len(u) \in Nat /\ Len(v) \in Nat
      /\ \A i \in 1..Len(u) : c[i] = u[i]
      /\ \A i \in (Len(u) + 1)..(Len(u) + Len(v)) : c[i] = v[i - Len(u)] /\ i - Len(u) \in 1..Len(v)
  BY JoinedIs
<1>2. ASSUME NEW k \in 1..Len(c), c[k].kind = "toolResult"
      PROVE  \E i \in 1..(k - 1) : c[i].kind = "assistant" /\ \A j \in (i + 1)..k : IsResult(c, j, c[i].of)
  <2>1. CASE k \in 1..Len(u) /\ c[k] = u[k]
    <3>1. PICK i \in 1..(k - 1) : u[i].kind = "assistant" /\ \A j \in (i + 1)..k : IsResult(u, j, u[i].of)
      BY <1>2, <2>1 DEF AfterCalls
    <3>2. i \in 1..Len(u) /\ c[i] = u[i]
      BY <1>1, <2>1
    <3>3. ASSUME NEW j \in (i + 1)..k PROVE IsResult(c, j, c[i].of)
      <4>1. j \in 1..Len(u)
        BY <1>1, <2>1
      <4> QED BY <1>1, <3>1, <3>2, <4>1 DEF IsResult
    <3> QED BY <3>1, <3>2, <3>3
  <2>2. CASE k \in (Len(u) + 1)..Len(c) /\ c[k] = v[k - Len(u)] /\ k - Len(u) \in 1..Len(v)
    <3>1. EndsWith(u, x, o) /\ \A j \in 1..Len(v) : IsResult(v, j, o)
      BY <1>2, <2>2
    <3>2. x \in 1..Len(u) /\ u[x].kind = "assistant" /\ u[x].of = o /\ \A j \in (x + 1)..Len(u) : IsResult(u, j, o)
      BY <3>1 DEF EndsWith
    <3> HIDE DEF c
    <3>3. x \in 1..(k - 1) /\ c[x] = u[x]
      BY <1>1, <2>2, <3>2
    <3>4. ASSUME NEW j \in (x + 1)..k PROVE IsResult(c, j, o)
      <4>1. CASE j \in (x + 1)..Len(u)
        <5>1. j \in 1..Len(u)
          BY <3>2, <4>1
        <5> QED BY <1>1, <3>2, <4>1, <5>1 DEF IsResult
      <4>2. CASE j \notin (x + 1)..Len(u)
        <5>1. j \in (Len(u) + 1)..(Len(u) + Len(v))
          BY <1>1, <2>2, <3>2, <4>2
        <5> QED BY <1>1, <3>1, <5>1 DEF IsResult
      <4> QED BY <4>1, <4>2
    <3> QED BY <3>2, <3>3, <3>4
  <2> QED BY <2>1, <2>2, PlaceIs
<1> QED BY <1>2 DEF AfterCalls

(***************************************************************************)
(* The results that are added are those that are missing.                  *)
(***************************************************************************)
Added(s, u, n) ==
  /\ u \in Seq(Outs)
  /\ \A k \in 1..Len(u) : IsResult(u, k, s.reply) /\ u[k].nth \in 1..n /\ <<s.reply, u[k].nth>> \notin s.answered
  /\ \A m \in 1..n : <<s.reply, m>> \notin s.answered => Once(u, s.reply, m)

LEMMA MissedAre ==
  ASSUME NEW s, s.reply \in Nat, NEW n \in Nat, NEW f, Misses(s, n, f)
  PROVE  Added(s, f[n], n)
<1> DEFINE r == s.reply
           T == {k \in 0..n : ~Added(s, f[k], k)}
<1>1. f[0] = <<>> /\ \A k \in 1..n : f[k] = Missing(s, f[k - 1], k)
  BY MissesIs
<1>2. ASSUME T # {} PROVE FALSE
  <2>1. T \in SUBSET Nat
    OBVIOUS
  <2>2. PICK k \in T : \A j \in T : k <= j
    <3> HIDE DEF T
    <3> QED BY <1>2, <2>1, LeastOf
  <2>3. Added(s, f[0], 0)
    <3>1. <<>> \in Seq(Outs) /\ Len(<<>>) = 0
      OBVIOUS
    <3> QED BY <1>1, <3>1 DEF Added
  <2>4. k # 0
    BY <2>2, <2>3
  <2>5. k \in 1..n /\ k - 1 \in 0..n /\ k - 1 \notin T /\ k \in Nat
    BY <2>2, <2>4
  <2> DEFINE u == f[k - 1]
             x == Sent("toolResult", r, k)
             w == <<x>>
  <2>6. Added(s, u, k - 1) /\ f[k] = Missing(s, u, k)
    BY <1>1, <2>5
  <2> HIDE DEF u
  <2>7. /\ u \in Seq(Outs)
        /\ \A j \in 1..Len(u) : IsResult(u, j, r) /\ u[j].nth \in 1..(k - 1) /\ <<r, u[j].nth>> \notin s.answered
        /\ \A m \in 1..(k - 1) : <<r, m>> \notin s.answered => Once(u, r, m)
    BY <2>6 DEF Added
  <2>8. CASE <<r, k>> \in s.answered
    <3>1. f[k] = u
      BY <2>6, <2>8 DEF Missing
    <3>2. \A m \in 1..k : m \in 1..(k - 1) \/ m = k
      BY <2>5
    <3>3. \A m \in 1..(k - 1) : m \in 1..k
      BY <2>5
    <3>4. Added(s, u, k)
      BY <2>7, <2>8, <3>2, <3>3 DEF Added
    <3> QED BY <2>2, <3>1, <3>4
  <2>9. CASE <<r, k>> \notin s.answered
    <3>1. f[k] = Append(u, x)
      BY <2>6, <2>9 DEF Missing
    <3>2. x \in Outs /\ x.kind = "toolResult" /\ x.of = r /\ x.nth = k
      BY <2>5 DEF Sent, Outs
    <3> HIDE DEF x
    <3>3. w \in Seq(Outs) /\ Append(u, x) = u \o w /\ Len(w) = 1 /\ w[1] = x
      BY <2>7, <3>2, OneMore
    <3> HIDE DEF w
    <3>4. \A j \in 1..Len(w) : j = 1
      BY <3>3
    <3>5. ASSUME NEW j \in 1..Len(u \o w)
          PROVE  IsResult(u \o w, j, r) /\ (u \o w)[j].nth \in 1..k /\ <<r, (u \o w)[j].nth>> \notin s.answered
      <4>1. CASE j \in 1..Len(u) /\ (u \o w)[j] = u[j]
        <5>1. u[j].nth \in 1..k
          <6>1. u[j].nth \in 1..(k - 1)
            BY <2>7, <4>1
          <6>2. \A h \in 1..(k - 1) : h \in 1..k
            BY <2>5
          <6> QED BY <6>1, <6>2
        <5> QED BY <2>7, <4>1, <5>1 DEF IsResult
      <4>2. CASE (u \o w)[j] = w[j - Len(u)] /\ j - Len(u) \in 1..Len(w)
        <5>1. (u \o w)[j] = x
          BY <3>3, <3>4, <4>2
        <5>2. k \in 1..k
          BY <2>5
        <5> QED BY <2>9, <3>2, <5>1, <5>2 DEF IsResult
      <4> QED BY <2>7, <3>3, <4>1, <4>2, PlaceIs
    <3>6. ASSUME NEW m \in 1..k, <<r, m>> \notin s.answered PROVE Once(u \o w, r, m)
      <4>1. CASE m \in 1..(k - 1)
        <5>1. Once(u, r, m)
          BY <2>7, <3>6, <4>1
        <5>2. \A j \in 1..Len(w) : ~IsNth(w, j, r, m)
          BY <2>5, <3>2, <3>3, <3>4, <4>1 DEF IsNth
        <5> QED BY <2>7, <3>3, <5>1, <5>2, OnceLeft
      <4>2. CASE m = k
        <5>1. Once(w, r, m)
          <6>1. 1 \in 1..Len(w) /\ IsNth(w, 1, r, m)
            BY <3>2, <3>3, <4>2 DEF IsNth, IsResult
          <6> QED BY <3>4, <6>1 DEF Once
        <5>2. ASSUME NEW j \in 1..Len(u) PROVE ~IsNth(u, j, r, m)
          <6>1. u[j].nth \in 1..(k - 1)
            BY <2>7
          <6> QED BY <2>5, <4>2, <6>1 DEF IsNth
        <5> QED BY <2>7, <3>3, <5>1, <5>2, OnceRight
      <4> QED BY <2>5, <4>1, <4>2
    <3>7. u \o w \in Seq(Outs)
      BY <2>7, <3>3, JoinedIs
    <3>8. Added(s, f[k], k)
      <4> DEFINE c == u \o w
      <4>1. f[k] = c /\ c \in Seq(Outs)
        BY <3>1, <3>3, <3>7
      <4>2. \A j \in 1..Len(c) : IsResult(c, j, r) /\ c[j].nth \in 1..k /\ <<r, c[j].nth>> \notin s.answered
        BY <3>5
      <4>3. \A m \in 1..k : <<r, m>> \notin s.answered => Once(c, r, m)
        BY <3>6
      <4> HIDE DEF c
      <4> QED BY <4>1, <4>2, <4>3 DEF Added
    <3> QED BY <2>2, <3>8
  <2> QED BY <2>8, <2>9
<1>3. n \in 0..n
  OBVIOUS
<1> QED BY <1>2, <1>3

(***************************************************************************)
(* What is sent up to an entry, and what it is when the last reply's       *)
(* missing results are added.                                              *)
(***************************************************************************)
Closed(p, out, i) ==
  /\ out \in Seq(Outs) /\ AfterCalls(out)
  /\ \A k \in 1..Len(out) : out[k].kind # "user" => out[k].of \in 1..i
  /\ \A k \in 1..Len(out) : out[k].kind = "assistant" => AllAnswered(p, out, out[k].of)

Pending(p, s, i) ==
  /\ s.out \in Seq(Outs) /\ s.reply \in 0..i /\ AfterCalls(s.out)
  /\ \A k \in 1..Len(s.out) : s.out[k].kind # "user" => s.out[k].of \in 1..i
  /\ \A k \in 1..Len(s.out) : s.out[k].kind = "assistant" /\ s.out[k].of # s.reply => AllAnswered(p, s.out, s.out[k].of)
  /\ s.reply # 0 => \E x : EndsWith(s.out, x, s.reply)
  /\ \A m : <<s.reply, m>> \in s.answered <=> \E k \in 1..Len(s.out) : IsNth(s.out, k, s.reply, m)
  /\ \A j, k \in 1..Len(s.out) :
       IsResult(s.out, j, s.reply) /\ IsResult(s.out, k, s.reply) /\ s.out[j].nth = s.out[k].nth => j = k

LEMMA ClosedIs ==
  ASSUME NEW p \in Seq(TrailEntries), NEW i \in 0..Len(p), NEW s, Pending(p, s, i)
  PROVE  Closed(p, s.out \o Unanswered(p, s), i)
<1> DEFINE r == s.reply
           n == CallsOf(p, s)
           out == s.out
           u == Unanswered(p, s)
<1>1. /\ out \in Seq(Outs) /\ r \in 0..i /\ AfterCalls(out)
      /\ \A k \in 1..Len(out) : out[k].kind # "user" => out[k].of \in 1..i
      /\ \A k \in 1..Len(out) : out[k].kind = "assistant" /\ out[k].of # r => AllAnswered(p, out, out[k].of)
      /\ r # 0 => \E x : EndsWith(out, x, r)
      /\ \A m : <<r, m>> \in s.answered <=> \E k \in 1..Len(out) : IsNth(out, k, r, m)
      /\ \A j, k \in 1..Len(out) : IsResult(out, j, r) /\ IsResult(out, k, r) /\ out[j].nth = out[k].nth => j = k
  BY DEF Pending
<1>2. r # 0 => r \in 1..Len(p)
  BY <1>1
<1>3. n \in Nat /\ (r = 0 => n = 0) /\ (r # 0 => n = p[r].calls)
  <2>1. CASE r = 0
    BY <2>1 DEF CallsOf
  <2>2. CASE r # 0
    <3>1. p[r] \in TrailEntries /\ n = p[r].calls
      BY <1>2, <2>2 DEF CallsOf
    <3>2. p[r].calls \in Nat
      BY <3>1 DEF TrailEntries
    <3> QED BY <2>2, <3>1, <3>2
  <2> QED BY <2>1, <2>2
<1>4. PICK f : Misses(s, n, f) /\ u = f[n]
  BY <1>3, UnansweredIs
<1>5. Added(s, u, n)
  <2>1. r \in Nat
    BY <1>1
  <2> QED BY <1>3, <1>4, <2>1, MissedAre
<1> HIDE DEF u, n, out
<1>6. /\ u \in Seq(Outs)
      /\ \A k \in 1..Len(u) : IsResult(u, k, r) /\ u[k].nth \in 1..n /\ <<r, u[k].nth>> \notin s.answered
      /\ \A m \in 1..n : <<r, m>> \notin s.answered => Once(u, r, m)
  BY <1>5 DEF Added
<1> HIDE DEF r
<1> DEFINE c == out \o u
<1>7. c \in Seq(Outs)
  BY <1>1, <1>6, JoinedIs
<1>8. r = 0 => \A k \in 1..Len(u) : FALSE
  <2>1. r = 0 => 1..n = {}
    BY <1>3
  <2> QED BY <1>6, <2>1
<1>9. AfterCalls(c)
  <2>1. CASE r = 0
    <3>1. \A k \in 1..Len(u) : u[k].kind # "toolResult"
      BY <1>8, <2>1
    <3> QED BY <1>1, <1>6, <3>1, AfterCallsGrows
  <2>2. CASE r # 0
    <3>1. PICK x : EndsWith(out, x, r)
      BY <1>1, <2>2
    <3>2. \A k \in 1..Len(u) : IsResult(u, k, r)
      BY <1>6
    <3> QED BY <1>1, <1>6, <3>1, <3>2, AfterCallsGrows
  <2> QED BY <2>1, <2>2
<1>10. ASSUME NEW k \in 1..Len(c)
       PROVE  \/ k \in 1..Len(out) /\ c[k] = out[k]
              \/ r # 0 /\ c[k].kind = "toolResult" /\ c[k].of = r
  <2>1. \/ k \in 1..Len(out) /\ c[k] = out[k]
        \/ c[k] = u[k - Len(out)] /\ k - Len(out) \in 1..Len(u)
    BY <1>1, <1>6, PlaceIs
  <2> QED BY <1>6, <1>8, <2>1 DEF IsResult
<1>11. ASSUME NEW k \in 1..Len(c), c[k].kind # "user" PROVE c[k].of \in 1..i
  <2>1. r # 0 => r \in 1..i
    BY <1>1
  <2> HIDE DEF c
  <2> QED BY <1>1, <1>10, <1>11, <2>1
<1>12. ASSUME NEW k \in 1..Len(c), c[k].kind = "assistant" PROVE AllAnswered(p, c, c[k].of)
  <2>1. k \in 1..Len(out) /\ c[k] = out[k]
    <3> HIDE DEF c
    <3> QED BY <1>10, <1>12
  <2> DEFINE o == out[k].of
  <2>2. ASSUME NEW m \in 1..p[o].calls PROVE Once(c, o, m)
    <3>1. CASE o # r
      <4>1. Once(out, o, m)
        BY <1>1, <1>12, <2>1, <2>2, <3>1 DEF AllAnswered
      <4>2. \A j \in 1..Len(u) : ~IsNth(u, j, o, m)
        BY <1>6, <3>1 DEF IsNth, IsResult
      <4> QED BY <1>1, <1>6, <4>1, <4>2, OnceLeft
    <3>2. CASE o = r
      <4>1. r # 0 /\ m \in 1..n
        <5>1. o \in 1..i
          BY <1>1, <1>12, <2>1
        <5>2. r # 0
          BY <3>2, <5>1
        <5> HIDE DEF o
        <5> QED BY <1>3, <2>2, <3>2, <5>2
      <4>2. CASE <<r, m>> \in s.answered
        <5>1. PICK x \in 1..Len(out) : IsNth(out, x, r, m)
          BY <1>1, <4>2
        <5>2. Once(out, r, m)
          BY <1>1, <5>1 DEF Once, IsNth
        <5>3. \A j \in 1..Len(u) : ~IsNth(u, j, r, m)
          BY <1>6, <4>2 DEF IsNth
        <5> QED BY <1>1, <1>6, <3>2, <5>2, <5>3, OnceLeft
      <4>3. CASE <<r, m>> \notin s.answered
        <5>1. Once(u, r, m)
          BY <1>6, <4>1, <4>3
        <5>2. \A j \in 1..Len(out) : ~IsNth(out, j, r, m)
          BY <1>1, <4>3
        <5> QED BY <1>1, <1>6, <3>2, <5>1, <5>2, OnceRight
      <4> QED BY <4>2, <4>3
    <3> QED BY <3>1, <3>2
  <2>3. c[k].of = o
    BY <2>1
  <2> HIDE DEF o, c
  <2> QED BY <2>2, <2>3 DEF AllAnswered
<1>13. Closed(p, c, i)
  <2> HIDE DEF c
  <2> QED BY <1>7, <1>9, <1>11, <1>12 DEF Closed
<1> QED BY <1>13 DEF out, u

(***************************************************************************)
(* The pass over the path.                                                 *)
(***************************************************************************)
Counted(p, i, a) == {j \in 1..i : p[j].kind = "toolResult" /\ p[j].of = a}
Only(p, a, i) == \A j \in (a + 1)..i : IsShown(p[j]) => p[j].kind = "toolResult" /\ p[j].of = a

Tracks(p, s, i) ==
  /\ s \in [out : Seq(Outs), reply : Nat, answered : SUBSET (Nat \X Nat)]
  /\ \A k \in 1..Len(s.out) : IsResult(s.out, k, s.reply) => s.out[k].nth <= Cardinality(Counted(p, i, s.reply))
  /\ \A a \in InContext(p) :
       a <= i /\ p[a].kind = "assistant" /\ ~p[a].failed /\ Only(p, a, i) => s.reply = a

LEMMA CountedIs ==
  ASSUME NEW p, NEW i \in Nat \ {0}, NEW a
  PROVE  LET c == Cardinality(Counted(p, i, a))
             b == Cardinality(Counted(p, i - 1, a))
         IN b \in Nat /\ c \in Nat /\ b <= c /\ (p[i].kind = "toolResult" /\ p[i].of = a => c = b + 1)
<1> DEFINE B == Counted(p, i - 1, a)
           C == Counted(p, i, a)
<1>1. IsFiniteSet(1..i) /\ C \subseteq 1..i
  BY FS_Interval DEF Counted
<1>2. B \subseteq C /\ i \notin B
  BY DEF Counted
<1>3. p[i].kind = "toolResult" /\ p[i].of = a => C = B \cup {i}
  <2> SUFFICES ASSUME p[i].kind = "toolResult", p[i].of = a PROVE C = B \cup {i}
    OBVIOUS
  <2>1. \A j : j \in 1..i <=> j \in 1..(i - 1) \/ j = i
    OBVIOUS
  <2> QED BY <2>1 DEF Counted
<1> HIDE DEF B, C
<1>4. IsFiniteSet(C)
  BY <1>1, FS_Subset
<1>5. IsFiniteSet(B) /\ Cardinality(B) <= Cardinality(C)
  BY <1>2, <1>4, FS_Subset
<1>6. Cardinality(B) \in Nat /\ Cardinality(C) \in Nat
  BY <1>4, <1>5, FS_CardinalityType
<1>7. Cardinality(B \cup {i}) = Cardinality(B) + 1
  BY <1>2, <1>5, FS_AddElement
<1> QED BY <1>3, <1>5, <1>6, <1>7 DEF B, C

\* The reply of a result that is in the context is in it too.
LEMMA ReplyInContext ==
  ASSUME NEW p \in Seq(TrailEntries), Sounds(p), NEW k \in InContext(p), p[k].kind = "toolResult"
  PROVE  LET a == p[k].of IN
         /\ k \in 1..Len(p) /\ a \in 1..(k - 1) /\ a \in InContext(p) /\ p[a].kind = "assistant" /\ ~p[a].failed
         /\ Only(p, a, k - 1) /\ p[k].nth = Cardinality(Counted(p, k, a)) /\ p[k].nth \in Nat
<1> DEFINE a == p[k].of
           s == Boundary(p)
           n == Len(p)
<1>1. k \in 1..n /\ n \in Nat /\ p # <<>>
  BY DEF InContext
<1>2. AnswersCall(p, k, a)
  BY <1>1, ResultAt
<1>3. /\ a \in 1..(k - 1) /\ p[a].kind = "assistant" /\ ~p[a].failed
      /\ Only(p, a, k - 1) /\ p[k].nth = Cardinality(Counted(p, k, a))
  BY <1>2 DEF AnswersCall, Only, Counted
<1>4. p[k] \in TrailEntries
  BY <1>1
<1>5. p[k].nth \in Nat
  BY <1>4 DEF TrailEntries
<1>6. /\ s \in 1..n /\ InContext(p) = {i \in s..n : IsShown(p[i])}
      /\ \A i \in s..n : p[i].kind = "toolResult" => \E c \in s..(i - 1) : Cuttable(p[c])
  BY <1>1, BoundaryIs
<1> HIDE DEF a, s, n
<1>7. PICK c \in s..(k - 1) : Cuttable(p[c])
  BY <1>6
<1>8. c \notin (a + 1)..(k - 1)
  BY <1>3, <1>7, KindsAre DEF Only
<1>9. a \in s..n
  BY <1>1, <1>3, <1>6, <1>7, <1>8
<1>10. a \in InContext(p)
  BY <1>3, <1>6, <1>9, KindsAre
<1> QED BY <1>1, <1>3, <1>5, <1>10 DEF a, n

LEMMA PassBegins ==
  ASSUME NEW p \in Seq(TrailEntries) PROVE Pending(p, Begun(p), 0) /\ Tracks(p, Begun(p), 0)
<1> DEFINE last == LatestCompaction(p)
           s == Begun(p)
           m == Sent("user", last, 0)
<1>1. last \in 0..Len(p)
  BY LatestIs DEF LastSuch
<1>2. s.out = (IF last = 0 THEN <<>> ELSE <<m>>) /\ s.reply = 0 /\ s.answered = {}
      /\ s = [out |-> s.out, reply |-> 0, answered |-> {}]
  BY DEF Begun
<1>3. m \in Outs /\ m.kind = "user"
  BY <1>1 DEF Sent, Outs
<1> HIDE DEF s, m
<1>4. s.out \in Seq(Outs) /\ \A k \in 1..Len(s.out) : s.out[k].kind = "user"
  <2>1. CASE last = 0
    BY <1>2, <2>1
  <2>2. CASE last # 0
    <3>1. s.out = <<m>>
      BY <1>2, <2>2
    <3>2. <<m>> \in Seq(Outs) /\ Len(<<m>>) = 1 /\ <<m>>[1] = m
      BY <1>3
    <3> QED BY <1>3, <3>1, <3>2
  <2> QED BY <2>1, <2>2
<1>5. Pending(p, s, 0)
  <2>1. AfterCalls(s.out)
    BY <1>4 DEF AfterCalls
  <2> QED BY <1>2, <1>4, <2>1 DEF Pending, IsNth, IsResult
<1>6. Tracks(p, s, 0)
  <2>1. s \in [out : Seq(Outs), reply : Nat, answered : SUBSET (Nat \X Nat)]
    <3>1. {} \in SUBSET (Nat \X Nat)
      OBVIOUS
    <3> DEFINE o == s.out
    <3>2. o \in Seq(Outs) /\ s = [out |-> o, reply |-> 0, answered |-> {}] /\ 0 \in Nat
      BY <1>2, <1>4
    <3> HIDE DEF o
    <3> QED BY ONLY <3>1, <3>2
  <2>2. \A a \in InContext(p) : a \in Nat /\ ~(a <= 0)
    BY DEF InContext
  <2> QED BY <1>2, <1>4, <2>1, <2>2 DEF Tracks, IsResult
<1> QED BY <1>5, <1>6 DEF s

\* An entry that is not in the context.
LEMMA PassOver ==
  ASSUME NEW p \in Seq(TrailEntries), NEW i \in 1..Len(p), i \notin InContext(p), NEW s,
         Pending(p, s, i - 1), Tracks(p, s, i - 1)
  PROVE  Pending(p, s, i) /\ Tracks(p, s, i)
<1>1. Pending(p, s, i)
  <2>1. \A x \in 0..(i - 1) : x \in 0..i
    OBVIOUS
  <2>2. \A x \in 1..(i - 1) : x \in 1..i
    OBVIOUS
  <2> QED BY <2>1, <2>2 DEF Pending
<1>2. Tracks(p, s, i)
  <2>1. i \in Nat \ {0}
    OBVIOUS
  <2> DEFINE c == Cardinality(Counted(p, i, s.reply))
             b == Cardinality(Counted(p, i - 1, s.reply))
  <2>2. b \in Nat /\ c \in Nat /\ b <= c
    BY <2>1, CountedIs
  <2> HIDE DEF b, c
  <2>3. /\ s \in [out : Seq(Outs), reply : Nat, answered : SUBSET (Nat \X Nat)]
        /\ \A k \in 1..Len(s.out) : IsResult(s.out, k, s.reply) => s.out[k].nth <= b
    BY DEF Tracks, b
  <2>4. ASSUME NEW k \in 1..Len(s.out), IsResult(s.out, k, s.reply) PROVE s.out[k].nth <= c
    <3>1. s.out[k] \in Outs
      BY <2>3
    <3>2. s.out[k].nth \in Nat /\ s.out[k].nth <= b
      BY <2>3, <2>4, <3>1 DEF Outs
    <3> QED BY <2>2, <3>2
  <2>5. ASSUME NEW a \in InContext(p), a <= i, p[a].kind = "assistant", ~p[a].failed, Only(p, a, i) PROVE s.reply = a
    <3>1. a \in Nat /\ a # i
      BY DEF InContext
    <3>2. a <= i - 1 /\ Only(p, a, i - 1)
      <4>1. \A j \in (a + 1)..(i - 1) : j \in (a + 1)..i
        BY <3>1
      <4> QED BY <2>5, <3>1, <4>1 DEF Only
    <3> QED BY <2>5, <3>2 DEF Tracks
  <2> QED BY <2>3, <2>4, <2>5 DEF Tracks, c
<1> QED BY <1>1, <1>2

\* A result of the context: of the last reply that was sent, and one it does not have.
LEMMA PassResult ==
  ASSUME NEW p \in Seq(TrailEntries), Sounds(p), NEW i \in InContext(p), p[i].kind = "toolResult", NEW s,
         Pending(p, s, i - 1), Tracks(p, s, i - 1)
  PROVE  Pending(p, Transformed(p, s, i), i) /\ Tracks(p, Transformed(p, s, i), i)
<1> DEFINE a == p[i].of
           m == p[i].nth
           out == s.out
           x == Sent("toolResult", a, m)
           w == <<x>>
           t == Transformed(p, s, i)
           c == Cardinality(Counted(p, i, a))
           b == Cardinality(Counted(p, i - 1, a))
<1>1. /\ i \in 1..Len(p) /\ a \in 1..(i - 1) /\ a \in InContext(p) /\ p[a].kind = "assistant" /\ ~p[a].failed
      /\ Only(p, a, i - 1) /\ m = c /\ m \in Nat
  BY ReplyInContext
<1>2. a <= i - 1 /\ i \in Nat \ {0} /\ a \in Nat /\ a # 0 /\ a \in 1..i /\ a \in 0..i
  BY <1>1
<1>3. s.reply = a
  BY <1>1, <1>2 DEF Tracks
<1>4. b \in Nat /\ c \in Nat /\ b <= c /\ c = b + 1
  BY <1>2, CountedIs
<1>5. t = [s EXCEPT !.out = Append(@, x), !.answered = @ \cup {<<a, m>>}]
  BY DEF Transformed
<1>6. /\ s \in [out : Seq(Outs), reply : Nat, answered : SUBSET (Nat \X Nat)]
      /\ \A k \in 1..Len(out) : IsResult(out, k, a) => out[k].nth <= b
  BY <1>3 DEF Tracks
<1> HIDE DEF x, b, c
<1>7. t.out = Append(out, x) /\ t.reply = a /\ t.answered = s.answered \cup {<<a, m>>}
      /\ t = [out |-> t.out, reply |-> t.reply, answered |-> t.answered]
  <2> HIDE DEF a, m, t
  <2> QED BY <1>3, <1>5, <1>6
<1>8. /\ out \in Seq(Outs) /\ AfterCalls(out)
      /\ \A k \in 1..Len(out) : out[k].kind # "user" => out[k].of \in 1..(i - 1)
      /\ \A k \in 1..Len(out) : out[k].kind = "assistant" /\ out[k].of # a => AllAnswered(p, out, out[k].of)
      /\ \E y : EndsWith(out, y, a)
      /\ \A h : <<a, h>> \in s.answered <=> \E k \in 1..Len(out) : IsNth(out, k, a, h)
      /\ \A j, k \in 1..Len(out) : IsResult(out, j, a) /\ IsResult(out, k, a) /\ out[j].nth = out[k].nth => j = k
  BY <1>2, <1>3 DEF Pending
<1>9. x \in Outs /\ x.kind = "toolResult" /\ x.of = a /\ x.nth = m
  BY <1>1, <1>2 DEF x, Sent, Outs
<1>10. w \in Seq(Outs) /\ Append(out, x) = out \o w /\ Len(w) = 1 /\ w[1] = x
  BY <1>8, <1>9, OneMore
<1> HIDE DEF w
<1>11. \A j \in 1..Len(w) : j = 1 /\ w[j] = x
  BY <1>10
<1> DEFINE q == out \o w
           n == Len(out) + 1
<1>12. /\ q \in Seq(Outs) /\ t.out = q /\ Len(q) = n /\ n \in Nat /\ Len(out) \in Nat
       /\ \A k \in 1..Len(out) : q[k] = out[k]
       /\ q[n] = x
  <2>1. /\ q \in Seq(Outs) /\ Len(q) = Len(out) + Len(w) /\ Len(out) \in Nat
        /\ \A k \in 1..Len(out) : q[k] = out[k]
        /\ \A k \in (Len(out) + 1)..(Len(out) + Len(w)) : q[k] = w[k - Len(out)]
    BY <1>8, <1>10, JoinedIs
  <2> HIDE DEF q
  <2>2. n \in (Len(out) + 1)..(Len(out) + Len(w)) /\ n - Len(out) = 1
    BY <1>10, <2>1
  <2>3. q[n] = x
    BY <1>10, <2>1, <2>2
  <2> QED BY <1>7, <1>10, <2>1, <2>3 DEF q
<1>13. ASSUME NEW k \in 1..n PROVE (k \in 1..Len(out) /\ q[k] = out[k]) \/ (k = n /\ q[k] = x)
  <2>1. Len(out) \in Nat /\ n = Len(out) + 1
    BY <1>12
  <2>2. k \in 1..Len(out) \/ k = n
    BY <2>1
  <2> HIDE DEF q, n, out
  <2> QED BY <1>12, <2>2
<1> HIDE DEF q, n, t, a, m, out
<1>14. AfterCalls(q)
  <2>1. PICK y : EndsWith(out, y, a)
    BY <1>8
  <2>2. \A j \in 1..Len(w) : IsResult(w, j, a)
    BY <1>9, <1>11 DEF IsResult
  <2> QED BY <1>8, <1>10, <2>1, <2>2, AfterCallsGrows DEF q
<1>15. ASSUME NEW k \in 1..n, q[k].kind # "user" PROVE q[k].of \in 1..i
  <2>1. \A h \in 1..(i - 1) : h \in 1..i
    BY <1>2
  <2> QED BY <1>2, <1>8, <1>9, <1>13, <1>15, <2>1
<1>16. ASSUME NEW k \in 1..n, q[k].kind = "assistant", q[k].of # a PROVE AllAnswered(p, q, q[k].of)
  <2> DEFINE o == q[k].of
  <2>1. k \in 1..Len(out) /\ q[k] = out[k]
    BY <1>9, <1>13, <1>16
  <2>2. AllAnswered(p, out, o)
    BY <1>8, <1>16, <2>1
  <2>3. ASSUME NEW h \in 1..p[o].calls PROVE Once(q, o, h)
    <3>1. \A j \in 1..Len(w) : ~IsNth(w, j, o, h)
      BY <1>9, <1>11, <1>16 DEF IsNth, IsResult
    <3>2. Once(out, o, h)
      BY <2>2 DEF AllAnswered
    <3> QED BY <1>8, <1>10, <3>1, <3>2, OnceLeft DEF q
  <2> QED BY <2>3 DEF AllAnswered
<1>17. \E y : EndsWith(q, y, a)
  <2>1. PICK y : EndsWith(out, y, a)
    BY <1>8
  <2>2. y \in 1..Len(out) /\ out[y].kind = "assistant" /\ out[y].of = a /\ \A j \in (y + 1)..Len(out) : IsResult(out, j, a)
    BY <2>1 DEF EndsWith
  <2>3. y \in 1..Len(q) /\ q[y].kind = "assistant" /\ q[y].of = a
    BY <1>12, <2>2 DEF n
  <2>4. ASSUME NEW j \in (y + 1)..Len(q) PROVE IsResult(q, j, a)
    <3>1. j \in 1..n
      BY <1>12, <2>2
    <3>2. CASE j \in 1..Len(out) /\ q[j] = out[j]
      <4>1. j \in (y + 1)..Len(out)
        BY <2>2, <3>2
      <4> QED BY <2>2, <3>2, <4>1 DEF IsResult
    <3>3. CASE q[j] = x
      BY <1>9, <3>3 DEF IsResult
    <3> QED BY <1>13, <3>1, <3>2, <3>3
  <2> QED BY <2>3, <2>4 DEF EndsWith
<1>18. \A h : <<a, h>> \in t.answered <=> \E k \in 1..n : IsNth(q, k, a, h)
  <2>1. ASSUME NEW h, <<a, h>> \in t.answered PROVE \E k \in 1..n : IsNth(q, k, a, h)
    <3>1. CASE <<a, h>> \in s.answered
      <4>1. PICK k \in 1..Len(out) : IsNth(out, k, a, h)
        BY <1>8, <3>1
      <4>2. k \in 1..n /\ IsNth(q, k, a, h)
        BY <1>12, <4>1 DEF IsNth, IsResult, n
      <4> QED BY <4>2
    <3>2. CASE h = m
      <4>1. n \in 1..n /\ IsNth(q, n, a, h)
        BY <1>9, <1>12, <3>2 DEF IsNth, IsResult, n
      <4> QED BY <4>1
    <3> QED BY <1>7, <2>1, <3>1, <3>2
  <2>2. ASSUME NEW h, NEW k \in 1..n, IsNth(q, k, a, h) PROVE <<a, h>> \in t.answered
    <3>1. CASE k \in 1..Len(out) /\ q[k] = out[k]
      <4>1. IsNth(out, k, a, h)
        BY <2>2, <3>1 DEF IsNth, IsResult
      <4> QED BY <1>7, <1>8, <3>1, <4>1
    <3>2. CASE q[k] = x
      <4>1. h = m
        BY <1>9, <2>2, <3>2 DEF IsNth
      <4> QED BY <1>7, <4>1
    <3> QED BY <1>13, <3>1, <3>2
  <2> QED BY <2>1, <2>2
<1>19. ASSUME NEW k \in 1..Len(out), IsResult(out, k, a) PROVE out[k].nth # m
  <2>1. out[k] \in Outs
    BY <1>8
  <2>2. out[k].nth \in Nat /\ out[k].nth <= b
    BY <1>6, <1>19, <2>1 DEF Outs
  <2> QED BY <1>1, <1>4, <2>2
<1>20. ASSUME NEW j \in 1..n, NEW k \in 1..n, IsResult(q, j, a), IsResult(q, k, a), q[j].nth = q[k].nth PROVE j = k
  <2>1. ASSUME NEW g \in 1..Len(out), q[g] = out[g], IsResult(q, g, a) PROVE IsResult(out, g, a) /\ q[g].nth # m
    BY <1>19, <2>1 DEF IsResult
  <2>2. CASE j \in 1..Len(out) /\ q[j] = out[j] /\ k \in 1..Len(out) /\ q[k] = out[k]
    <3>1. IsResult(out, j, a) /\ IsResult(out, k, a)
      BY <1>20, <2>1, <2>2
    <3> QED BY <1>8, <1>20, <2>2, <3>1
  <2> QED BY <1>9, <1>13, <1>20, <2>1, <2>2
<1>21. Pending(p, t, i)
  BY <1>2, <1>7, <1>12, <1>14, <1>15, <1>16, <1>17, <1>18, <1>20 DEF Pending
<1>22. Tracks(p, t, i)
  <2>1. t \in [out : Seq(Outs), reply : Nat, answered : SUBSET (Nat \X Nat)]
    <3> DEFINE A == t.answered
    <3>1. A \in SUBSET (Nat \X Nat)
      BY <1>1, <1>2, <1>6, <1>7
    <3>2. t = [out |-> q, reply |-> a, answered |-> A] /\ q \in Seq(Outs) /\ a \in Nat
      BY <1>2, <1>7, <1>12
    <3> HIDE DEF A
    <3> QED BY ONLY <3>1, <3>2
  <2>2. ASSUME NEW k \in 1..n, IsResult(q, k, a) PROVE q[k].nth <= c
    <3>1. CASE k \in 1..Len(out) /\ q[k] = out[k]
      <4>1. IsResult(out, k, a) /\ out[k] \in Outs
        BY <1>8, <2>2, <3>1 DEF IsResult
      <4>2. out[k].nth \in Nat /\ out[k].nth <= b
        BY <1>6, <3>1, <4>1 DEF Outs
      <4> QED BY <1>4, <3>1, <4>2
    <3>2. CASE q[k] = x
      BY <1>1, <1>4, <1>9, <3>2
    <3> QED BY <1>13, <3>1, <3>2
  <2>3. ASSUME NEW d \in InContext(p), d <= i, p[d].kind = "assistant", Only(p, d, i) PROVE d = a
    <3>1. d \in Nat /\ d # i
      BY <2>3 DEF InContext
    <3>2. i \in (d + 1)..i /\ IsShown(p[i])
      BY <1>2, <2>3, <3>1, KindsAre
    <3> QED BY <2>3, <3>2 DEF Only, a
  <2> QED BY <1>7, <1>12, <2>1, <2>2, <2>3 DEF Tracks, c
<1> QED BY <1>21, <1>22 DEF t

\* A message that is no result: what was sent before it is closed.
LEMMA NextPending ==
  ASSUME NEW p, NEW i \in Nat \ {0}, NEW c, Closed(p, c, i - 1), NEW x \in Outs, NEW t, t.answered = {},
         \/ t.out = c /\ t.reply = 0
         \/ t.out = Append(c, x) /\ x.kind = "user" /\ t.reply = 0
         \/ t.out = Append(c, x) /\ x.kind = "assistant" /\ x.of = i /\ t.reply = i
  PROVE  Pending(p, t, i)
<1>1. /\ c \in Seq(Outs) /\ AfterCalls(c)
      /\ \A k \in 1..Len(c) : c[k].kind # "user" => c[k].of \in 1..(i - 1)
      /\ \A k \in 1..Len(c) : c[k].kind = "assistant" => AllAnswered(p, c, c[k].of)
  BY DEF Closed
<1>2. /\ i \in 1..i /\ i \in 0..i /\ 0 \in 0..i /\ 0 \notin 1..i
      /\ \A h \in 1..(i - 1) : h \in 1..i /\ h # i
  OBVIOUS
<1> DEFINE w == <<x>>
           q == c \o w
           n == Len(c) + 1
<1>3. w \in Seq(Outs) /\ Append(c, x) = q /\ Len(w) = 1 /\ w[1] = x
  BY <1>1, OneMore
<1> HIDE DEF w
<1>4. \A j \in 1..Len(w) : w[j] = x
  BY <1>3
<1>5. /\ q \in Seq(Outs) /\ Len(q) = n /\ n \in Nat /\ Len(c) \in Nat
      /\ \A k \in 1..Len(c) : q[k] = c[k]
      /\ q[n] = x
  <2>1. /\ q \in Seq(Outs) /\ Len(q) = Len(c) + Len(w) /\ Len(c) \in Nat
        /\ \A k \in 1..Len(c) : q[k] = c[k]
        /\ \A k \in (Len(c) + 1)..(Len(c) + Len(w)) : q[k] = w[k - Len(c)]
    BY <1>1, <1>3, JoinedIs
  <2> HIDE DEF q
  <2>2. n \in (Len(c) + 1)..(Len(c) + Len(w)) /\ n - Len(c) = 1
    BY <1>3, <2>1
  <2>3. q[n] = x
    BY <1>3, <2>1, <2>2
  <2> QED BY <1>3, <2>1, <2>3
<1>6. ASSUME NEW k \in 1..n PROVE (k \in 1..Len(c) /\ q[k] = c[k]) \/ (k = n /\ q[k] = x)
  <2> HIDE DEF q
  <2>1. k \in 1..Len(c) \/ k = n
    BY <1>5
  <2> HIDE DEF n
  <2> QED BY <1>5, <2>1
<1> HIDE DEF q, n
<1>7. CASE t.out = c /\ t.reply = 0
  <2>1. \A k \in 1..Len(c) : ~IsResult(c, k, 0)
    BY <1>1, <1>2 DEF IsResult
  <2>2. \A k \in 1..Len(c) : c[k].kind # "user" => c[k].of \in 1..i
    BY <1>1, <1>2
  <2> QED BY <1>1, <1>2, <1>7, <2>1, <2>2 DEF Pending, IsNth
<1>8. ASSUME x.kind # "toolResult" PROVE AfterCalls(q)
  <2>1. \A j \in 1..Len(w) : w[j].kind # "toolResult"
    BY <1>4, <1>8
  <2> QED BY <1>1, <1>3, <2>1, AfterCallsGrows DEF q
<1>9. ASSUME x.kind # "toolResult", NEW k \in 1..Len(c), c[k].kind = "assistant" PROVE AllAnswered(p, q, c[k].of)
  <2> DEFINE o == c[k].of
  <2>1. AllAnswered(p, c, o)
    BY <1>1, <1>9
  <2>2. ASSUME NEW h \in 1..p[o].calls PROVE Once(q, o, h)
    <3>1. \A j \in 1..Len(w) : ~IsNth(w, j, o, h)
      BY <1>4, <1>9 DEF IsNth, IsResult
    <3>2. Once(c, o, h)
      BY <2>1 DEF AllAnswered
    <3> QED BY <1>1, <1>3, <3>1, <3>2, OnceLeft DEF q
  <2> QED BY <2>2 DEF AllAnswered
<1>10. CASE t.out = Append(c, x) /\ x.kind = "user" /\ t.reply = 0
  <2>1. ASSUME NEW k \in 1..n, q[k].kind # "user" PROVE k \in 1..Len(c) /\ q[k] = c[k] /\ q[k].of \in 1..i
    <3>1. k \in 1..Len(c) /\ q[k] = c[k]
      BY <1>6, <1>10, <2>1
    <3> QED BY <1>1, <1>2, <2>1, <3>1
  <2>2. \A k \in 1..n : ~IsResult(q, k, 0)
    BY <1>2, <2>1 DEF IsResult
  <2>3. \A k \in 1..n : q[k].kind = "assistant" => AllAnswered(p, q, q[k].of)
    BY <1>9, <1>10, <2>1
  <2> QED BY <1>2, <1>3, <1>5, <1>8, <1>10, <2>1, <2>2, <2>3 DEF Pending, IsNth
<1>11. CASE t.out = Append(c, x) /\ x.kind = "assistant" /\ x.of = i /\ t.reply = i
  <2>1. ASSUME NEW k \in 1..n, q[k].kind # "user" PROVE q[k].of \in 1..i
    <3>1. CASE k \in 1..Len(c) /\ q[k] = c[k]
      BY <1>1, <1>2, <2>1, <3>1
    <3>2. CASE q[k] = x
      BY <1>2, <1>11, <3>2
    <3> QED BY <1>6, <3>1, <3>2
  <2>2. ASSUME NEW k \in 1..n PROVE ~IsResult(q, k, i)
    <3>1. CASE k \in 1..Len(c) /\ q[k] = c[k]
      BY <1>1, <1>2, <3>1 DEF IsResult
    <3>2. CASE q[k] = x
      BY <1>11, <3>2 DEF IsResult
    <3> QED BY <1>6, <3>1, <3>2
  <2>3. ASSUME NEW k \in 1..n, q[k].kind = "assistant", q[k].of # i PROVE AllAnswered(p, q, q[k].of)
    <3>1. k \in 1..Len(c) /\ q[k] = c[k]
      BY <1>6, <1>11, <2>3
    <3> QED BY <1>9, <1>11, <2>3, <3>1
  <2>4. EndsWith(q, n, i)
    <3>1. n \in 1..Len(q) /\ \A j \in (n + 1)..Len(q) : FALSE
      BY <1>5 DEF n
    <3> QED BY <1>5, <1>11, <3>1 DEF EndsWith
  <2> QED BY <1>2, <1>3, <1>5, <1>8, <1>11, <2>1, <2>2, <2>3, <2>4 DEF Pending, IsNth
<1> QED BY <1>7, <1>10, <1>11

LEMMA PassOther ==
  ASSUME NEW p \in Seq(TrailEntries), NEW i \in InContext(p), p[i].kind # "toolResult", NEW s,
         Pending(p, s, i - 1), Tracks(p, s, i - 1)
  PROVE  Pending(p, Transformed(p, s, i), i) /\ Tracks(p, Transformed(p, s, i), i)
<1> DEFINE t == Transformed(p, s, i)
           c == s.out \o Unanswered(p, s)
           e == p[i]
           reply == e.kind = "assistant" /\ ~e.failed
           x == Sent(IF reply THEN "assistant" ELSE "user", i, 0)
<1>1. i \in 1..Len(p) /\ i \in Nat \ {0} /\ i - 1 \in 0..Len(p) /\ IsShown(e)
  BY DEF InContext
<1>2. Closed(p, c, i - 1)
  BY <1>1, ClosedIs
<1> HIDE DEF c
<1>3. x \in Outs /\ x.kind = (IF reply THEN "assistant" ELSE "user") /\ x.of = i
  BY <1>1 DEF Sent, Outs
<1>4. \/ ~reply /\ t = [out |-> c, reply |-> 0, answered |-> {}]
      \/ ~reply /\ t = [out |-> Append(c, x), reply |-> 0, answered |-> {}]
      \/ reply /\ t = [out |-> Append(c, x), reply |-> i, answered |-> {}]
  BY DEF Transformed, c
<1>5. c \in Seq(Outs)
  BY <1>2 DEF Closed
<1>6. Append(c, x) \in Seq(Outs)
  BY <1>3, <1>5, AppendProperties
<1> HIDE DEF x, t, e
<1>7. /\ t.answered = {} /\ t.out \in Seq(Outs) /\ t.reply \in Nat /\ (reply => t.reply = i)
      /\ \/ t.out = c /\ t.reply = 0
         \/ t.out = Append(c, x) /\ x.kind = "user" /\ t.reply = 0
         \/ t.out = Append(c, x) /\ x.kind = "assistant" /\ x.of = i /\ t.reply = i
      /\ t = [out |-> t.out, reply |-> t.reply, answered |-> {}]
  <2> DEFINE d == Append(c, x)
  <2>1. d \in Seq(Outs) /\ 0 \in Nat /\ i \in Nat
    BY <1>1, <1>6
  <2> HIDE DEF d, reply
  <2>2. CASE ~reply /\ t = [out |-> c, reply |-> 0, answered |-> {}]
    BY <1>5, <2>1, <2>2
  <2>3. CASE ~reply /\ t = [out |-> d, reply |-> 0, answered |-> {}]
    BY <1>3, <2>1, <2>3 DEF d
  <2>4. CASE reply /\ t = [out |-> d, reply |-> i, answered |-> {}]
    BY <1>3, <2>1, <2>4 DEF d
  <2> QED BY <1>4, <2>2, <2>3, <2>4 DEF d
<1>8. Pending(p, t, i)
  BY <1>1, <1>2, <1>3, <1>7, NextPending
<1>9. Tracks(p, t, i)
  <2>1. t \in [out : Seq(Outs), reply : Nat, answered : SUBSET (Nat \X Nat)]
    <3> DEFINE o == t.out
               r == t.reply
    <3>1. {} \in SUBSET (Nat \X Nat) /\ o \in Seq(Outs) /\ r \in Nat /\ t = [out |-> o, reply |-> r, answered |-> {}]
      BY <1>7
    <3> HIDE DEF o, r
    <3> QED BY ONLY <3>1
  <2>2. ASSUME NEW k \in 1..Len(t.out) PROVE ~IsResult(t.out, k, t.reply)
    <3>1. ~IsNth(t.out, k, t.reply, t.out[k].nth)
      BY <1>7, <1>8 DEF Pending
    <3> QED BY <3>1 DEF IsNth
  <2>3. ASSUME NEW a \in InContext(p), a <= i, p[a].kind = "assistant", ~p[a].failed, Only(p, a, i) PROVE t.reply = a
    <3>1. a \in Nat
      BY DEF InContext
    <3>2. CASE a = i
      BY <1>7, <2>3, <3>2 DEF e
    <3>3. CASE a # i
      <4>1. i \in (a + 1)..i
        BY <1>1, <2>3, <3>1, <3>3
      <4> QED BY <1>1, <2>3, <4>1 DEF Only, e
    <3> QED BY <3>2, <3>3
  <2> QED BY <2>1, <2>2, <2>3 DEF Tracks
<1> QED BY <1>8, <1>9 DEF t

LEMMA PassesArePending ==
  ASSUME NEW p \in Seq(TrailEntries), Sounds(p), NEW f, Passes(p, Len(p), f)
  PROVE  Pending(p, f[Len(p)], Len(p))
<1> DEFINE n == Len(p)
           T == {k \in 0..n : ~(Pending(p, f[k], k) /\ Tracks(p, f[k], k))}
<1>1. n \in Nat /\ f[0] = Begun(p) /\ \A k \in 1..n : f[k] = Passed(p, f[k - 1], k)
  BY PassesIs
<1>2. ASSUME T # {} PROVE FALSE
  <2>1. T \in SUBSET Nat
    BY <1>1
  <2>2. PICK k \in T : \A j \in T : k <= j
    <3> HIDE DEF T
    <3> QED BY <1>2, <2>1, LeastOf
  <2>3. k # 0
    BY <1>1, <2>2, PassBegins
  <2>4. k \in 1..n /\ k - 1 \in 0..n /\ k - 1 \notin T
    BY <1>1, <2>2, <2>3
  <2> DEFINE s == f[k - 1]
  <2>5. Pending(p, s, k - 1) /\ Tracks(p, s, k - 1) /\ f[k] = Passed(p, s, k)
    BY <1>1, <2>4
  <2> HIDE DEF s
  <2>6. Pending(p, f[k], k) /\ Tracks(p, f[k], k)
    <3>1. CASE k \notin InContext(p)
      <4>1. f[k] = s /\ k \in 1..Len(p)
        BY <2>4, <2>5, <3>1 DEF Passed
      <4> QED BY <2>5, <3>1, <4>1, PassOver
    <3>2. CASE k \in InContext(p)
      <4>1. f[k] = Transformed(p, s, k)
        BY <2>5, <3>2 DEF Passed
      <4> QED BY <2>5, <3>2, <4>1, PassResult, PassOther
    <3> QED BY <3>1, <3>2
  <2> QED BY <2>2, <2>6
<1>3. n \in 0..n
  BY <1>1
<1> QED BY <1>2, <1>3

LEMMA RequestIsClosed ==
  ASSUME NEW p \in Seq(TrailEntries), Sounds(p) PROVE Closed(p, Request(p), Len(p))
<1>1. PICK f : Passes(p, Len(p), f) /\ Request(p) = f[Len(p)].out \o Unanswered(p, f[Len(p)])
  BY RequestIs
<1>2. Pending(p, f[Len(p)], Len(p)) /\ Len(p) \in 0..Len(p)
  BY <1>1, PassesArePending
<1> QED BY <1>1, <1>2, ClosedIs

LEMMA SoundIsPaired == TrailInv => TrailRequestIsPaired
<1> SUFFICES ASSUME TrailInv PROVE TrailRequestIsPaired
  OBVIOUS
<1> DEFINE sent == Request(trail)
           Answers(i, k) == sent[k].kind = "toolResult" /\ sent[k].of = sent[i].of
<1>1. Closed(trail, sent, Len(trail))
  BY RequestIsClosed DEF TrailInv
<1> HIDE DEF sent
<1>2. /\ sent \in Seq(Outs) /\ AfterCalls(sent) /\ DOMAIN sent = 1..Len(sent)
      /\ \A k \in 1..Len(sent) : sent[k].kind = "assistant" => AllAnswered(trail, sent, sent[k].of)
  BY <1>1 DEF Closed
<1>3. \A k \in DOMAIN sent : sent[k].kind = "toolResult" =>
        \E i \in 1..(k - 1) : sent[i].kind = "assistant" /\ \A j \in (i + 1)..k : Answers(i, j)
  BY <1>2 DEF AfterCalls, IsResult
<1>4. ASSUME NEW i \in DOMAIN sent, sent[i].kind = "assistant", NEW n \in 1..trail[sent[i].of].calls
      PROVE  Cardinality({k \in DOMAIN sent : Answers(i, k) /\ sent[k].nth = n}) = 1
  <2>1. Once(sent, sent[i].of, n)
    BY <1>2, <1>4 DEF AllAnswered
  <2>2. PICK k \in DOMAIN sent : IsNth(sent, k, sent[i].of, n) /\ \A j \in DOMAIN sent : IsNth(sent, j, sent[i].of, n) => j = k
    BY <1>2, <2>1 DEF Once
  <2>3. {j \in DOMAIN sent : Answers(i, j) /\ sent[j].nth = n} = {k}
    BY <2>2 DEF IsNth, IsResult
  <2>4. Cardinality({k}) = 1
    BY FS_Singleton
  <2> QED BY <2>3, <2>4
<1> QED BY <1>3, <1>4 DEF TrailRequestIsPaired, sent

\* Whatever the path has been through, what transformMessages sends of it has one result for every
\* call, right after its reply, and no other results.
THEOREM RequestsArePaired == TrailSpec => []TrailRequestIsPaired
  BY PathsAreSound, SoundIsPaired, PTL

(***************************************************************************)
(* SessionManager.  Two rising enumerations of the same numbers are the    *)
(* same.                                                                   *)
(***************************************************************************)
Enumerates(p, m, J) ==
  /\ \A k \in 1..m : p[k] \in J
  /\ \A k, l \in 1..m : k < l => p[k] < p[l]
  /\ \A j \in J : \E k \in 1..m : p[k] = j

LEMMA EnumerationWithin ==
  ASSUME NEW J \in SUBSET Nat, NEW m \in Nat, NEW n \in Nat, NEW p, NEW q,
         Enumerates(p, m, J), Enumerates(q, n, J)
  PROVE  \A k \in 1..m : k \in 1..n /\ p[k] = q[k]
<1> DEFINE T == {k \in 1..m : ~(k \in 1..n /\ p[k] = q[k])}
<1> SUFFICES ASSUME T # {} PROVE FALSE
  OBVIOUS
<1>1. T \in SUBSET Nat
  OBVIOUS
<1>2. PICK k \in T : \A j \in T : k <= j
  <2> HIDE DEF T
  <2> QED BY <1>1, LeastOf
<1>3. k \in 1..m /\ ~(k \in 1..n /\ p[k] = q[k])
  OBVIOUS
<1>4. \A j \in 1..m : j < k => j \in 1..n /\ p[j] = q[j]
  BY <1>2, <1>3
<1> HIDE DEF T
<1>5. p[k] \in J /\ p[k] \in Nat
  BY <1>3 DEF Enumerates
<1>6. PICK l \in 1..n : q[l] = p[k]
  BY <1>5 DEF Enumerates
<1>7. k <= l
  <2> SUFFICES ASSUME l < k PROVE FALSE
    BY <1>3, <1>6
  <2>1. l \in 1..m
    BY <1>3, <1>6
  <2>2. p[l] = q[l] /\ p[l] < p[k]
    BY <1>3, <1>4, <2>1 DEF Enumerates
  <2> QED BY <1>5, <1>6, <2>2
<1>8. k \in 1..n
  BY <1>3, <1>6, <1>7
<1>9. q[k] \in J /\ q[k] \in Nat
  BY <1>8 DEF Enumerates
<1>10. PICK j \in 1..m : p[j] = q[k]
  BY <1>9 DEF Enumerates
<1>11. k <= j
  <2> SUFFICES ASSUME j < k PROVE FALSE
    BY <1>3, <1>10
  <2>1. j \in 1..n /\ p[j] = q[j]
    BY <1>4, <1>10
  <2>2. q[j] < q[k]
    BY <1>8, <2>1 DEF Enumerates
  <2> QED BY <1>9, <1>10, <2>1, <2>2
<1>12. q[k] <= q[l]
  BY <1>6, <1>7, <1>8, <1>5, <1>9 DEF Enumerates
<1>13. p[k] <= p[j]
  BY <1>3, <1>10, <1>11, <1>5, <1>9 DEF Enumerates
<1> QED BY <1>3, <1>5, <1>6, <1>8, <1>9, <1>10, <1>12, <1>13

LEMMA EnumerationsAgree ==
  ASSUME NEW J \in SUBSET Nat, NEW m \in Nat, NEW n \in Nat, NEW p, NEW q,
         Enumerates(p, m, J), Enumerates(q, n, J)
  PROVE  m = n /\ \A k \in 1..m : p[k] = q[k]
<1>1. \A k \in 1..m : k \in 1..n /\ p[k] = q[k]
  BY EnumerationWithin
<1>2. \A k \in 1..n : k \in 1..m
  BY EnumerationWithin
<1>3. (m # 0 => m \in 1..m) /\ (n # 0 => n \in 1..n)
  OBVIOUS
<1> QED BY <1>1, <1>2, <1>3

(***************************************************************************)
(* What Chosen and getBranch compute, as recursive functions.              *)
(***************************************************************************)
Choice(s, I, x, n) == IF n \in I THEN Append(x, s[n]) ELSE x
Chooses(s, I, k, f) == f = [n \in 0..k |-> IF n = 0 THEN <<>> ELSE Choice(s, I, f[n - 1], n)]

LEMMA ChoosesIs ==
  ASSUME NEW s, NEW I, NEW k \in Nat, NEW f, Chooses(s, I, k, f)
  PROVE  f[0] = <<>> /\ \A n \in 1..k : f[n] = Choice(s, I, f[n - 1], n)
<1> DEFINE F(n) == IF n = 0 THEN <<>> ELSE Choice(s, I, f[n - 1], n)
<1>1. f = [n \in 0..k |-> F(n)]
  BY DEF Chooses
<1>2. \A n \in 0..k : f[n] = F(n)
  <2> HIDE DEF F
  <2> QED BY <1>1
<1>3. 0 \in 0..k /\ \A n \in 1..k : n \in 0..k /\ n # 0
  OBVIOUS
<1> QED BY <1>2, <1>3

LEMMA ChoosesExists ==
  ASSUME NEW s, NEW I, NEW k \in Nat PROVE \E f : Chooses(s, I, k, f)
<1> DEFINE T == {m \in Nat : ~\E f : Chooses(s, I, m, f)}
<1> SUFFICES ASSUME k \in T PROVE FALSE
  OBVIOUS
<1>1. PICK m \in T : \A j \in T : m <= j
  BY LeastOf
<1>2. CASE m = 0
  <2> DEFINE f == [n \in 0..0 |-> <<>>]
  <2>1. Chooses(s, I, 0, f)
    BY DEF Chooses
  <2> QED BY <1>1, <1>2, <2>1
<1>3. CASE m # 0
  <2>1. m \in Nat /\ m - 1 \in Nat /\ m - 1 \notin T
    BY <1>1, <1>3
  <2>2. PICK g : Chooses(s, I, m - 1, g)
    BY <2>1
  <2> DEFINE last == Choice(s, I, g[m - 1], m)
             f == [n \in 0..m |-> IF n = m THEN last ELSE g[n]]
  <2>3. g[0] = <<>> /\ \A n \in 1..(m - 1) : g[n] = Choice(s, I, g[n - 1], n)
    <3> DEFINE k1 == m - 1
    <3>1. k1 \in Nat /\ Chooses(s, I, k1, g)
      BY <2>1, <2>2
    <3> HIDE DEF k1, T
    <3>2. g[0] = <<>> /\ \A n \in 1..k1 : g[n] = Choice(s, I, g[n - 1], n)
      <4>1. ASSUME NEW J, NEW h, Chooses(s, J, k1, h) PROVE h[0] = <<>>
        BY <3>1, <4>1, ChoosesIs
      <4>2. ASSUME NEW J, NEW h, Chooses(s, J, k1, h) PROVE \A n \in 1..k1 : h[n] = Choice(s, J, h[n - 1], n)
        BY <3>1, <4>2, ChoosesIs
      <4> QED BY <3>1, <4>1, <4>2
    <3> QED BY <3>2 DEF k1
  <2>4. \A n \in 0..m : f[n] = IF n = 0 THEN <<>> ELSE Choice(s, I, f[n - 1], n)
    <3> SUFFICES ASSUME NEW n \in 0..m PROVE f[n] = IF n = 0 THEN <<>> ELSE Choice(s, I, f[n - 1], n)
      OBVIOUS
    <3>1. CASE n = 0
      BY <1>3, <2>1, <2>3, <3>1
    <3>2. CASE n = m
      <4>1. f[n] = last /\ m - 1 \in 0..m /\ m - 1 # m
        BY <2>1, <3>2
      <4>2. f[n - 1] = g[n - 1]
        BY <3>2, <4>1
      <4> QED BY <1>3, <3>2, <4>1, <4>2
    <3>3. CASE n \in 1..(m - 1)
      <4>1. n # m /\ n # 0 /\ n \in 0..m /\ n - 1 \in 0..m /\ n - 1 # m
        BY <2>1, <3>3
      <4>2. f[n] = g[n] /\ f[n - 1] = g[n - 1]
        BY <4>1
      <4> HIDE DEF f
      <4> QED BY <2>3, <3>3, <4>1, <4>2
    <3> QED BY <2>1, <3>1, <3>2, <3>3
  <2>5. Chooses(s, I, m, f)
    <3> HIDE DEF last
    <3>1. f = [n \in 0..m |-> f[n]]
      OBVIOUS
    <3> HIDE DEF f
    <3> QED BY <2>4, <3>1 DEF Chooses
  <2> QED BY <1>1, <2>5
<1> QED BY <1>2, <1>3

LEMMA ChosenIs ==
  ASSUME NEW s, NEW I, Len(s) \in Nat
  PROVE  \E f : /\ Chosen(s, I) = f[Len(s)] /\ f[0] = <<>>
                /\ \A n \in 1..Len(s) : f[n] = Choice(s, I, f[n - 1], n)
<1> DEFINE k == Len(s)
           f == CHOOSE f : Chooses(s, I, k, f)
<1>1. Chosen(s, I) = f[k]
  BY DEF Chosen, Chooses, Choice
<1>2. Chooses(s, I, k, f)
  <2> HIDE DEF k
  <2>1. \E g : Chooses(s, I, k, g)
    BY ChoosesExists DEF k
  <2> QED BY <2>1
<1> HIDE DEF f
<1>3. f[0] = <<>> /\ \A n \in 1..k : f[n] = Choice(s, I, f[n - 1], n)
  BY <1>2, ChoosesIs
<1> QED BY <1>1, <1>3

(***************************************************************************)
(* Chosen: the elements at the places of a set, in the order of those.     *)
(***************************************************************************)
Places(s, I) == {i \in 1..Len(s) : i \in I}
Picks(s, J, r, p) == Enumerates(p, Len(r), J) /\ \A k \in 1..Len(r) : r[k] = s[p[k]]
Picked(s, J, r) == \E p : Picks(s, J, r, p)

LEMMA PickedOnce ==
  ASSUME NEW S, NEW s, NEW J \in SUBSET Nat, NEW r \in Seq(S), NEW t \in Seq(S), Picked(s, J, r), Picked(s, J, t)
  PROVE  r = t
<1>1. PICK p : Picks(s, J, r, p)
  BY DEF Picked
<1>2. PICK q : Picks(s, J, t, q)
  BY DEF Picked
<1>3. Len(r) \in Nat /\ Len(t) \in Nat /\ Enumerates(p, Len(r), J) /\ Enumerates(q, Len(t), J)
  BY <1>1, <1>2 DEF Picks
<1>4. Len(r) = Len(t) /\ \A k \in 1..Len(r) : p[k] = q[k]
  <2> DEFINE m == Len(r)
             n == Len(t)
  <2>1. m \in Nat /\ n \in Nat /\ Enumerates(p, m, J) /\ Enumerates(q, n, J)
    BY <1>3
  <2> HIDE DEF m, n
  <2>2. m = n /\ \A k \in 1..m : p[k] = q[k]
    BY <2>1, EnumerationsAgree
  <2> QED BY <2>2 DEF m, n
<1>5. \A k \in 1..Len(r) : r[k] = t[k]
  BY <1>1, <1>2, <1>4 DEF Picks
<1> QED BY <1>4, <1>5, SeqEqual

\* One place more, after all others.
LEMMA PickMore ==
  ASSUME NEW S, NEW s, NEW J \in SUBSET Nat, NEW r \in Seq(S), Picked(s, J, r),
         NEW n \in Nat, s[n] \in S, \A j \in J : j < n
  PROVE  Append(r, s[n]) \in Seq(S) /\ Picked(s, J \cup {n}, Append(r, s[n]))
<1>1. PICK p : Picks(s, J, r, p)
  BY DEF Picked
<1> DEFINE m == Len(r)
           t == Append(r, s[n])
           q == [k \in 1..(m + 1) |-> IF k = m + 1 THEN n ELSE p[k]]
<1>2. m \in Nat /\ t \in Seq(S) /\ Len(t) = m + 1 /\ t[m + 1] = s[n] /\ \A k \in 1..m : t[k] = r[k]
  BY AppendProperties
<1>3. q[m + 1] = n /\ \A k \in 1..m : q[k] = p[k]
  BY <1>2
<1>4. /\ \A k \in 1..m : p[k] \in J /\ r[k] = s[p[k]]
      /\ \A k, l \in 1..m : k < l => p[k] < p[l]
      /\ \A j \in J : \E k \in 1..m : p[k] = j
  BY <1>1 DEF Picks, Enumerates
<1> HIDE DEF m, t, q
<1>5. \A k \in 1..(m + 1) : k = m + 1 \/ k \in 1..m
  BY <1>2
<1>6. \A k \in 1..(m + 1) : q[k] \in J \cup {n} /\ t[k] = s[q[k]]
  BY <1>2, <1>3, <1>4, <1>5
<1>7. \A k, l \in 1..(m + 1) : k < l => q[k] < q[l]
  <2> SUFFICES ASSUME NEW k \in 1..(m + 1), NEW l \in 1..(m + 1), k < l PROVE q[k] < q[l]
    OBVIOUS
  <2>1. k \in 1..m
    BY <1>2
  <2>2. CASE l = m + 1
    BY <1>3, <1>4, <2>1, <2>2
  <2>3. CASE l \in 1..m
    BY <1>3, <1>4, <2>1, <2>3
  <2> QED BY <1>5, <2>2, <2>3
<1>8. \A j \in J \cup {n} : \E k \in 1..(m + 1) : q[k] = j
  <2>1. m + 1 \in 1..(m + 1) /\ \A k \in 1..m : k \in 1..(m + 1)
    BY <1>2
  <2> QED BY <1>3, <1>4, <2>1
<1>9. Picks(s, J \cup {n}, t, q)
  BY <1>2, <1>6, <1>7, <1>8 DEF Picks, Enumerates
<1> QED BY <1>2, <1>9 DEF Picked, t

LEMMA ChosenPicked ==
  ASSUME NEW S, NEW s \in Seq(S), NEW I
  PROVE  Chosen(s, I) \in Seq(S) /\ Picked(s, Places(s, I), Chosen(s, I))
<1> DEFINE n == Len(s)
           J(k) == {i \in 1..k : i \in I}
<1>1. n \in Nat /\ \A k \in 1..n : s[k] \in S
  OBVIOUS
<1>2. PICK f : Chosen(s, I) = f[n] /\ f[0] = <<>> /\ \A k \in 1..n : f[k] = Choice(s, I, f[k - 1], k)
  BY <1>1, ChosenIs
<1> HIDE DEF n
<1> DEFINE T == {k \in 0..n : ~(f[k] \in Seq(S) /\ Picked(s, J(k), f[k]))}
<1>3. T = {}
  <2> SUFFICES ASSUME T # {} PROVE FALSE
    OBVIOUS
  <2>1. T \in SUBSET Nat
    BY <1>1
  <2>2. PICK k \in T : \A j \in T : k <= j
    <3> HIDE DEF T
    <3> QED BY <2>1, LeastOf
  <2>3. k \in 0..n /\ ~(f[k] \in Seq(S) /\ Picked(s, J(k), f[k]))
    OBVIOUS
  <2>4. k # 0 => f[k - 1] \in Seq(S) /\ Picked(s, J(k - 1), f[k - 1])
    <3> SUFFICES ASSUME k # 0 PROVE k - 1 \notin T /\ k - 1 \in 0..n
      OBVIOUS
    <3>1. k - 1 \in 0..n /\ ~(k <= k - 1)
      BY <1>1, <2>3
    <3> QED BY <2>2, <3>1
  <2> HIDE DEF T, J
  <2>5. CASE k = 0
    <3>0. J(k) = {}
      BY <2>5 DEF J
    <3>a. f[k] = <<>> /\ <<>> \in Seq(S) /\ Len(<<>>) = 0
      BY <1>2, <2>5
    <3>1. J(k) = {} /\ f[k] = <<>> /\ f[k] \in Seq(S) /\ Len(f[k]) = 0
      BY ONLY <3>0, <3>a
    <3>2. Picks(s, J(k), f[k], s)
      BY <3>1 DEF Picks, Enumerates
    <3> QED BY <2>3, <3>1, <3>2 DEF Picked
  <2>6. CASE k # 0
    <3>1. k \in 1..n /\ k \in Nat
      BY <1>1, <2>3, <2>6
    <3>2. f[k] = Choice(s, I, f[k - 1], k) /\ s[k] \in S
      BY <1>1, <1>2, <3>1
    <3>3. J(k - 1) \in SUBSET Nat /\ \A j \in J(k - 1) : j < k
      BY <3>1 DEF J
    <3>4. CASE k \in I
      <4>1. J(k) = J(k - 1) \cup {k}
        BY <3>1, <3>4 DEF J
      <4>2. f[k] = Append(f[k - 1], s[k])
        BY <3>2, <3>4 DEF Choice
      <4> DEFINE x == f[k - 1]
                 K == J(k - 1)
      <4>3. K \in SUBSET Nat /\ x \in Seq(S) /\ Picked(s, K, x) /\ k \in Nat /\ s[k] \in S /\ \A j \in K : j < k
        BY <2>4, <2>6, <3>1, <3>2, <3>3
      <4> HIDE DEF x, K
      <4>4. Append(x, s[k]) \in Seq(S) /\ Picked(s, K \cup {k}, Append(x, s[k]))
        BY ONLY <4>3, PickMore
      <4> QED BY <2>3, <4>1, <4>2, <4>4 DEF x, K
    <3>5. CASE k \notin I
      <4>1. J(k) = J(k - 1)
        BY <3>1, <3>5 DEF J
      <4>2. f[k] = f[k - 1]
        BY <3>2, <3>5 DEF Choice
      <4> QED BY <2>3, <2>4, <2>6, <4>1, <4>2
    <3> QED BY <3>4, <3>5
  <2> QED BY <2>5, <2>6
<1>4. n \in 0..n
  BY <1>1
<1>5. f[n] \in Seq(S) /\ Picked(s, J(n), f[n])
  BY <1>3, <1>4
<1>6. J(n) = Places(s, I)
  BY DEF Places, n
<1> HIDE DEF J
<1> QED BY <1>2, <1>5, <1>6

LEMMA PlacesAre == ASSUME NEW S, NEW s \in Seq(S), NEW I PROVE Places(s, I) \in SUBSET Nat
  BY DEF Places

\* What is left out of nothing is all of it.
LEMMA ChosenWhole ==
  ASSUME NEW S, NEW s \in Seq(S), NEW I, \A i \in 1..Len(s) : i \in I
  PROVE  Chosen(s, I) = s
<1>1. Chosen(s, I) \in Seq(S) /\ Picked(s, Places(s, I), Chosen(s, I))
  BY ChosenPicked
<1> DEFINE p == [k \in 1..Len(s) |-> k]
<1>2. Picks(s, Places(s, I), s, p)
  BY DEF Picks, Places, Enumerates
<1>3. Picked(s, Places(s, I), s)
  BY <1>2 DEF Picked
<1> QED BY <1>1, <1>3, PlacesAre, PickedOnce

\* One element more.
LEMMA ChosenAppend ==
  ASSUME NEW S, NEW s \in Seq(S), NEW e \in S, NEW I, NEW J, \A i \in 1..Len(s) : i \in I <=> i \in J
  PROVE  Chosen(Append(s, e), J) = IF Len(s) + 1 \in J THEN Append(Chosen(s, I), e) ELSE Chosen(s, I)
<1> DEFINE t == Append(s, e)
           n == Len(s) + 1
           r == Chosen(s, I)
<1>1. t \in Seq(S) /\ Len(t) = n /\ t[n] = e /\ n \in Nat /\ \A i \in 1..Len(s) : t[i] = s[i]
  BY AppendProperties
<1>2. r \in Seq(S) /\ Picked(s, Places(s, I), r)
  BY ChosenPicked
<1> HIDE DEF t, r
<1>3. Places(s, I) \in SUBSET Nat /\ \A j \in Places(s, I) : j < n /\ j \in 1..Len(s)
  BY DEF Places
<1>4. PICK p : Picks(s, Places(s, I), r, p)
  BY <1>2 DEF Picked
<1>5. Picks(t, Places(s, I), r, p)
  <2>1. \A k \in 1..Len(r) : p[k] \in Places(s, I) /\ r[k] = s[p[k]]
    BY <1>4 DEF Picks, Enumerates
  <2>2. \A k \in 1..Len(r) : r[k] = t[p[k]]
    BY <1>1, <1>3, <2>1
  <2> QED BY <1>4, <2>2 DEF Picks
<1>6. Picked(t, Places(s, I), r)
  BY <1>5 DEF Picked
<1>7. Chosen(t, J) \in Seq(S) /\ Picked(t, Places(t, J), Chosen(t, J)) /\ Places(t, J) \in SUBSET Nat
  BY <1>1, ChosenPicked, PlacesAre
<1>8. CASE n \in J
  <2>1. Places(t, J) = Places(s, I) \cup {n}
    BY <1>1, <1>8 DEF Places
  <2>2. Append(r, e) \in Seq(S) /\ Picked(t, Places(s, I) \cup {n}, Append(r, e))
    BY ONLY <1>1, <1>2, <1>3, <1>6, e \in S, PickMore
  <2>3. Chosen(t, J) = Append(r, e)
    BY ONLY <1>7, <2>1, <2>2, PickedOnce
  <2> QED BY <1>8, <2>3 DEF t, r
<1>9. CASE n \notin J
  <2>1. Places(t, J) = Places(s, I)
    BY <1>1, <1>9 DEF Places
  <2>2. Chosen(t, J) = r
    BY ONLY <1>2, <1>6, <1>7, <2>1, PickedOnce
  <2> QED BY <1>9, <2>2 DEF t, r
<1> QED BY <1>8, <1>9

WalkStep(es, w, n) ==
  LET e == es[Len(es) - n + 1]
  IN IF e.id = w.next THEN [path |-> <<e>> \o w.path, next |-> e.parent] ELSE w
Start(id) == [path |-> <<>>, next |-> id]
Walks(es, id, k, f) == f = [n \in 0..k |-> IF n = 0 THEN Start(id) ELSE WalkStep(es, f[n - 1], n)]

LEMMA WalksIs ==
  ASSUME NEW es, NEW id, NEW k \in Nat, NEW f, Walks(es, id, k, f)
  PROVE  f[0] = Start(id) /\ \A n \in 1..k : f[n] = WalkStep(es, f[n - 1], n)
<1> DEFINE F(n) == IF n = 0 THEN Start(id) ELSE WalkStep(es, f[n - 1], n)
<1>1. f = [n \in 0..k |-> F(n)]
  BY DEF Walks
<1>2. \A n \in 0..k : f[n] = F(n)
  <2> HIDE DEF F
  <2> QED BY <1>1
<1>3. 0 \in 0..k /\ \A n \in 1..k : n \in 0..k /\ n # 0
  OBVIOUS
<1> QED BY <1>2, <1>3

LEMMA WalksExists ==
  ASSUME NEW es, NEW id, NEW k \in Nat PROVE \E f : Walks(es, id, k, f)
<1> DEFINE T == {m \in Nat : ~\E f : Walks(es, id, m, f)}
<1> SUFFICES ASSUME k \in T PROVE FALSE
  OBVIOUS
<1>1. PICK m \in T : \A j \in T : m <= j
  BY LeastOf
<1>2. CASE m = 0
  <2> DEFINE f == [n \in 0..0 |-> Start(id)]
  <2>1. Walks(es, id, 0, f)
    BY DEF Walks
  <2> QED BY <1>1, <1>2, <2>1
<1>3. CASE m # 0
  <2>1. m \in Nat /\ m - 1 \in Nat /\ m - 1 \notin T
    BY <1>1, <1>3
  <2>2. PICK g : Walks(es, id, m - 1, g)
    BY <2>1
  <2> DEFINE last == WalkStep(es, g[m - 1], m)
             f == [n \in 0..m |-> IF n = m THEN last ELSE g[n]]
  <2>3. g[0] = Start(id) /\ \A n \in 1..(m - 1) : g[n] = WalkStep(es, g[n - 1], n)
    <3> DEFINE k1 == m - 1
    <3>1. k1 \in Nat /\ Walks(es, id, k1, g)
      BY <2>1, <2>2
    <3> HIDE DEF k1, T
    <3>2. g[0] = Start(id) /\ \A n \in 1..k1 : g[n] = WalkStep(es, g[n - 1], n)
      <4>1. ASSUME NEW h, Walks(es, id, k1, h) PROVE h[0] = Start(id)
        BY <3>1, <4>1, WalksIs
      <4>2. ASSUME NEW h, Walks(es, id, k1, h) PROVE \A n \in 1..k1 : h[n] = WalkStep(es, h[n - 1], n)
        BY <3>1, <4>2, WalksIs
      <4> QED BY <3>1, <4>1, <4>2
    <3> QED BY <3>2 DEF k1
  <2>4. \A n \in 0..m : f[n] = IF n = 0 THEN Start(id) ELSE WalkStep(es, f[n - 1], n)
    <3> SUFFICES ASSUME NEW n \in 0..m PROVE f[n] = IF n = 0 THEN Start(id) ELSE WalkStep(es, f[n - 1], n)
      OBVIOUS
    <3>1. CASE n = 0
      BY <1>3, <2>1, <2>3, <3>1
    <3>2. CASE n = m
      <4>1. f[n] = last /\ m - 1 \in 0..m /\ m - 1 # m
        BY <2>1, <3>2
      <4>2. f[n - 1] = g[n - 1]
        BY <3>2, <4>1
      <4> QED BY <1>3, <3>2, <4>1, <4>2
    <3>3. CASE n \in 1..(m - 1)
      <4>1. n # m /\ n # 0 /\ n \in 0..m /\ n - 1 \in 0..m /\ n - 1 # m
        BY <2>1, <3>3
      <4>2. f[n] = g[n] /\ f[n - 1] = g[n - 1]
        BY <4>1
      <4> HIDE DEF f
      <4> QED BY <2>3, <3>3, <4>1, <4>2
    <3> QED BY <2>1, <3>1, <3>2, <3>3
  <2>5. Walks(es, id, m, f)
    <3> HIDE DEF last
    <3>1. f = [n \in 0..m |-> f[n]]
      OBVIOUS
    <3> HIDE DEF f
    <3> QED BY <2>4, <3>1 DEF Walks
  <2> QED BY <1>1, <2>5
<1> QED BY <1>2, <1>3

LEMMA BranchIs ==
  ASSUME NEW es, NEW id, Len(es) \in Nat
  PROVE  \E f : /\ getBranch(es, id) = f[Len(es)].path /\ f[0] = Start(id)
                /\ \A n \in 1..Len(es) : f[n] = WalkStep(es, f[n - 1], n)
<1> DEFINE k == Len(es)
           f == CHOOSE f : Walks(es, id, k, f)
<1>1. getBranch(es, id) = f[k].path
  BY DEF getBranch, Walks, WalkStep, Start
<1>2. Walks(es, id, k, f)
  <2> HIDE DEF k
  <2>1. \E g : Walks(es, id, k, g)
    BY WalksExists DEF k
  <2> QED BY <2>1
<1> HIDE DEF f
<1>3. f[0] = Start(id) /\ \A n \in 1..k : f[n] = WalkStep(es, f[n - 1], n)
  BY <1>2, WalksIs
<1> QED BY <1>1, <1>3

(***************************************************************************)
(* A branch: entries of the session in their order, and all of a chain.    *)
(***************************************************************************)
EntryTypes == {"session", "malformed", "user", "assistant", "label", "unlabel", "compaction", "branch_summary"}
Entries == [id : Nat, parent : Nat, type : EntryTypes, ref : Nat]
Rises(s) == \A i, j \in 1..Len(s) : i < j => s[i].id < s[j].id

LEMMA PutBefore ==
  ASSUME NEW S, NEW s \in Seq(S), NEW e \in S
  PROVE  LET t == <<e>> \o s IN
         t \in Seq(S) /\ Len(t) = Len(s) + 1 /\ Len(s) \in Nat /\ t[1] = e /\ \A i \in 2..Len(t) : t[i] = s[i - 1]
<1>1. <<e>> \in Seq(S) /\ Len(<<e>>) = 1 /\ <<e>>[1] = e /\ Len(s) \in Nat
  OBVIOUS
<1> DEFINE u == <<e>>
           t == u \o s
<1>2. t \in Seq(S) /\ Len(t) = Len(u) + Len(s) /\ \A i \in 1..(Len(u) + Len(s)) : t[i] = IF i <= Len(u) THEN u[i] ELSE s[i - Len(u)]
  <2> HIDE DEF u
  <2> QED BY <1>1, ConcatProperties DEF u
<1> HIDE DEF u, t
<1>3. Len(u) = 1 /\ u[1] = e
  BY <1>1 DEF u
<1>4. t \in Seq(S) /\ Len(t) = Len(s) + 1 /\ t[1] = e /\ \A i \in 2..Len(t) : t[i] = s[i - 1]
  BY <1>1, <1>2, <1>3
<1> QED BY <1>1, <1>4 DEF t, u

\* What a walk over the last k entries has gathered.
Gathered(es, k, path) ==
  /\ path \in Seq(Entries) /\ Rises(path)
  /\ \A i \in 1..Len(path) : \E j \in 1..Len(es) : j > Len(es) - k /\ path[i] = es[j]

LEMMA GatherMore ==
  ASSUME NEW es \in Seq(Entries), Rises(es), NEW k \in 1..Len(es), NEW w, Gathered(es, k - 1, w.path)
  PROVE  Gathered(es, k, WalkStep(es, w, k).path)
<1> DEFINE n == Len(es)
           c == n - k + 1
           e == es[c]
           s == w.path
           t == <<e>> \o s
<1>1. n \in Nat /\ c \in 1..n /\ e \in Entries /\ k \in Nat
  OBVIOUS
<1>2. s \in Seq(Entries) /\ Rises(s) /\ \A i \in 1..Len(s) : \E j \in 1..n : j > n - (k - 1) /\ s[i] = es[j]
  BY DEF Gathered
<1>3. t \in Seq(Entries) /\ Len(t) = Len(s) + 1 /\ Len(s) \in Nat /\ t[1] = e /\ \A i \in 2..Len(t) : t[i] = s[i - 1]
  <2> HIDE DEF s, e
  <2> QED BY <1>1, <1>2, PutBefore
<1>4. WalkStep(es, w, k).path = t \/ WalkStep(es, w, k).path = s
  BY DEF WalkStep
<1>5. c > n - k /\ \A j \in 1..n : j > n - (k - 1) => j > n - k /\ c < j
  BY <1>1
<1> HIDE DEF t, s, e, c, n
<1>6. \A i \in 1..Len(t) : i = 1 \/ (i \in 2..Len(t) /\ i - 1 \in 1..Len(s))
  BY <1>3
<1>7. \A i \in 1..Len(t) : \E j \in 1..n : j > n - k /\ t[i] = es[j]
  <2> SUFFICES ASSUME NEW i \in 1..Len(t) PROVE \E j \in 1..n : j > n - k /\ t[i] = es[j]
    OBVIOUS
  <2>1. CASE i = 1
    BY <1>1, <1>3, <1>5, <2>1 DEF e
  <2>2. CASE i # 1
    <3>1. t[i] = s[i - 1] /\ i - 1 \in 1..Len(s)
      BY <1>3, <1>6, <2>2
    <3>2. PICK j \in 1..n : j > n - (k - 1) /\ s[i - 1] = es[j]
      BY <1>2, <3>1
    <3> QED BY <1>5, <3>1, <3>2
  <2> QED BY <2>1, <2>2
<1>8. \A i \in 1..Len(s) : e.id < s[i].id
  <2> SUFFICES ASSUME NEW i \in 1..Len(s) PROVE e.id < s[i].id
    OBVIOUS
  <2>1. PICK j \in 1..n : j > n - (k - 1) /\ s[i] = es[j]
    BY <1>2
  <2>2. c < j
    BY <1>5, <2>1
  <2>3. es[c].id < es[j].id
    BY <1>1, <2>2 DEF Rises, n
  <2> QED BY <2>1, <2>3 DEF e
<1>9. Rises(t)
  <2> SUFFICES ASSUME NEW i \in 1..Len(t), NEW j \in 1..Len(t), i < j PROVE t[i].id < t[j].id
    BY DEF Rises
  <2>1. j \in 2..Len(t) /\ j - 1 \in 1..Len(s) /\ t[j] = s[j - 1]
    BY <1>3, <1>6
  <2>2. CASE i = 1
    BY <1>3, <1>8, <2>1, <2>2
  <2>3. CASE i # 1
    <3>1. i - 1 \in 1..Len(s) /\ t[i] = s[i - 1] /\ i - 1 < j - 1
      BY <1>3, <1>6, <2>3
    <3> QED BY <1>2, <2>1, <3>1 DEF Rises
  <2> QED BY <2>2, <2>3
<1>10. Gathered(es, k, t)
  BY <1>3, <1>7, <1>9 DEF Gathered, n
<1>11. Gathered(es, k, s)
  BY <1>2, <1>5 DEF Gathered, n
<1> QED BY <1>4, <1>10, <1>11

LEMMA BranchRises ==
  ASSUME NEW es \in Seq(Entries), Rises(es), NEW id
  PROVE  LET path == getBranch(es, id) IN
         path \in Seq(Entries) /\ Rises(path) /\ \A i \in 1..Len(path) : \E j \in 1..Len(es) : path[i] = es[j]
<1> DEFINE n == Len(es)
<1>1. n \in Nat
  OBVIOUS
<1>2. PICK f : getBranch(es, id) = f[n].path /\ f[0] = Start(id) /\ \A k \in 1..n : f[k] = WalkStep(es, f[k - 1], k)
  <2>1. \E f : /\ getBranch(es, id) = f[Len(es)].path /\ f[0] = Start(id)
               /\ \A k \in 1..Len(es) : f[k] = WalkStep(es, f[k - 1], k)
    BY ONLY <1>1, BranchIs
  <2> QED BY ONLY <2>1
<1> DEFINE T == {k \in 0..n : ~Gathered(es, k, f[k].path)}
<1>3. T = {}
  <2> SUFFICES ASSUME T # {} PROVE FALSE
    OBVIOUS
  <2>1. T \in SUBSET Nat
    BY <1>1
  <2>2. PICK k \in T : \A j \in T : k <= j
    <3> HIDE DEF T
    <3> QED BY <2>1, LeastOf
  <2>3. k \in 0..n /\ ~Gathered(es, k, f[k].path)
    OBVIOUS
  <2>4. k # 0 => Gathered(es, k - 1, f[k - 1].path)
    <3> SUFFICES ASSUME k # 0 PROVE k - 1 \notin T /\ k - 1 \in 0..n
      OBVIOUS
    <3>1. k - 1 \in 0..n /\ ~(k <= k - 1)
      BY <1>1, <2>3
    <3> QED BY <2>2, <3>1
  <2> HIDE DEF T
  <2>5. CASE k = 0
    <3>1. f[k].path = <<>> /\ <<>> \in Seq(Entries) /\ Len(<<>>) = 0
      BY <1>2, <2>5 DEF Start
    <3>2. Gathered(es, k, <<>>)
      BY <3>1 DEF Gathered, Rises
    <3> QED BY <2>3, <3>1, <3>2
  <2>6. CASE k # 0
    <3>1. k \in 1..n
      BY <1>1, <2>3, <2>6
    <3>2. f[k] = WalkStep(es, f[k - 1], k)
      BY <1>2, <3>1
    <3> DEFINE w == f[k - 1]
    <3>3. Gathered(es, k - 1, w.path) /\ k \in 1..Len(es)
      BY <2>4, <2>6, <3>1
    <3> HIDE DEF w
    <3>4. Gathered(es, k, WalkStep(es, w, k).path)
      BY <3>3, GatherMore
    <3> QED BY <2>3, <3>2, <3>4 DEF w
  <2> QED BY <2>5, <2>6
<1>4. n \in 0..n
  BY <1>1
<1>5. Gathered(es, n, f[n].path)
  BY <1>3, <1>4
<1> QED BY <1>2, <1>5 DEF Gathered

Chained(es) == \A i \in 1..Len(es) : es[i].parent = IF i = 1 THEN 0 ELSE es[i - 1].id
Taken(es, k, w) ==
  /\ w.path \in Seq(Entries) /\ Len(w.path) = k
  /\ \A i \in 1..k : w.path[i] = es[Len(es) - k + i]
  /\ k < Len(es) => w.next = es[Len(es) - k].id

LEMMA TakeMore ==
  ASSUME NEW es \in Seq(Entries), Chained(es), NEW k \in 1..Len(es), NEW w, Taken(es, k - 1, w)
  PROVE  Taken(es, k, WalkStep(es, w, k))
<1> DEFINE n == Len(es)
           c == n - k + 1
           e == es[c]
           s == w.path
           t == <<e>> \o s
<1>1. n \in Nat /\ c \in 1..n /\ e \in Entries /\ k \in 1..n /\ c = n - (k - 1)
  OBVIOUS
<1>2. s \in Seq(Entries) /\ Len(s) = k - 1 /\ (\A i \in 1..(k - 1) : s[i] = es[n - (k - 1) + i]) /\ w.next = es[c].id
  <2>1. k - 1 < n /\ n - (k - 1) = c
    BY <1>1
  <2> QED BY <2>1 DEF Taken
<1>3. t \in Seq(Entries) /\ Len(t) = Len(s) + 1 /\ Len(s) \in Nat /\ t[1] = e /\ \A i \in 2..Len(t) : t[i] = s[i - 1]
  <2> HIDE DEF s, e
  <2> QED BY <1>1, <1>2, PutBefore
<1>4. WalkStep(es, w, k) = [path |-> t, next |-> e.parent]
  BY <1>2 DEF WalkStep
<1>5. k < n => e.parent = es[n - k].id
  <2> SUFFICES ASSUME k < n PROVE e.parent = es[n - k].id
    OBVIOUS
  <2>1. c # 1 /\ c - 1 = n - k
    BY <1>1
  <2> QED BY <1>1, <2>1 DEF Chained
<1> HIDE DEF t, s, c, n
<1>6. \A i \in 1..k : t[i] = es[n - k + i]
  <2> SUFFICES ASSUME NEW i \in 1..k PROVE t[i] = es[n - k + i]
    OBVIOUS
  <2>1. CASE i = 1
    BY <1>3, <2>1 DEF c
  <2>2. CASE i # 1
    <3>1. i \in 2..Len(t) /\ i - 1 \in 1..(k - 1) /\ n - (k - 1) + (i - 1) = n - k + i
      BY <1>1, <1>2, <1>3, <2>2
    <3>2. t[i] = s[i - 1]
      BY <1>3, <3>1
    <3>3. s[i - 1] = es[n - (k - 1) + (i - 1)]
      BY <1>2, <3>1
    <3> QED BY <3>1, <3>2, <3>3
  <2> QED BY <2>1, <2>2
<1>7. Len(t) = k
  BY <1>1, <1>2, <1>3
<1> DEFINE x == WalkStep(es, w, k)
<1>8. x.path = t /\ x.next = e.parent
  BY <1>4
<1> HIDE DEF x, e
<1>9. Taken(es, k, x)
  BY <1>3, <1>5, <1>6, <1>7, <1>8 DEF Taken, n
<1> QED BY <1>9 DEF x

LEMMA BranchOfChain ==
  ASSUME NEW es \in Seq(Entries), Chained(es), NEW id, Len(es) # 0 => id = es[Len(es)].id
  PROVE  getBranch(es, id) = es
<1> DEFINE n == Len(es)
<1>1. n \in Nat
  OBVIOUS
<1>2. PICK f : getBranch(es, id) = f[n].path /\ f[0] = Start(id) /\ \A k \in 1..n : f[k] = WalkStep(es, f[k - 1], k)
  <2>1. \E f : /\ getBranch(es, id) = f[Len(es)].path /\ f[0] = Start(id)
               /\ \A k \in 1..Len(es) : f[k] = WalkStep(es, f[k - 1], k)
    BY ONLY <1>1, BranchIs
  <2> QED BY ONLY <2>1
<1> DEFINE T == {k \in 0..n : ~Taken(es, k, f[k])}
<1>3. T = {}
  <2> SUFFICES ASSUME T # {} PROVE FALSE
    OBVIOUS
  <2>1. T \in SUBSET Nat
    BY <1>1
  <2>2. PICK k \in T : \A j \in T : k <= j
    <3> HIDE DEF T
    <3> QED BY <2>1, LeastOf
  <2>3. k \in 0..n /\ ~Taken(es, k, f[k])
    OBVIOUS
  <2>4. k # 0 => Taken(es, k - 1, f[k - 1])
    <3> SUFFICES ASSUME k # 0 PROVE k - 1 \notin T /\ k - 1 \in 0..n
      OBVIOUS
    <3>1. k - 1 \in 0..n /\ ~(k <= k - 1)
      BY <1>1, <2>3
    <3> QED BY <2>2, <3>1
  <2> HIDE DEF T
  <2>5. CASE k = 0
    <3>1. f[k].path = <<>> /\ f[k].next = id /\ <<>> \in Seq(Entries) /\ Len(<<>>) = 0
      BY <1>2, <2>5 DEF Start
    <3> DEFINE x == f[k]
    <3>2. x.path = <<>> /\ x.next = id
      BY <3>1
    <3> HIDE DEF x
    <3>3. Taken(es, 0, x)
      <4>1. 0 < Len(es) => x.next = es[Len(es) - 0].id
        BY <1>1, <3>2
      <4>2. x.path \in Seq(Entries) /\ Len(x.path) = 0
        BY <3>1, <3>2
      <4>3. \A i \in 1..0 : x.path[i] = es[Len(es) - 0 + i]
        OBVIOUS
      <4> QED BY <4>1, <4>2, <4>3 DEF Taken
    <3> QED BY <2>3, <2>5, <3>3 DEF x
  <2>6. CASE k # 0
    <3>1. k \in 1..n
      BY <1>1, <2>3, <2>6
    <3>2. f[k] = WalkStep(es, f[k - 1], k)
      BY <1>2, <3>1
    <3> DEFINE w == f[k - 1]
    <3>3. Taken(es, k - 1, w) /\ k \in 1..Len(es)
      BY <2>4, <2>6, <3>1
    <3> HIDE DEF w
    <3>4. Taken(es, k, WalkStep(es, w, k))
      BY <3>3, TakeMore
    <3> QED BY <2>3, <3>2, <3>4 DEF w
  <2> QED BY <2>5, <2>6
<1>4. n \in 0..n
  BY <1>1
<1> DEFINE s == f[n].path
<1>5. s \in Seq(Entries) /\ Len(s) = n /\ \A i \in 1..n : s[i] = es[n - n + i]
  BY <1>3, <1>4 DEF Taken
<1> HIDE DEF s
<1>6. \A i \in 1..n : n - n + i = i
  BY <1>1
<1>7. s = es
  BY <1>5, <1>6, SeqEqual
<1> QED BY <1>2, <1>7 DEF s

(***************************************************************************)
(* Lines and the entries that are read from them.                          *)
(***************************************************************************)
Entered(es, k) == /\ es \in Seq(Entries) /\ Rises(es)
                  /\ \A i \in 1..Len(es) : es[i].id \in 1..k /\ es[i].type # "malformed"
\* Lines that are not malformed have rising ids, up to k.
Orderly(ls, k) ==
  /\ ls \in Seq(Entries)
  /\ \A i \in 1..Len(ls) : ls[i].type # "malformed" => ls[i].id \in 0..k
  /\ \A i, j \in 1..Len(ls) : i < j /\ ls[i].type # "malformed" /\ ls[j].type # "malformed" => ls[i].id < ls[j].id

LEMMA ParsedIs ==
  ASSUME NEW k \in Nat, NEW file, Orderly(file.lines, k)
  PROVE  LET s == Parsed(file) IN
         /\ s \in Seq(Entries) /\ Rises(s)
         /\ \A i \in 1..Len(s) : s[i].id \in 0..k /\ s[i].type # "malformed"
<1> DEFINE ls == file.lines
           I  == {i \in 1..Len(ls) : ls[i].type # "malformed"}
           s  == Chosen(ls, I)
<1>1. ls \in Seq(Entries) /\ DOMAIN ls = 1..Len(ls)
  BY DEF Orderly
<1>2. Parsed(file) = s
  BY <1>1 DEF Parsed
<1>3. Places(ls, I) = I
  BY DEF Places
<1> HIDE DEF ls
<1>4. s \in Seq(Entries) /\ Picked(ls, I, s)
  BY <1>1, <1>3, ChosenPicked
<1>5. PICK p : Picks(ls, I, s, p)
  BY <1>4 DEF Picked
<1> HIDE DEF s
<1>6. \A i \in 1..Len(s) : p[i] \in I /\ s[i] = ls[p[i]]
  BY <1>5 DEF Picks, Enumerates
<1>7. \A i, j \in 1..Len(s) : i < j => p[i] < p[j]
  BY <1>5 DEF Picks, Enumerates
<1>8. \A i \in 1..Len(s) : s[i].id \in 0..k /\ s[i].type # "malformed"
  BY <1>6 DEF Orderly, ls
<1>9. Rises(s)
  BY <1>6, <1>7 DEF Orderly, Rises, ls
<1> QED BY <1>2, <1>4, <1>8, <1>9

LEMMA TailIs ==
  ASSUME NEW S, NEW s \in Seq(S), s # <<>>
  PROVE  /\ Tail(s) \in Seq(S) /\ Len(s) \in Nat /\ Len(Tail(s)) = Len(s) - 1 /\ 1 \in 1..Len(s) /\ Head(s) = s[1]
         /\ \A i \in 1..(Len(s) - 1) : Tail(s)[i] = s[i + 1]
<1>1. Tail(s) \in Seq(S) /\ Len(Tail(s)) = Len(s)-1 /\ \A i \in 1 .. Len(Tail(s)) : Tail(s)[i] = s[i+1]
  BY HeadTailProperties
<1>2. Len(s) \in Nat /\ Len(s) # 0 /\ Head(s) = s[1]
  BY EmptySeq
<1> QED BY <1>1, <1>2

LEMMA LoadedAreEntered ==
  ASSUME NEW k \in Nat, NEW file, Orderly(file.lines, k)
  PROVE  Entered(LoadedEntries(file), k)
<1> DEFINE s == Parsed(file)
           t == Tail(s)
<1>1. s \in Seq(Entries) /\ Rises(s) /\ \A i \in 1..Len(s) : s[i].id \in 0..k /\ s[i].type # "malformed"
  BY ParsedIs
<1>2. CASE HasHeader(file)
  <2>1. LoadedEntries(file) = t /\ s # <<>>
    BY <1>2 DEF LoadedEntries, HasHeader
  <2> HIDE DEF s
  <2>2. /\ t \in Seq(Entries) /\ Len(s) \in Nat /\ Len(t) = Len(s) - 1 /\ 1 \in 1..Len(s)
        /\ \A i \in 1..(Len(s) - 1) : t[i] = s[i + 1]
    BY <1>1, <2>1, TailIs
  <2> HIDE DEF t
  <2>3. \A i \in 1..Len(t) : i + 1 \in 1..Len(s) /\ 1 < i + 1 /\ t[i] = s[i + 1]
    BY <2>2
  <2>4. Rises(t)
    <3> SUFFICES ASSUME NEW i \in 1..Len(t), NEW j \in 1..Len(t), i < j PROVE t[i].id < t[j].id
      BY DEF Rises
    <3>1. i + 1 \in 1..Len(s) /\ j + 1 \in 1..Len(s) /\ i + 1 < j + 1 /\ t[i] = s[i + 1] /\ t[j] = s[j + 1]
      BY <2>3
    <3> QED BY <1>1, <3>1 DEF Rises
  <2>5. \A i \in 1..Len(t) : s[1].id < t[i].id /\ s[1].id \in 0..k /\ t[i].id \in 0..k /\ t[i].type # "malformed"
    BY <1>1, <2>2, <2>3 DEF Rises
  <2>6. \A i \in 1..Len(t) : t[i].id \in 1..k
    BY <2>5
  <2> QED BY <2>1, <2>2, <2>4, <2>5, <2>6 DEF Entered
<1>3. CASE ~HasHeader(file)
  <2>1. LoadedEntries(file) = <<>> /\ <<>> \in Seq(Entries) /\ Len(<<>>) = 0
    BY <1>3 DEF LoadedEntries
  <2> QED BY <2>1 DEF Entered, Rises
<1> QED BY <1>2, <1>3

\* A file that was written at once, and one to which an entry is added.
LEMMA WrittenWhole ==
  ASSUME NEW k \in Nat, NEW es, Entered(es, k), NEW file, file.lines = <<Header>> \o es
  PROVE  HasHeader(file) /\ LoadedEntries(file) = es
<1> DEFINE ls == <<Header>> \o es
           I  == {i \in 1..Len(ls) : ls[i].type # "malformed"}
<1>1. Header \in Entries /\ Header.type = "session" /\ es \in Seq(Entries)
  BY DEF Header, NewEntry, Entries, EntryTypes, Entered
<1>2. ls \in Seq(Entries) /\ Len(ls) = Len(es) + 1 /\ Len(es) \in Nat /\ ls[1] = Header /\ \A i \in 2..Len(ls) : ls[i] = es[i - 1]
  BY <1>1, PutBefore
<1> HIDE DEF ls
<1>3. DOMAIN ls = 1..Len(ls)
  BY <1>2
<1>4. \A i \in 1..Len(ls) : i \in I
  <2>1. \A i \in 2..Len(ls) : i - 1 \in 1..Len(es)
    BY <1>2
  <2>2. \A i \in 2..Len(ls) : ls[i].type # "malformed"
    BY <1>2, <2>1 DEF Entered
  <2>3. ls[1].type # "malformed"
    BY <1>1, <1>2
  <2>4. \A i \in 1..Len(ls) : i = 1 \/ i \in 2..Len(ls)
    BY <1>2
  <2> QED BY <2>2, <2>3, <2>4
<1>5. Parsed(file) = Chosen(ls, I)
  BY <1>3 DEF Parsed, ls
<1> HIDE DEF I
<1>6. Chosen(ls, I) = ls
  BY <1>2, <1>4, ChosenWhole
<1>7. ls # <<>>
  BY <1>2, EmptySeq
<1>8. Head(ls) = Header /\ Tail(ls) \in Seq(Entries) /\ Len(Tail(ls)) = Len(es) /\ \A i \in 1..Len(es) : Tail(ls)[i] = ls[i + 1]
  BY <1>2, <1>7, TailIs
<1>9. \A i \in 1..Len(es) : Tail(ls)[i] = es[i]
  BY <1>2, <1>8
<1>10. Tail(ls) = es
  BY <1>1, <1>8, <1>9, SeqEqual
<1> QED BY <1>1, <1>5, <1>6, <1>7, <1>8, <1>10 DEF HasHeader, LoadedEntries

LEMMA WrittenMore ==
  ASSUME NEW k \in Nat, NEW file, NEW more, Orderly(file.lines, k), HasHeader(file), NEW e \in Entries,
         e.type # "malformed", more.lines = Append(file.lines, e)
  PROVE  HasHeader(more) /\ LoadedEntries(more) = Append(LoadedEntries(file), e)
<1> DEFINE ls == file.lines
           ms == more.lines
           I  == {i \in 1..Len(ls) : ls[i].type # "malformed"}
           J  == {i \in 1..Len(ms) : ms[i].type # "malformed"}
           s  == Parsed(file)
<1>1. ls \in Seq(Entries) /\ Len(ls) \in Nat /\ ms = Append(ls, e)
  BY DEF Orderly
<1> HIDE DEF ls, ms
<1>2. ms \in Seq(Entries) /\ Len(ms) = Len(ls) + 1 /\ ms[Len(ls) + 1] = e /\ \A i \in 1..Len(ls) : ms[i] = ls[i]
  BY <1>1, AppendProperties
<1>3. Parsed(file) = Chosen(ls, I) /\ Parsed(more) = Chosen(ms, J)
  <2>1. DOMAIN ls = 1..Len(ls)
    BY <1>1
  <2>2. DOMAIN ms = 1..Len(ms)
    BY <1>2
  <2>3. Parsed(file) = Chosen(ls, I)
    BY <2>1 DEF Parsed, ls
  <2>4. Parsed(more) = Chosen(ms, J)
    BY <2>2 DEF Parsed, ms
  <2> QED BY <2>3, <2>4
<1>4. Len(ls) + 1 \in J /\ \A i \in 1..Len(ls) : i \in I <=> i \in J
  BY <1>1, <1>2
<1> HIDE DEF I, J
<1>5. Parsed(more) = Append(s, e)
  BY <1>1, <1>3, <1>4, ChosenAppend
<1>6. s \in Seq(Entries) /\ s # <<>> /\ Head(s).type = "session" /\ LoadedEntries(file) = Tail(s)
  BY ParsedIs DEF HasHeader, LoadedEntries
<1> HIDE DEF s
<1>7. Head(Append(s, e)) = Head(s) /\ Tail(Append(s, e)) = Append(Tail(s), e) /\ Append(s, e) # <<>>
  BY <1>6, HeadTailAppend, AppendProperties
<1> QED BY <1>5, <1>6, <1>7 DEF HasHeader, LoadedEntries

(***************************************************************************)
(* Writes: whole ones and those that are cut off leave orderly files.      *)
(***************************************************************************)
LEMMA OrderlyLonger ==
  ASSUME NEW k \in Nat, NEW m \in Nat, k <= m
  PROVE  (\A ls : Orderly(ls, k) => Orderly(ls, m)) /\ (\A es : Entered(es, k) => Entered(es, m))
<1>1. \A i \in 0..k : i \in 0..m
  OBVIOUS
<1>2. \A i \in 1..k : i \in 1..m
  OBVIOUS
<1>3. ASSUME NEW ls, Orderly(ls, k) PROVE Orderly(ls, m)
  BY ONLY <1>1, <1>3 DEF Orderly
<1>4. ASSUME NEW es, Entered(es, k) PROVE Entered(es, m)
  BY ONLY <1>2, <1>4 DEF Entered
<1> QED BY <1>3, <1>4

\* Lines left out or garbled.
LEMMA OrderlyThinned ==
  ASSUME NEW k \in Nat, NEW ls, Orderly(ls, k), NEW r \in Seq(Entries), NEW g,
         \A i \in 1..Len(r) : g[i] \in 1..Len(ls) /\ (r[i] = ls[g[i]] \/ r[i] = Garbled),
         \A i, j \in 1..Len(r) : i < j => g[i] < g[j]
  PROVE  Orderly(r, k)
<1>1. \A i \in 1..Len(r) : r[i].type # "malformed" => r[i] = ls[g[i]] /\ g[i] \in 1..Len(ls)
  BY DEF Garbled, NewEntry
<1>2. \A i \in 1..Len(r) : r[i].type # "malformed" => r[i].id \in 0..k
  BY <1>1 DEF Orderly
<1>3. ASSUME NEW i \in 1..Len(r), NEW j \in 1..Len(r), i < j, r[i].type # "malformed", r[j].type # "malformed"
      PROVE  r[i].id < r[j].id
  <2>1. g[i] \in 1..Len(ls) /\ g[j] \in 1..Len(ls) /\ g[i] < g[j] /\ r[i] = ls[g[i]] /\ r[j] = ls[g[j]]
    BY <1>1, <1>3
  <2> DEFINE a == g[i]
             b == g[j]
  <2>2. a \in 1..Len(ls) /\ b \in 1..Len(ls) /\ a < b /\ ls[a].type # "malformed" /\ ls[b].type # "malformed"
    BY <1>3, <2>1
  <2> HIDE DEF a, b
  <2>3. ls[a].id < ls[b].id
    BY <2>2 DEF Orderly
  <2> QED BY <2>1, <2>3 DEF a, b
<1> QED BY <1>2, <1>3 DEF Orderly

Below(b, ls) == /\ b \in Seq(Entries) /\ Len(b) <= Len(ls)
                /\ \A i \in 1..Len(b) : b[i] = ls[i] \/ b[i] = Garbled

LEMMA GarbledIsEntry == Garbled \in Entries /\ Header \in Entries /\ Header.id = 0 /\ Header.type # "malformed"
  BY DEF Garbled, Header, NewEntry, Entries, EntryTypes

LEMMA ConcatIs ==
  ASSUME NEW S, NEW a \in Seq(S), NEW b \in Seq(S)
  PROVE  LET t == a \o b IN
         /\ t \in Seq(S) /\ Len(a) \in Nat /\ Len(b) \in Nat /\ Len(t) = Len(a) + Len(b)
         /\ \A i \in 1..Len(a) : t[i] = a[i]
         /\ \A i \in 1..Len(b) : t[Len(a) + i] = b[i]
<1> DEFINE t == a \o b
<1>1. /\ t \in Seq(S) /\ Len(t) = Len(a) + Len(b) /\ Len(a) \in Nat /\ Len(b) \in Nat
      /\ \A i \in 1..(Len(a) + Len(b)) : t[i] = IF i <= Len(a) THEN a[i] ELSE b[i - Len(a)]
  BY ConcatProperties
<1> HIDE DEF t
<1>2. \A i \in 1..Len(a) : t[i] = a[i]
  BY <1>1
<1>3. ASSUME NEW i \in 1..Len(b) PROVE t[Len(a) + i] = b[i]
  <2>1. Len(a) + i \in 1..(Len(a) + Len(b)) /\ ~(Len(a) + i <= Len(a)) /\ (Len(a) + i) - Len(a) = i
    BY <1>1
  <2> QED BY <1>1, <2>1
<1> QED BY <1>1, <1>2, <1>3 DEF t

LEMMA FrontIs ==
  ASSUME NEW S, NEW a \in Seq(S)
  PROVE  /\ Front(a) \in Seq(S) /\ Len(Front(a)) = (IF Len(a) = 0 THEN 0 ELSE Len(a) - 1)
         /\ \A i \in 1..Len(Front(a)) : Front(a)[i] = a[i]
<1>1. Len(a) \in Nat
  OBVIOUS
<1> DEFINE n == Len(a) - 1
           s == SubSeq(a, 1, n)
<1>2. n \in Int /\ 1 \in Int /\ \A i \in 1..n : a[i] \in S
  BY <1>1
<1>3. Front(a) = s
  BY DEF Front
<1> HIDE DEF n
<1>4. s \in Seq(S) /\ Len(s) = (IF 1 <= n THEN n - 1 + 1 ELSE 0) /\ \A i \in 1..(n - 1 + 1) : s[i] = a[1 + i - 1]
  BY <1>2, SubSeqProperties
<1> HIDE DEF s
<1>5. Len(s) = IF Len(a) = 0 THEN 0 ELSE Len(a) - 1
  BY <1>1, <1>4 DEF n
<1>6. \A i \in 1..Len(s) : i \in 1..(n - 1 + 1) /\ 1 + i - 1 = i
  BY <1>1, <1>5 DEF n
<1> QED BY <1>3, <1>4, <1>5, <1>6

LEMMA WrittenOrderly ==
  ASSUME NEW k \in Nat, NEW file, NEW lines \in Seq(Entries), file.lines \in Seq(Entries),
         Orderly(file.lines \o lines, k), NEW b, Below(b, lines)
  PROVE  Orderly(Written(file, b).lines, k)
<1> DEFINE a == file.lines
           T == a \o lines
           n == Len(a)
<1>1. /\ T \in Seq(Entries) /\ n \in Nat /\ Len(lines) \in Nat /\ Len(T) = n + Len(lines)
      /\ (\A i \in 1..n : T[i] = a[i]) /\ (\A i \in 1..Len(lines) : T[n + i] = lines[i])
  BY ConcatIs
<1>2. b \in Seq(Entries) /\ Len(b) \in Nat /\ Len(b) <= Len(lines) /\ (\A i \in 1..Len(b) : b[i] = lines[i] \/ b[i] = Garbled)
  BY DEF Below
<1>3. \A i \in 1..Len(b) : i \in 1..Len(lines) /\ n + i \in 1..Len(T) /\ (b[i] = T[n + i] \/ b[i] = Garbled)
  BY <1>1, <1>2
<1>4. Orderly(T, k) /\ a \in Seq(Entries)
  OBVIOUS
<1> HIDE DEF T, n
<1>5. CASE file.open /\ b # <<>>
  <2> DEFINE F == Front(a)
             u == F \o <<Garbled>>
             tl == Tail(b)
             r == u \o tl
             m == Len(F)
  <2>1. F \in Seq(Entries) /\ m = (IF n = 0 THEN 0 ELSE n - 1) /\ \A i \in 1..m : F[i] = a[i]
    BY <1>4, FrontIs DEF n
  <2>2. <<Garbled>> \in Seq(Entries) /\ Len(<<Garbled>>) = 1 /\ <<Garbled>>[1] = Garbled
    BY GarbledIsEntry
  <2> DEFINE G == <<Garbled>>
  <2>3. u = F \o G /\ G \in Seq(Entries) /\ Len(G) = 1 /\ G[1] = Garbled
    BY <2>2
  <2> HIDE DEF F, G
  <2>4. u \in Seq(Entries) /\ Len(u) = m + 1 /\ m \in Nat /\ (\A i \in 1..m : u[i] = F[i]) /\ u[m + 1] = Garbled
    <3>1. /\ u \in Seq(Entries) /\ m \in Nat /\ Len(u) = m + Len(G)
          /\ (\A i \in 1..m : u[i] = F[i]) /\ (\A i \in 1..Len(G) : u[m + i] = G[i])
      BY <2>1, <2>3, ConcatIs
    <3>2. 1 \in 1..Len(G)
      BY <2>3
    <3> QED BY <2>3, <3>1, <3>2
  <2>5. tl \in Seq(Entries) /\ Len(tl) = Len(b) - 1 /\ (\A i \in 1..(Len(b) - 1) : tl[i] = b[i + 1]) /\ 1 \in 1..Len(b)
    BY <1>2, <1>5, TailIs
  <2> HIDE DEF u, tl, m
  <2>6. /\ r \in Seq(Entries) /\ Len(r) = (m + 1) + (Len(b) - 1)
        /\ (\A i \in 1..(m + 1) : r[i] = u[i]) /\ (\A i \in 1..(Len(b) - 1) : r[(m + 1) + i] = tl[i])
    <3>1. /\ r \in Seq(Entries) /\ Len(r) = Len(u) + Len(tl)
          /\ (\A i \in 1..Len(u) : r[i] = u[i]) /\ (\A i \in 1..Len(tl) : r[Len(u) + i] = tl[i])
      <4>1. u \in Seq(Entries) /\ tl \in Seq(Entries)
        BY <2>4, <2>5
      <4> QED BY ONLY <4>1, ConcatIs
    <3> QED BY <2>4, <2>5, <3>1
  <2> DEFINE g == [i \in 1..Len(r) |-> IF i <= m THEN i ELSE n + (i - m)]
  <2> HIDE DEF r
  <2>7. m <= n /\ Len(r) = m + Len(b)
    BY <1>1, <1>2, <2>1, <2>4, <2>6
  <2>8. \A i, j \in 1..Len(r) : i < j => g[i] < g[j]
    BY <1>1, <2>4, <2>7
  <2>9. ASSUME NEW i \in 1..Len(r) PROVE g[i] \in 1..Len(T) /\ (r[i] = T[g[i]] \/ r[i] = Garbled)
    <3>1. CASE i <= m
      <4>1. i \in 1..m /\ i \in 1..(m + 1) /\ i \in 1..n /\ i \in 1..Len(T) /\ g[i] = i
        BY <1>1, <2>4, <2>7, <3>1
      <4>2. r[i] = T[i]
        BY <1>1, <2>1, <2>4, <2>6, <4>1
      <4> QED BY <4>1, <4>2
    <3>2. CASE i = m + 1
      <4>1. g[i] = n + 1 /\ n + 1 \in 1..Len(T)
        BY <1>1, <1>2, <2>4, <2>5, <3>2
      <4>2. r[i] = Garbled
        BY <2>4, <2>6, <3>2
      <4> QED BY <4>1, <4>2
    <3>3. CASE i > m + 1
      <4> DEFINE j == i - m
      <4>1. j \in 1..Len(b) /\ g[i] = n + j /\ j - 1 \in 1..(Len(b) - 1) /\ i = (m + 1) + (j - 1) /\ (j - 1) + 1 = j
        <5>1. i \in Nat /\ i <= m + Len(b) /\ m \in Nat /\ Len(b) \in Nat
          BY <1>2, <2>4, <2>7
        <5>2. ~(i <= m)
          BY <3>3, <5>1
        <5>3. g[i] = n + (i - m)
          BY <5>2
        <5> QED BY <3>3, <5>1, <5>3
      <4> HIDE DEF j
      <4>2. r[i] = tl[j - 1] /\ tl[j - 1] = b[j]
        BY <2>5, <2>6, <4>1
      <4>3. n + j \in 1..Len(T) /\ (b[j] = T[n + j] \/ b[j] = Garbled)
        BY <1>3, <4>1
      <4> QED BY <4>1, <4>2, <4>3
    <3> QED BY <2>4, <3>1, <3>2, <3>3
  <2> HIDE DEF g
  <2>10. Orderly(r, k)
    BY <1>4, <2>6, <2>8, <2>9, OrderlyThinned
  <2> QED BY <1>5, <2>10 DEF Written, EndedLines, r, u, tl, F
<1>6. CASE ~(file.open /\ b # <<>>)
  <2> DEFINE r == a \o b
             g == [i \in 1..Len(r) |-> i]
  <2>1. /\ r \in Seq(Entries) /\ Len(r) = n + Len(b)
        /\ (\A i \in 1..n : r[i] = a[i]) /\ (\A i \in 1..Len(b) : r[n + i] = b[i])
    BY <1>2, <1>4, ConcatIs DEF n
  <2> HIDE DEF r
  <2>2. \A i, j \in 1..Len(r) : i < j => g[i] < g[j]
    OBVIOUS
  <2>3. ASSUME NEW i \in 1..Len(r) PROVE i \in 1..Len(T) /\ (r[i] = T[i] \/ r[i] = Garbled)
    <3>1. CASE i <= n
      <4>1. i \in 1..n /\ i \in 1..Len(T)
        BY <1>1, <3>1
      <4> QED BY <1>1, <2>1, <4>1
    <3>2. CASE i > n
      <4> DEFINE j == i - n
      <4>1. j \in 1..Len(b) /\ i = n + j
        BY <1>1, <1>2, <2>1, <3>2
      <4> HIDE DEF j
      <4> QED BY <1>3, <2>1, <4>1
    <3> QED BY <1>1, <3>1, <3>2
  <2>4. \A i \in 1..Len(r) : g[i] \in 1..Len(T) /\ (r[i] = T[g[i]] \/ r[i] = Garbled)
    BY <2>3
  <2> HIDE DEF g
  <2>5. Orderly(r, k)
    BY <1>4, <2>1, <2>2, <2>4, OrderlyThinned
  <2> QED BY <1>6, <2>5 DEF Written, r
<1> QED BY <1>5, <1>6

LEMMA BelowAll == ASSUME NEW s \in Seq(Entries) PROVE Below(s, s)
  BY DEF Below

LEMMA BelowPart ==
  ASSUME NEW s \in Seq(Entries), NEW n \in 0..Len(s) PROVE Below(SubSeq(s, 1, n), s)
<1> DEFINE p == SubSeq(s, 1, n)
<1>1. n \in Int /\ 1 \in Int /\ (\A i \in 1..n : s[i] \in Entries) /\ Len(s) \in Nat
  OBVIOUS
<1>2. p \in Seq(Entries) /\ Len(p) = (IF 1 <= n THEN n - 1 + 1 ELSE 0) /\ \A i \in 1..(n - 1 + 1) : p[i] = s[1 + i - 1]
  BY <1>1, SubSeqProperties
<1> HIDE DEF p
<1>3. Len(p) = n /\ \A i \in 1..n : p[i] = s[i]
  BY <1>1, <1>2
<1>4. Below(p, s)
  BY <1>2, <1>3 DEF Below
<1> QED BY <1>4 DEF p

LEMMA BelowGarbled ==
  ASSUME NEW s \in Seq(Entries), NEW n \in 1..Len(s)
  PROVE  Below(Append(SubSeq(s, 1, n - 1), Garbled), s)
<1> DEFINE p == SubSeq(s, 1, n - 1)
           b == Append(p, Garbled)
<1>1. n - 1 \in Int /\ 1 \in Int /\ n \in Nat /\ n - 1 \in Nat /\ (\A i \in 1..(n - 1) : s[i] \in Entries) /\ Len(s) \in Nat
  OBVIOUS
<1>2. /\ p \in Seq(Entries) /\ Len(p) = (IF 1 <= n - 1 THEN (n - 1) - 1 + 1 ELSE 0)
      /\ \A i \in 1..((n - 1) - 1 + 1) : p[i] = s[1 + i - 1]
  BY <1>1, SubSeqProperties
<1> HIDE DEF p
<1>3. Len(p) = n - 1 /\ \A i \in 1..(n - 1) : p[i] = s[i]
  BY <1>1, <1>2
<1>4. b \in Seq(Entries) /\ Len(b) = Len(p) + 1 /\ (\A i \in 1..Len(p) : b[i] = p[i]) /\ b[Len(p) + 1] = Garbled
  BY <1>2, GarbledIsEntry, AppendProperties
<1> HIDE DEF b
<1>5. \A i \in 1..Len(b) : i = n \/ i \in 1..(n - 1)
  BY <1>1, <1>3, <1>4
<1>6. Below(b, s)
  BY <1>1, <1>3, <1>4, <1>5 DEF Below
<1> QED BY <1>6 DEF b, p

LEMMA CutOrderly ==
  ASSUME NEW k \in Nat, NEW file, NEW lines \in Seq(Entries), file.lines \in Seq(Entries),
         Orderly(file.lines \o lines, k), NEW cut \in Cut(file, lines)
  PROVE  Orderly(cut.lines, k)
<1>1. \A b : Below(b, lines) => Orderly(Written(file, b).lines, k)
  BY WrittenOrderly
<1>2. Len(lines) \in Nat /\ DOMAIN lines = 1..Len(lines)
  OBVIOUS
<1>3. \A b : [Written(file, b) EXCEPT !.open = TRUE].lines = Written(file, b).lines
  BY DEF Written, EndedLines
<1>4. CASE \E n \in 0..(Len(lines) - 1) : cut = Written(file, SubSeq(lines, 1, n))
  <2>1. PICK n \in 0..(Len(lines) - 1) : cut = Written(file, SubSeq(lines, 1, n))
    BY <1>4
  <2>2. n \in 0..Len(lines)
    BY <1>2
  <2> QED BY <1>1, <2>1, <2>2, BelowPart
<1>5. CASE \E n \in 1..Len(lines) : cut = [Written(file, SubSeq(lines, 1, n)) EXCEPT !.open = TRUE]
  <2>1. PICK n \in 1..Len(lines) : cut = [Written(file, SubSeq(lines, 1, n)) EXCEPT !.open = TRUE]
    BY <1>5
  <2>2. n \in 0..Len(lines)
    BY <1>2
  <2>3. Orderly(Written(file, SubSeq(lines, 1, n)).lines, k)
    BY <1>1, <2>2, BelowPart
  <2>4. cut.lines = Written(file, SubSeq(lines, 1, n)).lines
    BY <1>3, <2>1
  <2> QED BY <2>3, <2>4
<1>6. CASE \E n \in 1..Len(lines) : cut = [Written(file, Append(SubSeq(lines, 1, n - 1), Garbled)) EXCEPT !.open = TRUE]
  <2>1. PICK n \in 1..Len(lines) : cut = [Written(file, Append(SubSeq(lines, 1, n - 1), Garbled)) EXCEPT !.open = TRUE]
    BY <1>6
  <2> DEFINE b == Append(SubSeq(lines, 1, n - 1), Garbled)
  <2>2. Below(b, lines)
    BY BelowGarbled
  <2> HIDE DEF b
  <2>3. cut.lines = Written(file, b).lines
    BY <1>3, <2>1 DEF b
  <2> QED BY <1>1, <2>2, <2>3
<1> QED BY <1>2, <1>4, <1>5, <1>6 DEF Cut

LEMMA PrefixOfMore ==
  ASSUME NEW S, NEW s \in Seq(S), NEW t \in Seq(S) PROVE IsPrefix(s, s) /\ IsPrefix(s, s \o t)
<1> DEFINE u == s \o t
           n == Len(s)
<1>1. u \in Seq(S) /\ n \in Nat /\ Len(t) \in Nat /\ Len(u) = n + Len(t) /\ \A i \in 1..n : u[i] = s[i]
  BY ConcatIs
<1> HIDE DEF u
<1>2. SubSeq(s, 1, n) = [i \in 1..n |-> s[i]]
  BY <1>1
<1>3. SubSeq(u, 1, n) = [i \in 1..n |-> u[i]]
  BY <1>1
<1>4. SubSeq(u, 1, n) = SubSeq(s, 1, n)
  BY <1>1, <1>2, <1>3
<1> HIDE DEF n
<1>5. n <= n /\ n <= Len(u)
  BY <1>1
<1> QED BY <1>4, <1>5 DEF IsPrefix, n, u

(***************************************************************************)
(* The files.                                                              *)
(***************************************************************************)
Files == \A f \in DOMAIN disk : Orderly(disk[f].lines, lastId)
\* Of a file no write of which has failed since.
Intact(file) == HasHeader(file) /\ ~file.open
IntactFiles == \A f \in DOMAIN disk \ damaged : Intact(disk[f])

LEMMA StoredIs ==
  ASSUME NEW f, NEW file, Stored(f, file)
  PROVE  /\ DOMAIN disk' = DOMAIN disk \cup {f} /\ disk'[f] = file
         /\ \A g \in DOMAIN disk : g # f => disk'[g] = disk[g]
<1> DEFINE D == DOMAIN disk \cup {f}
           d == [g \in D |-> IF g = f THEN file ELSE disk[g]]
<1>1. disk' = d
  BY DEF Stored
<1>2. DOMAIN d = D /\ f \in D /\ \A g \in DOMAIN disk : g \in D
  OBVIOUS
<1>3. d[f] = file /\ \A g \in DOMAIN disk : g # f => d[g] = disk[g]
  BY <1>2
<1> HIDE DEF d
<1> QED BY <1>1, <1>2, <1>3 DEF D

\* Another file is as it was.
Untouched(f) == /\ DOMAIN disk \subseteq DOMAIN disk' /\ DOMAIN disk' \subseteq DOMAIN disk \cup {f}
                /\ \A g \in DOMAIN disk : g # f => disk'[g] = disk[g]

LEMMA UntouchedFiles ==
  ASSUME NEW f, Untouched(f), lastId \in Nat, lastId' \in Nat, lastId <= lastId', Files, IntactFiles,
         \A g \in damaged : g # f => g \in damaged',
         f \in DOMAIN disk' => Orderly(disk'[f].lines, lastId'),
         f \in DOMAIN disk' /\ f \notin damaged' => Intact(disk'[f]),
         f \in DOMAIN disk /\ f \notin damaged \cup damaged' => IsPrefix(disk[f].lines, disk'[f].lines)
  PROVE  Files' /\ IntactFiles' /\ Grown
<1>1. ASSUME NEW g \in DOMAIN disk' PROVE Orderly(disk'[g].lines, lastId')
  <2>1. CASE g = f
    BY <2>1, <1>1
  <2>2. CASE g # f
    <3>1. g \in DOMAIN disk /\ disk'[g] = disk[g]
      BY <1>1, <2>2 DEF Untouched
    <3>2. Orderly(disk[g].lines, lastId)
      BY <3>1 DEF Files
    <3> QED BY <3>1, <3>2, OrderlyLonger
  <2> QED BY <2>1, <2>2
<1>2. ASSUME NEW g \in DOMAIN disk' \ damaged' PROVE Intact(disk'[g])
  <2>1. CASE g = f
    BY <2>1, <1>2
  <2>2. CASE g # f
    <3>1. g \in DOMAIN disk \ damaged /\ disk'[g] = disk[g]
      BY <1>2, <2>2 DEF Untouched
    <3> QED BY <3>1 DEF IntactFiles
  <2> QED BY <2>1, <2>2
<1>3. ASSUME NEW g \in DOMAIN disk \ (damaged \cup damaged') PROVE IsPrefix(disk[g].lines, disk'[g].lines)
  <2>1. CASE g = f
    BY <2>1, <1>3
  <2>2. CASE g # f
    <3>1. disk'[g] = disk[g]
      BY <1>3, <2>2 DEF Untouched
    <3>2. disk[g].lines \in Seq(Entries)
      BY <1>3 DEF Files, Orderly
    <3> QED BY <3>1, <3>2, PrefixOfMore
  <2> QED BY <2>1, <2>2
<1> QED BY <1>1, <1>2, <1>3 DEF Files, IntactFiles, Grown

LEMMA SameFiles ==
  ASSUME disk' = disk, damaged' = damaged, lastId \in Nat, lastId' \in Nat, lastId <= lastId', Files, IntactFiles
  PROVE  Files' /\ IntactFiles' /\ Grown
<1>1. ASSUME NEW f \in DOMAIN disk PROVE Orderly(disk[f].lines, lastId') /\ IsPrefix(disk[f].lines, disk[f].lines)
  <2>1. Orderly(disk[f].lines, lastId)
    BY DEF Files
  <2>2. disk[f].lines \in Seq(Entries)
    BY <2>1 DEF Orderly
  <2> QED BY <2>1, <2>2, OrderlyLonger, PrefixOfMore
<1>2. Files'
  BY <1>1 DEF Files
<1>3. IntactFiles'
  BY DEF IntactFiles
<1>4. Grown
  BY <1>1 DEF Grown
<1> QED BY <1>2, <1>3, <1>4

\* A write, whole or cut off, after what a file holds.
LEMMA WriteIs ==
  ASSUME NEW f, NEW lines \in Seq(Entries), NEW ok \in BOOLEAN, WriteLines(f, FileAt(f), lines, ok),
         lastId \in Nat, lastId' \in Nat, lastId <= lastId', Files, IntactFiles,
         Orderly(FileAt(f).lines \o lines, lastId'),
         f \notin damaged => HasHeader(Written(FileAt(f), lines))
  PROVE  /\ Files' /\ IntactFiles' /\ Grown /\ Untouched(f)
         /\ ok => damaged' = damaged /\ f \in DOMAIN disk' /\ disk'[f] = Written(FileAt(f), lines)
         /\ ~ok => damaged' = damaged \cup {f}
<1> DEFINE file == FileAt(f)
<1>1. /\ file.lines \in Seq(Entries)
      /\ f \notin DOMAIN disk => ~file.open /\ file.lines = <<>>
      /\ f \in DOMAIN disk => file = disk[f]
  <2>1. CASE f \in DOMAIN disk
    BY <2>1 DEF FileAt, Files, Orderly
  <2>2. CASE f \notin DOMAIN disk
    BY <2>2 DEF FileAt, NoFile, EndedLines
  <2> QED BY <2>1, <2>2
<1>2. f \notin damaged => ~file.open
  BY <1>1 DEF IntactFiles, Intact
<1>3. WriteLines(f, file, lines, ok) /\ Orderly(file.lines \o lines, lastId')
  OBVIOUS
<1>4. f \notin damaged => HasHeader(Written(file, lines))
  OBVIOUS
<1> HIDE DEF file
<1>5. /\ f \in DOMAIN disk => Orderly(disk[f].lines, lastId')
      /\ f \in DOMAIN disk => disk[f].lines \in Seq(Entries)
  BY OrderlyLonger DEF Files, Orderly
<1>6. CASE ok
  <2>1. Stored(f, Written(file, lines)) /\ damaged' = damaged
    BY <1>3, <1>6 DEF WriteLines
  <2>2. /\ DOMAIN disk' = DOMAIN disk \cup {f} /\ disk'[f] = Written(file, lines)
        /\ \A g \in DOMAIN disk : g # f => disk'[g] = disk[g]
    BY ONLY <2>1, StoredIs
  <2>3. Untouched(f)
    BY <2>2 DEF Untouched
  <2>4. Orderly(Written(file, lines).lines, lastId')
    BY <1>1, <1>3, BelowAll, WrittenOrderly
  <2>5. f \notin damaged => ~Written(file, lines).open /\ Written(file, lines).lines = file.lines \o lines
    BY <1>2 DEF Written
  <2>6. f \notin damaged => Intact(disk'[f])
    BY <1>4, <2>2, <2>5 DEF Intact
  <2>7. f \in DOMAIN disk /\ f \notin damaged => IsPrefix(disk[f].lines, disk'[f].lines)
    BY <1>1, <1>5, <2>2, <2>5, PrefixOfMore
  <2>8. Files' /\ IntactFiles' /\ Grown
    BY <2>1, <2>2, <2>3, <2>4, <2>6, <2>7, UntouchedFiles
  <2> QED BY <1>6, <2>1, <2>2, <2>3, <2>8 DEF file
<1>7. CASE ~ok
  <2>1. damaged' = damaged \cup {f} /\ (disk' = disk \/ \E cut \in Cut(file, lines) : Stored(f, cut))
    BY <1>3, <1>7 DEF WriteLines
  <2>2. CASE disk' = disk
    <3>1. Untouched(f)
      BY <2>2 DEF Untouched
    <3>2. f \in DOMAIN disk' => Orderly(disk'[f].lines, lastId')
      BY <1>5, <2>2
    <3>3. f \in damaged' /\ \A g \in damaged : g # f => g \in damaged'
      BY <2>1
    <3>4. Files' /\ IntactFiles' /\ Grown
      BY <3>1, <3>2, <3>3, UntouchedFiles
    <3> QED BY <1>7, <2>1, <3>1, <3>4
  <2>3. CASE \E cut \in Cut(file, lines) : Stored(f, cut)
    <3>1. PICK cut \in Cut(file, lines) : Stored(f, cut)
      BY <2>3
    <3>2. /\ DOMAIN disk' = DOMAIN disk \cup {f} /\ disk'[f] = cut
          /\ \A g \in DOMAIN disk : g # f => disk'[g] = disk[g]
      BY ONLY <3>1, StoredIs
    <3>3. Untouched(f)
      BY <3>2 DEF Untouched
    <3>4. Orderly(cut.lines, lastId')
      BY <1>1, <1>3, <3>1, CutOrderly
    <3>5. f \in damaged' /\ \A g \in damaged : g # f => g \in damaged'
      BY <2>1
    <3>6. Files' /\ IntactFiles' /\ Grown
      BY <3>2, <3>3, <3>4, <3>5, UntouchedFiles
    <3> QED BY <1>7, <2>1, <3>3, <3>6
  <2> QED BY <2>1, <2>2, <2>3
<1> QED BY <1>6, <1>7

\* An entry is added with a new id; a header is put before the entries.
LEMMA EnteredMore ==
  ASSUME NEW k \in Nat, NEW es, Entered(es, k), NEW e \in Entries, e.id = k + 1, e.type # "malformed"
  PROVE  /\ Entered(Append(es, e), k + 1)
         /\ \A i \in 1..Len(Append(es, e)) : Append(es, e)[i] = e \/ (i \in 1..Len(es) /\ Append(es, e)[i] = es[i])
         /\ Last(Append(es, e)) = e
<1> DEFINE t == Append(es, e)
           n == Len(es)
<1>1. t \in Seq(Entries) /\ Len(t) = n + 1 /\ n \in Nat /\ t[n + 1] = e /\ \A i \in 1..n : t[i] = es[i]
  BY AppendProperties DEF Entered
<1>2. Last(t) = t[Len(t)]
  BY DEF Last
<1> HIDE DEF t
<1>3. \A i \in 1..n : es[i].id \in 1..k /\ es[i].type # "malformed"
  BY DEF Entered
<1>4. \A i, j \in 1..n : i < j => es[i].id < es[j].id
  BY DEF Entered, Rises
<1> HIDE DEF n
<1>5. \A i \in 1..(n + 1) : i = n + 1 \/ i \in 1..n
  BY <1>1
<1>6. \A i \in 1..Len(t) : t[i].id \in 1..(k + 1) /\ t[i].type # "malformed"
  BY <1>1, <1>3, <1>5
<1>7. \A i, j \in 1..Len(t) : i < j => t[i].id < t[j].id
  <2> SUFFICES ASSUME NEW i \in 1..Len(t), NEW j \in 1..Len(t), i < j PROVE t[i].id < t[j].id
    OBVIOUS
  <2>1. i \in 1..n
    BY <1>1
  <2>2. CASE j = n + 1
    BY <1>1, <1>3, <2>1, <2>2
  <2>3. CASE j \in 1..n
    BY <1>1, <1>4, <2>1, <2>3
  <2> QED BY <1>1, <1>5, <2>2, <2>3
<1> QED BY <1>1, <1>2, <1>5, <1>6, <1>7 DEF t, n, Entered, Rises

LEMMA OrderlyMore ==
  ASSUME NEW k \in Nat, NEW ls, Orderly(ls, k), NEW e \in Entries, e.id = k + 1
  PROVE  Orderly(Append(ls, e), k + 1) /\ ls \o <<e>> = Append(ls, e)
<1> DEFINE t == Append(ls, e)
           n == Len(ls)
<1>0. ls \in Seq(Entries) /\ Len(ls) \in Nat
  BY DEF Orderly
<1>1. t \in Seq(Entries) /\ Len(t) = n + 1 /\ n \in Nat /\ t[n + 1] = e /\ \A i \in 1..n : t[i] = ls[i]
  BY <1>0, AppendProperties
<1>2. ls \o <<e>> = t
  BY <1>0, AppendIsConcat
<1> HIDE DEF t
<1>3. \A i \in 1..n : ls[i].type # "malformed" => ls[i].id \in 0..k
  BY DEF Orderly
<1>4. \A i, j \in 1..n : i < j /\ ls[i].type # "malformed" /\ ls[j].type # "malformed" => ls[i].id < ls[j].id
  BY DEF Orderly
<1> HIDE DEF n
<1>5. \A i \in 1..(n + 1) : i = n + 1 \/ i \in 1..n
  BY <1>1
<1>6. \A i \in 1..Len(t) : t[i].type # "malformed" => t[i].id \in 0..(k + 1)
  BY <1>1, <1>3, <1>5
<1>7. \A i, j \in 1..Len(t) : i < j /\ t[i].type # "malformed" /\ t[j].type # "malformed" => t[i].id < t[j].id
  <2> SUFFICES ASSUME NEW i \in 1..Len(t), NEW j \in 1..Len(t), i < j, t[i].type # "malformed", t[j].type # "malformed"
               PROVE t[i].id < t[j].id
    OBVIOUS
  <2>1. i \in 1..n
    BY <1>1
  <2>2. CASE j = n + 1
    BY <1>1, <1>3, <2>1, <2>2
  <2>3. CASE j \in 1..n
    BY <1>1, <1>4, <2>1, <2>3
  <2> QED BY <1>1, <1>5, <2>2, <2>3
<1> QED BY <1>1, <1>2, <1>6, <1>7 DEF t, Orderly

LEMMA HeadedOrderly ==
  ASSUME NEW k \in Nat, NEW es, Entered(es, k) PROVE Orderly(<<Header>> \o es, k)
<1> DEFINE t == <<Header>> \o es
<1>1. t \in Seq(Entries) /\ Len(t) = Len(es) + 1 /\ Len(es) \in Nat /\ t[1] = Header /\ \A i \in 2..Len(t) : t[i] = es[i - 1]
  BY PutBefore, GarbledIsEntry DEF Entered
<1> HIDE DEF t
<1>2. \A i \in 1..Len(t) : i = 1 \/ (i \in 2..Len(t) /\ i - 1 \in 1..Len(es))
  BY <1>1
<1>3. \A i \in 1..Len(es) : es[i].id \in 1..k
  BY DEF Entered
<1>4. \A i \in 1..Len(t) : t[i].id \in 0..k
  BY <1>1, <1>2, <1>3, GarbledIsEntry
<1>5. \A i, j \in 1..Len(t) : i < j => t[i].id < t[j].id
  <2> SUFFICES ASSUME NEW i \in 1..Len(t), NEW j \in 1..Len(t), i < j PROVE t[i].id < t[j].id
    OBVIOUS
  <2>1. j - 1 \in 1..Len(es) /\ t[j] = es[j - 1]
    BY <1>1, <1>2
  <2>2. CASE i = 1
    <3>1. t[i].id = 0 /\ t[j].id \in 1..k
      BY <1>1, <1>3, <2>1, <2>2, GarbledIsEntry
    <3> QED BY <3>1
  <2>3. CASE i # 1
    <3>1. i - 1 \in 1..Len(es) /\ t[i] = es[i - 1] /\ i - 1 < j - 1
      BY <1>1, <1>2, <2>3
    <3> QED BY <2>1, <3>1 DEF Entered, Rises
  <2> QED BY <2>2, <2>3
<1> QED BY <1>1, <1>4, <1>5 DEF t, Orderly

(***************************************************************************)
(* The inductive invariant: what is in memory and in the files is in the   *)
(* order of its ids, and a file no write of which has failed can be read.  *)
(***************************************************************************)
SessionInv ==
  /\ lastId \in Nat /\ leafId \in Nat /\ flushed \in BOOLEAN
  /\ Entered(fileEntries, lastId)
  /\ Files /\ IntactFiles /\ Restorable

\* The entry that is added.
NewOne(parent, type, ref) == NewEntry(lastId + 1, parent, type, ref)

LEMMA NewOneIs ==
  ASSUME lastId \in Nat, NEW parent \in Nat, NEW ref \in Nat, NEW type \in EntryTypes \ {"malformed"}
  PROVE  LET e == NewOne(parent, type, ref) IN e \in Entries /\ e.id = lastId + 1 /\ e.type = type /\ e.type # "malformed"
  BY DEF NewOne, NewEntry, Entries

LEMMA NoFileIs ==
  ASSUME NEW f, f \notin DOMAIN disk, NEW ls \in Seq(Entries)
  PROVE  FileAt(f) = NoFile /\ FileAt(f).lines \o ls = ls /\ Written(FileAt(f), ls).lines = ls
<1>1. FileAt(f) = NoFile /\ NoFile.lines = <<>> /\ NoFile.open = FALSE
  BY DEF FileAt, NoFile, EndedLines
<1>2. <<>> \o ls = ls
  BY ConcatEmptySeq
<1>3. Written(NoFile, ls).lines = <<>> \o ls
  BY <1>1 DEF Written
<1> QED BY <1>1, <1>2, <1>3

LEMMA AppendKeeps ==
  ASSUME SessionInv, NEW parent \in Nat, NEW ref \in Nat, NEW type \in EntryTypes \ {"malformed"},
         appendEntry(parent, type, ref)
  PROVE  SessionInv' /\ Grown /\ sessionFile' = sessionFile
<1>0. PICK f, e, es : f = sessionFile /\ e = NewOne(parent, type, ref) /\ es = Append(fileEntries, e)
  OBVIOUS
<1>1. e \in Entries /\ e.id = lastId + 1 /\ e.type # "malformed" /\ lastId \in Nat
  BY <1>0, NewOneIs DEF SessionInv
<1>2. /\ lastId' = lastId + 1 /\ fileEntries' = es /\ leafId' = lastId + 1 /\ sessionFile' = sessionFile
      /\ \E ok \in BOOLEAN : persist(es, ok)
  BY <1>0 DEF appendEntry, NewOne
<1>3. PICK ok \in BOOLEAN : persist(es, ok)
  BY <1>2
<1>4. Entered(es, lastId + 1) /\ Last(es) = e
  BY <1>0, <1>1, EnteredMore DEF SessionInv
<1>5. lastId' \in Nat /\ lastId <= lastId' /\ leafId' \in Nat /\ lastId' = lastId + 1
  BY <1>1, <1>2
<1>6. fileEntries \in Seq(Entries) /\ Files /\ IntactFiles /\ Restorable /\ flushed \in BOOLEAN
  BY DEF SessionInv, Entered
<1>7. CASE flushed
  <2> DEFINE file  == FileAt(f)
             lines == <<e>>
  <2>1. WriteLines(f, file, lines, ok) /\ flushed' = flushed
    BY <1>0, <1>3, <1>4, <1>7 DEF persist
  <2>2. Orderly(file.lines, lastId)
    <3>1. CASE f \in DOMAIN disk
      BY <1>6, <3>1 DEF FileAt, Files
    <3>2. CASE f \notin DOMAIN disk
      <4>1. file.lines = <<>> /\ <<>> \in Seq(Entries) /\ Len(<<>>) = 0
        BY <3>2 DEF FileAt, NoFile, EndedLines
      <4> QED BY <4>1 DEF Orderly
    <3> QED BY <3>1, <3>2
  <2> DEFINE ls == file.lines
  <2>3. Orderly(ls \o lines, lastId') /\ ls \o lines = Append(ls, e)
    <3> HIDE DEF file
    <3>1. Orderly(Append(ls, e), lastId + 1) /\ ls \o <<e>> = Append(ls, e)
      BY <1>1, <2>2, OrderlyMore
    <3> QED BY <1>5, <3>1
  <2>4. f \notin damaged => /\ f \in DOMAIN disk /\ LoadedEntries(file) = fileEntries
                            /\ HasHeader(file) /\ ~file.open
    <3> SUFFICES ASSUME f \notin damaged PROVE f \in DOMAIN disk /\ LoadedEntries(file) = fileEntries /\ Intact(file)
      BY DEF Intact
    <3>1. f \in DOMAIN disk /\ LoadedEntries(disk[f]) = fileEntries
      BY <1>0, <1>6, <1>7 DEF Restorable
    <3> QED BY <1>6, <3>1 DEF FileAt, IntactFiles
  <2> HIDE DEF file
  <2>5. f \notin damaged => Written(file, lines).lines = Append(ls, e)
    BY <2>3, <2>4 DEF Written
  <2> DEFINE more == Written(file, lines)
  <2>6. f \notin damaged => HasHeader(more) /\ LoadedEntries(more) = es
    <3> SUFFICES ASSUME f \notin damaged PROVE HasHeader(more) /\ LoadedEntries(more) = es
      OBVIOUS
    <3>1. more.lines = Append(ls, e)
      BY <2>5
    <3> HIDE DEF more
    <3>a. /\ lastId \in Nat /\ Orderly(file.lines, lastId) /\ HasHeader(file) /\ e \in Entries
          /\ e.type # "malformed" /\ more.lines = Append(file.lines, e)
      BY <1>1, <2>2, <2>4, <3>1
    <3>2. HasHeader(more) /\ LoadedEntries(more) = Append(LoadedEntries(file), e)
      BY ONLY <3>a, WrittenMore
    <3> QED BY <1>0, <2>4, <3>2
  <2>7. lines \in Seq(Entries) /\ lines = <<e>>
    BY <1>1
  <2> HIDE DEF lines
  <2>8. /\ Files' /\ IntactFiles' /\ Grown
        /\ ok => damaged' = damaged /\ f \in DOMAIN disk' /\ disk'[f] = more
        /\ ~ok => damaged' = damaged \cup {f}
    <3>1. /\ lines \in Seq(Entries) /\ ok \in BOOLEAN /\ WriteLines(f, FileAt(f), lines, ok)
          /\ lastId \in Nat /\ lastId' \in Nat /\ lastId <= lastId' /\ Files /\ IntactFiles
          /\ Orderly(FileAt(f).lines \o lines, lastId')
      BY <1>1, <1>3, <1>5, <1>6, <2>1, <2>3, <2>7 DEF file
    <3>2. f \in damaged \/ HasHeader(Written(FileAt(f), lines))
      BY <2>6 DEF file
    <3>5. /\ Files' /\ IntactFiles' /\ Grown
          /\ ok => damaged' = damaged /\ f \in DOMAIN disk' /\ disk'[f] = Written(FileAt(f), lines)
          /\ ~ok => damaged' = damaged \cup {f}
      <4>1. CASE f \in damaged
        BY ONLY <3>1, <4>1, WriteIs
      <4>2. CASE HasHeader(Written(FileAt(f), lines))
        BY ONLY <3>1, <4>2, WriteIs
      <4> QED BY ONLY <3>2, <4>1, <4>2
    <3> QED BY <3>5 DEF file
  <2>9. Restorable'
    <3> HIDE DEF more
    <3> QED BY <1>0, <1>2, <1>7, <2>1, <2>6, <2>8 DEF Restorable
  <2> QED BY <1>2, <1>4, <1>5, <1>6, <1>7, <2>1, <2>8, <2>9 DEF SessionInv
<1>8. CASE ~flushed /\ HasAssistant(es) /\ f \notin DOMAIN disk
  <2> DEFINE lines == <<Header>> \o es
             file  == FileAt(f)
             more  == Written(file, lines)
  <2>1. Orderly(lines, lastId')
    BY <1>1, <1>4, <1>5, HeadedOrderly
  <2>2. lines \in Seq(Entries)
    BY <2>1 DEF Orderly
  <2>3. file = NoFile /\ file.lines \o lines = lines /\ more.lines = lines
    <3> HIDE DEF lines
    <3> QED BY <1>8, <2>2, NoFileIs
  <2>4. WriteLines(f, file, lines, ok) /\ flushed' = ok
    <3>1. WriteLines(f, NoFile, lines, ok) /\ flushed' = ok
      BY <1>0, <1>3, <1>8 DEF persist
    <3> QED BY <2>3, <3>1
  <2>5. HasHeader(more) /\ LoadedEntries(more) = es
    <3> HIDE DEF more
    <3> QED BY <1>4, <1>5, <2>3, WrittenWhole
  <2> HIDE DEF lines
  <2>6. /\ Files' /\ IntactFiles' /\ Grown
        /\ ok => damaged' = damaged /\ f \in DOMAIN disk' /\ disk'[f] = more
        /\ ~ok => damaged' = damaged \cup {f}
    <3>1. /\ lines \in Seq(Entries) /\ ok \in BOOLEAN /\ WriteLines(f, FileAt(f), lines, ok)
          /\ lastId \in Nat /\ lastId' \in Nat /\ lastId <= lastId' /\ Files /\ IntactFiles
          /\ Orderly(FileAt(f).lines \o lines, lastId')
          /\ HasHeader(Written(FileAt(f), lines))
      BY <1>1, <1>3, <1>5, <1>6, <2>1, <2>2, <2>3, <2>4, <2>5
    <3>2. /\ Files' /\ IntactFiles' /\ Grown
          /\ ok => damaged' = damaged /\ f \in DOMAIN disk' /\ disk'[f] = Written(FileAt(f), lines)
          /\ ~ok => damaged' = damaged \cup {f}
      BY ONLY <3>1, WriteIs
    <3> QED BY <3>2
  <2>7. Restorable'
    <3> HIDE DEF more
    <3> QED BY <1>0, <1>2, <2>4, <2>5, <2>6 DEF Restorable
  <2> QED BY <1>2, <1>3, <1>4, <1>5, <2>4, <2>6, <2>7 DEF SessionInv
<1>9. CASE ~flushed /\ ~(HasAssistant(es) /\ f \notin DOMAIN disk)
  <2>1. disk' = disk /\ damaged' = damaged /\ flushed' = flushed
    BY <1>0, <1>3, <1>9 DEF persist
  <2>2. Files' /\ IntactFiles' /\ Grown
    BY <1>1, <1>5, <1>6, <2>1, SameFiles
  <2>3. Restorable'
    BY <1>0, <1>2, <1>6, <1>9, <2>1 DEF Restorable
  <2> QED BY <1>2, <1>4, <1>5, <1>6, <2>1, <2>2, <2>3 DEF SessionInv
<1> QED BY <1>6, <1>7, <1>8, <1>9

LEMMA IdsAreNumbers ==
  ASSUME NEW k \in Nat, NEW es, Entered(es, k)
  PROVE  /\ Ids(es) \subseteq 1..k /\ Ids(es) \subseteq Nat
         /\ DOMAIN es = 1..Len(es) /\ Len(es) \in Nat
         /\ es # <<>> => Len(es) \in 1..Len(es) /\ Last(es) = es[Len(es)] /\ Last(es).id \in 1..k
<1>1. es \in Seq(Entries) /\ DOMAIN es = 1..Len(es) /\ Len(es) \in Nat /\ \A i \in 1..Len(es) : es[i].id \in 1..k
  BY DEF Entered
<1>2. Ids(es) \subseteq 1..k
  BY <1>1 DEF Ids
<1>3. es # <<>> => Len(es) # 0
  BY <1>1, EmptySeq
<1>4. es # <<>> => Len(es) \in 1..Len(es) /\ Last(es) = es[Len(es)] /\ Last(es).id \in 1..k
  BY <1>1, <1>3 DEF Last
<1> QED BY <1>1, <1>2, <1>4

LEMMA AdoptIs ==
  ASSUME NEW f, NEW es, NEW saved, Adopt(f, es, saved), NEW k \in Nat, Entered(es, k)
  PROVE  sessionFile' = f /\ fileEntries' = es /\ flushed' = saved /\ leafId' \in Nat
<1>1. es # <<>> => Last(es).id \in Nat
  BY IdsAreNumbers
<1> QED BY <1>1 DEF Adopt

\* A cut is after an entry, so something is kept.
LEMMA KeptIs ==
  ASSUME NEW path \in Seq(Entries) PROVE FirstKept(path) \subseteq Nat
<1> DEFINE ends == {0} \cup {i \in DOMAIN path : path[i].type \in {"user", "assistant", "compaction"}}
<1>1. Len(path) \in Nat /\ DOMAIN path = 1..Len(path) /\ \A i \in 1..Len(path) : path[i].id \in Nat
  <2>1. \A i \in 1..Len(path) : path[i] \in Entries
    OBVIOUS
  <2> QED BY <2>1 DEF Entries
<1>2. ASSUME NEW cut \in 1..Len(path) PROVE path[Max({i \in ends : i < cut}) + 1].id \in Nat
  <2> DEFINE E == {i \in ends : i < cut}
  <2>1. E \in SUBSET (0..cut) /\ 0 \in E /\ cut \in Nat /\ \A i \in E : i < cut /\ i \in Nat
    BY <1>1
  <2> HIDE DEF E
  <2>2. Max(E) \in E
    BY <2>1, MaxIs
  <2>3. Max(E) + 1 \in 1..Len(path)
    <3> DEFINE m == Max(E)
    <3>1. m < cut /\ m \in Nat
      BY <2>1, <2>2
    <3> HIDE DEF m
    <3>2. m + 1 \in 1..Len(path)
      BY <1>1, <2>1, <3>1
    <3> QED BY <3>2 DEF m
  <2> QED BY <1>1, <2>3 DEF E
<1> QED BY <1>1, <1>2 DEF FirstKept

LEMMA AppendsKeep ==
  ASSUME SessionInv,
         \/ \E role \in {"user", "assistant"} : AppendMessage(role)
         \/ RecordCompaction
         \/ \E target \in 1..MaxIds : AppendLabelChange(target, "label") \/ AppendLabelChange(target, "unlabel")
         \/ \E id \in 0..MaxIds : BranchWithSummary(id)
  PROVE  SessionInv' /\ Grown /\ sessionFile' = sessionFile
<1>1. leafId \in Nat /\ lastId \in Nat /\ Ids(fileEntries) \subseteq Nat /\ fileEntries \in Seq(Entries) /\ Rises(fileEntries)
  BY IdsAreNumbers DEF SessionInv, Entered
<1>2. 0 \in Nat /\ \A t \in {"user", "assistant", "compaction", "label", "unlabel", "branch_summary"} : t \in EntryTypes \ {"malformed"}
  BY DEF EntryTypes
<1>3. CASE \E role \in {"user", "assistant"} : AppendMessage(role)
  <2>1. PICK role \in {"user", "assistant"} : appendEntry(leafId, role, 0)
    BY <1>3 DEF AppendMessage
  <2>2. role \in EntryTypes \ {"malformed"}
    BY <1>2, <2>1
  <2> QED BY <1>1, <1>2, <2>1, <2>2, AppendKeeps
<1>4. CASE RecordCompaction
  <2>1. PICK kept \in FirstKept(getBranch(fileEntries, leafId)) : appendEntry(leafId, "compaction", kept)
    BY <1>4 DEF RecordCompaction
  <2>2. getBranch(fileEntries, leafId) \in Seq(Entries)
    BY <1>1, BranchRises
  <2>3. kept \in Nat
    BY <2>1, <2>2, KeptIs
  <2> QED BY <1>1, <1>2, <2>1, <2>3, AppendKeeps
<1>5. CASE \E target \in 1..MaxIds : AppendLabelChange(target, "label") \/ AppendLabelChange(target, "unlabel")
  <2>1. PICK target \in 1..MaxIds, type \in {"label", "unlabel"} : AppendLabelChange(target, type)
    BY <1>5
  <2>2. target \in Nat /\ appendEntry(leafId, type, target) /\ type \in EntryTypes \ {"malformed"}
    BY <1>1, <1>2, <2>1 DEF AppendLabelChange
  <2> QED BY <1>1, <2>2, AppendKeeps
<1>6. CASE \E id \in 0..MaxIds : BranchWithSummary(id)
  <2>1. PICK id : BranchWithSummary(id)
    BY <1>6
  <2>2. id \in Nat /\ appendEntry(id, "branch_summary", 0)
    BY <1>1, <2>1 DEF BranchWithSummary
  <2> QED BY <1>2, <2>2, AppendKeeps
<1> QED BY <1>3, <1>4, <1>5, <1>6

LEMMA MovesKeep ==
  ASSUME SessionInv, (\E id \in 0..MaxIds : Branch(id)) \/ NewSession
  PROVE  SessionInv' /\ Grown
<1>1. disk' = disk /\ damaged' = damaged /\ lastId' = lastId
  BY DEF Branch, NewSession
<1>2. Files' /\ IntactFiles' /\ Grown /\ lastId \in Nat
  <2>1. lastId \in Nat /\ Files /\ IntactFiles
    BY DEF SessionInv
  <2> QED BY <1>1, <2>1, SameFiles
<1>3. CASE \E id \in 0..MaxIds : Branch(id)
  <2>1. PICK id : Branch(id)
    BY <1>3
  <2>2. id \in Nat
    BY <2>1, IdsAreNumbers DEF Branch, SessionInv
  <2>3. leafId' = id /\ fileEntries' = fileEntries /\ flushed' = flushed /\ sessionFile' = sessionFile
    BY <2>1 DEF Branch
  <2>4. Restorable'
    BY <1>1, <2>3 DEF SessionInv, Restorable
  <2> QED BY <1>1, <1>2, <2>2, <2>3, <2>4 DEF SessionInv
<1>4. CASE NewSession
  <2>1. PICK f \in UnusedFiles : Adopt(f, <<>>, FALSE)
    BY <1>4 DEF NewSession
  <2>2. Entered(<<>>, lastId) /\ ~HasAssistant(<<>>)
    <3>1. <<>> \in Seq(Entries) /\ Len(<<>>) = 0 /\ DOMAIN <<>> = {}
      OBVIOUS
    <3> QED BY <3>1 DEF Entered, Rises, HasAssistant
  <2>3. sessionFile' = f /\ fileEntries' = <<>> /\ flushed' = FALSE /\ leafId' \in Nat
    BY <1>2, <2>1, <2>2, AdoptIs
  <2>4. f \notin DOMAIN disk
    BY <2>1 DEF UnusedFiles
  <2>5. Restorable'
    BY <1>1, <2>2, <2>3, <2>4 DEF Restorable
  <2> QED BY <1>1, <1>2, <2>2, <2>3, <2>5 DEF SessionInv
<1> QED BY <1>3, <1>4

(***************************************************************************)
(* What a fork is made of: the entries kept of a path and the labels.      *)
(***************************************************************************)
NoLabels(path) == {i \in DOMAIN path : ~IsLabel(path[i])}
Kept(es, id) == Chosen(getBranch(es, id), NoLabels(getBranch(es, id)))
Numbers == [n \in 1..lastId |-> n]
Targets(es, id) == Chosen(Numbers, Labelled(es) \cap Ids(Kept(es, id)))
EndOf(es) == IF es = <<>> THEN 0 ELSE Last(es).id

LEMMA PathIsEntered ==
  ASSUME NEW k \in Nat, NEW es, Entered(es, k), NEW id PROVE Entered(getBranch(es, id), k)
<1> DEFINE path == getBranch(es, id)
<1>1. es \in Seq(Entries) /\ Rises(es) /\ \A j \in 1..Len(es) : es[j].id \in 1..k /\ es[j].type # "malformed"
  BY DEF Entered
<1>2. path \in Seq(Entries) /\ Rises(path) /\ \A i \in 1..Len(path) : \E j \in 1..Len(es) : path[i] = es[j]
  BY <1>1, BranchRises
<1> HIDE DEF path
<1>3. Entered(path, k)
  BY <1>1, <1>2 DEF Entered
<1> QED BY <1>3 DEF path

LEMMA KeptEntries ==
  ASSUME NEW k \in Nat, NEW es, Entered(es, k), NEW id
  PROVE  /\ Entered(Kept(es, id), k)
         /\ \A i \in 1..Len(Kept(es, id)) : ~IsLabel(Kept(es, id)[i])
         /\ Picked(getBranch(es, id), NoLabels(getBranch(es, id)), Kept(es, id))
<1> DEFINE path == getBranch(es, id)
           I    == NoLabels(path)
           r    == Chosen(path, I)
<1>1. Entered(path, k)
  BY PathIsEntered
<1>2. Kept(es, id) = r
  BY DEF Kept
<1> HIDE DEF path
<1>3. path \in Seq(Entries) /\ DOMAIN path = 1..Len(path)
  BY <1>1 DEF Entered
<1>4. Places(path, I) = I /\ \A i \in I : i \in 1..Len(path) /\ ~IsLabel(path[i])
  BY <1>3 DEF Places, NoLabels
<1> HIDE DEF I
<1>5. r \in Seq(Entries) /\ Picked(path, I, r)
  BY <1>3, <1>4, ChosenPicked
<1>6. PICK p : Picks(path, I, r, p)
  BY <1>5 DEF Picked
<1> HIDE DEF r
<1>7. /\ \A i \in 1..Len(r) : p[i] \in I /\ r[i] = path[p[i]]
      /\ \A i, j \in 1..Len(r) : i < j => p[i] < p[j]
  BY <1>6 DEF Picks, Enumerates
<1>8. \A i \in 1..Len(r) : ~IsLabel(r[i]) /\ r[i].id \in 1..k /\ r[i].type # "malformed"
  BY <1>1, <1>4, <1>7 DEF Entered
<1>9. Rises(r)
  <2> SUFFICES ASSUME NEW i \in 1..Len(r), NEW j \in 1..Len(r), i < j PROVE r[i].id < r[j].id
    BY DEF Rises
  <2>1. p[i] \in 1..Len(path) /\ p[j] \in 1..Len(path) /\ p[i] < p[j]
    BY <1>4, <1>7
  <2>2. path[p[i]].id < path[p[j]].id
    BY <1>1, <2>1 DEF Entered, Rises
  <2> QED BY <1>7, <2>2
<1>10. Entered(r, k)
  BY <1>5, <1>8, <1>9 DEF Entered
<1> QED BY <1>2, <1>5, <1>8, <1>10 DEF path, I

LEMMA TargetsAre ==
  ASSUME lastId \in Nat, NEW es, Entered(es, lastId), NEW id
  PROVE  LET ts == Targets(es, id) IN
         /\ ts \in Seq(Nat)
         /\ \A n \in 1..Len(ts) : ts[n] \in Labelled(es) \cap Ids(Kept(es, id))
         /\ \A n, m \in 1..Len(ts) : n # m => ts[n] # ts[m]
         /\ \A t \in Labelled(es) \cap Ids(Kept(es, id)) : \E n \in 1..Len(ts) : ts[n] = t
<1> DEFINE T  == Labelled(es) \cap Ids(Kept(es, id))
           ts == Chosen(Numbers, T)
<1>1. Numbers \in Seq(Nat) /\ Len(Numbers) = lastId /\ \A n \in 1..lastId : Numbers[n] = n
  BY DEF Numbers
<1>2. Ids(Kept(es, id)) \subseteq 1..lastId
  BY KeptEntries, IdsAreNumbers
<1>3. Places(Numbers, T) = T
  BY <1>1, <1>2 DEF Places
<1>4. Targets(es, id) = ts
  BY DEF Targets
<1> HIDE DEF T
<1>5. ts \in Seq(Nat) /\ Picked(Numbers, T, ts)
  BY <1>1, <1>3, ChosenPicked
<1>6. PICK p : Picks(Numbers, T, ts, p)
  BY <1>5 DEF Picked
<1> HIDE DEF ts
<1>7. T \subseteq 1..lastId
  BY <1>2 DEF T
<1>8. \A n \in 1..Len(ts) : p[n] \in T /\ ts[n] = p[n]
  BY <1>1, <1>6, <1>7 DEF Picks, Enumerates
<1>9. \A n, m \in 1..Len(ts) : n < m => p[n] < p[m]
  BY <1>6 DEF Picks, Enumerates
<1>10. \A t \in T : \E n \in 1..Len(ts) : ts[n] = t
  BY <1>6, <1>8 DEF Picks, Enumerates
<1>11. ASSUME NEW n \in 1..Len(ts), NEW m \in 1..Len(ts), n # m PROVE ts[n] # ts[m]
  <2>1. p[n] \in 1..lastId /\ p[m] \in 1..lastId /\ ts[n] = p[n] /\ ts[m] = p[m]
    BY <1>7, <1>8
  <2>2. n < m \/ m < n
    BY <1>11
  <2> QED BY <1>9, <2>1, <2>2
<1> QED BY <1>4, <1>5, <1>8, <1>10, <1>11 DEF T

LEMMA LabelledAreIds == ASSUME NEW es PROVE Labelled(es) \subseteq Ids(es)
  BY DEF Labelled

LEMMA RechainedIs ==
  ASSUME NEW k \in Nat, NEW es, Entered(es, k)
  PROVE  LET r == Rechained(es) IN
         /\ r \in Seq(Entries) /\ Len(r) = Len(es)
         /\ \A i \in 1..Len(es) : /\ r[i].id = es[i].id /\ r[i].type = es[i].type /\ r[i].ref = es[i].ref
                                  /\ r[i].parent = IF i = 1 THEN 0 ELSE es[i - 1].id
<1> DEFINE P(i) == IF i = 1 THEN 0 ELSE es[i - 1].id
           R(i) == [es[i] EXCEPT !.parent = P(i)]
           r    == [i \in 1..Len(es) |-> R(i)]
<1>1. es \in Seq(Entries) /\ DOMAIN es = 1..Len(es) /\ Len(es) \in Nat /\ \A i \in 1..Len(es) : es[i] \in Entries
  BY DEF Entered
<1>2. Rechained(es) = r
  BY <1>1 DEF Rechained
<1>3. ASSUME NEW i \in 1..Len(es) PROVE P(i) \in Nat
  <2>1. CASE i = 1
    BY <2>1
  <2>2. CASE i # 1
    <3>1. i - 1 \in 1..Len(es)
      BY <1>1, <2>2
    <3>2. es[i - 1] \in Entries
      BY <1>1, <3>1
    <3> QED BY <2>2, <3>2 DEF Entries
  <2> QED BY <2>1, <2>2
<1> HIDE DEF P
<1>4. ASSUME NEW i \in 1..Len(es)
      PROVE  R(i) \in Entries /\ R(i).id = es[i].id /\ R(i).type = es[i].type /\ R(i).ref = es[i].ref /\ R(i).parent = P(i)
  <2>1. P(i) \in Nat /\ es[i] \in Entries
    BY <1>1, <1>3
  <2> DEFINE e == es[i]
             x == P(i)
  <2>2. e \in Entries /\ x \in Nat
    BY <2>1
  <2>3. R(i) = [e EXCEPT !.parent = x]
    OBVIOUS
  <2> HIDE DEF e, x, R
  <2>4. R(i) \in Entries /\ R(i).id = e.id /\ R(i).type = e.type /\ R(i).ref = e.ref /\ R(i).parent = x
    BY <2>2, <2>3 DEF Entries
  <2> QED BY <2>4 DEF e, x
<1> HIDE DEF R
<1>5. r \in Seq(Entries) /\ Len(r) = Len(es) /\ \A i \in 1..Len(es) : r[i] = R(i)
  BY <1>1, <1>4
<1> HIDE DEF r
<1>6. \A i \in 1..Len(es) : /\ r[i].id = es[i].id /\ r[i].type = es[i].type /\ r[i].ref = es[i].ref /\ r[i].parent = P(i)
  BY <1>4, <1>5
<1> QED BY <1>2, <1>5, <1>6 DEF P

\* Labels(e, m): the entry at each place of a fork that begins with the entries a.
NewLabel(end, ts, n) == NewEntry(lastId + n, IF n = 1 THEN end ELSE lastId + n - 1, "label", ts[n])

LEMMA ForkedIs ==
  ASSUME lastId \in Nat, NEW es, Entered(es, lastId), NEW id
  PROVE  LET kept == Kept(es, id)
             ts   == Targets(es, id)
             fs   == Forked(es, id)
         IN /\ fs \in Seq(Entries) /\ Len(fs) = Len(kept) + Len(ts) /\ Len(kept) \in Nat /\ Len(ts) \in Nat
            /\ Len(ts) # 0 => Len(kept) # 0
            /\ \A i \in 1..Len(kept) : /\ fs[i].id = kept[i].id /\ fs[i].type = kept[i].type /\ fs[i].ref = kept[i].ref
                                       /\ fs[i].parent = IF i = 1 THEN 0 ELSE kept[i - 1].id
            /\ \A n \in 1..Len(ts) : fs[Len(kept) + n] = NewLabel(EndOf(kept), ts, n)
<1> DEFINE kept == Kept(es, id)
           ts   == Targets(es, id)
           A    == Rechained(kept)
           B    == [n \in 1..Len(ts) |-> NewLabel(EndOf(kept), ts, n)]
           fs   == A \o B
<1>1. Entered(kept, lastId) /\ kept \in Seq(Entries) /\ Len(kept) \in Nat
  <2>1. Entered(kept, lastId)
    BY KeptEntries
  <2> HIDE DEF kept
  <2>2. kept \in Seq(Entries)
    BY <2>1 DEF Entered
  <2> QED BY <2>1, <2>2
<1>2. /\ ts \in Seq(Nat) /\ DOMAIN ts = 1..Len(ts) /\ Len(ts) \in Nat
      /\ \A n \in 1..Len(ts) : ts[n] \in Nat /\ ts[n] \in Ids(kept)
  BY TargetsAre
<1>3. Forked(es, id) = fs
  BY <1>2 DEF Forked, Kept, Targets, NoLabels, Numbers, EndOf, NewLabel
<1> HIDE DEF kept, ts
<1>4. /\ A \in Seq(Entries) /\ Len(A) = Len(kept)
      /\ \A i \in 1..Len(kept) : /\ A[i].id = kept[i].id /\ A[i].type = kept[i].type /\ A[i].ref = kept[i].ref
                                 /\ A[i].parent = IF i = 1 THEN 0 ELSE kept[i - 1].id
  BY <1>1, RechainedIs
<1>5. EndOf(kept) \in Nat
  BY <1>1, IdsAreNumbers DEF EndOf
<1>6. \A n \in 1..Len(ts) : NewLabel(EndOf(kept), ts, n) \in Entries
  <2> SUFFICES ASSUME NEW n \in 1..Len(ts) PROVE NewLabel(EndOf(kept), ts, n) \in Entries
    OBVIOUS
  <2>1. ts[n] \in Nat /\ lastId + n \in Nat /\ lastId + n - 1 \in Nat /\ "label" \in EntryTypes
    BY <1>2 DEF EntryTypes
  <2> QED BY <1>5, <2>1 DEF NewLabel, NewEntry, Entries
<1>7. B \in Seq(Entries) /\ Len(B) = Len(ts) /\ \A n \in 1..Len(ts) : B[n] = NewLabel(EndOf(kept), ts, n)
  BY <1>2, <1>6
<1> HIDE DEF A, B
<1>8. /\ fs \in Seq(Entries) /\ Len(fs) = Len(A) + Len(B)
      /\ (\A i \in 1..Len(A) : fs[i] = A[i]) /\ (\A n \in 1..Len(B) : fs[Len(A) + n] = B[n])
  <2>1. A \in Seq(Entries) /\ B \in Seq(Entries)
    BY <1>4, <1>7
  <2> QED BY ONLY <2>1, ConcatIs
<1> HIDE DEF fs
<1>9. Len(ts) # 0 => Len(kept) # 0
  <2> SUFFICES ASSUME Len(ts) # 0 PROVE Len(kept) # 0
    OBVIOUS
  <2>1. 1 \in 1..Len(ts)
    BY <1>2
  <2>2. ts[1] \in Ids(kept)
    BY <1>2, <2>1
  <2>3. DOMAIN kept # {} /\ DOMAIN kept = 1..Len(kept)
    BY <1>1, <2>2 DEF Ids
  <2> QED BY <2>3
<1>10. \A i \in 1..Len(kept) : fs[i] = A[i]
  BY <1>4, <1>8
<1>11. \A n \in 1..Len(ts) : fs[Len(kept) + n] = NewLabel(EndOf(kept), ts, n)
  BY <1>4, <1>7, <1>8
<1>12. fs \in Seq(Entries) /\ Len(fs) = Len(kept) + Len(ts)
  BY <1>4, <1>7, <1>8
<1>13. \A i \in 1..Len(kept) : /\ fs[i].id = kept[i].id /\ fs[i].type = kept[i].type /\ fs[i].ref = kept[i].ref
                               /\ fs[i].parent = IF i = 1 THEN 0 ELSE kept[i - 1].id
  BY <1>4, <1>10
<1> QED BY <1>1, <1>2, <1>3, <1>9, <1>11, <1>12, <1>13 DEF kept, ts

LEMMA ForkIsEntered ==
  ASSUME lastId \in Nat, NEW es, Entered(es, lastId), NEW id
  PROVE  LET fs == Forked(es, id) IN
         /\ Entered(fs, lastId + Len(Targets(es, id))) /\ Chained(fs) /\ Len(Targets(es, id)) \in Nat
<1> DEFINE kept == Kept(es, id)
           ts   == Targets(es, id)
           fs   == Forked(es, id)
           a    == Len(kept)
           b    == Len(ts)
           m    == lastId + b
<1>1. /\ fs \in Seq(Entries) /\ Len(fs) = a + b /\ a \in Nat /\ b \in Nat
      /\ b # 0 => a # 0
      /\ \A i \in 1..a : /\ fs[i].id = kept[i].id /\ fs[i].type = kept[i].type /\ fs[i].ref = kept[i].ref
                         /\ fs[i].parent = IF i = 1 THEN 0 ELSE kept[i - 1].id
      /\ \A n \in 1..b : fs[a + n] = NewLabel(EndOf(kept), ts, n)
  BY ForkedIs
<1>2. Entered(kept, lastId)
  BY KeptEntries
<1>3. EndOf(kept) = IF a = 0 THEN 0 ELSE kept[a].id
  <2>1. kept = <<>> => a = 0
    OBVIOUS
  <2> HIDE DEF kept
  <2>2. kept # <<>> => a # 0 /\ Last(kept) = kept[a]
    BY <1>2, IdsAreNumbers
  <2> QED BY <2>1, <2>2 DEF EndOf
<1> HIDE DEF kept, ts, fs
<1>4. \A i \in 1..a : kept[i].id \in 1..lastId /\ kept[i].type # "malformed"
  BY <1>2 DEF Entered
<1>5. \A i, j \in 1..a : i < j => kept[i].id < kept[j].id
  BY <1>2 DEF Entered, Rises
<1> DEFINE end == EndOf(kept)
<1>6. ASSUME NEW n \in 1..b
      PROVE  /\ fs[a + n].id = lastId + n /\ fs[a + n].type = "label" /\ fs[a + n].ref = ts[n]
             /\ fs[a + n].parent = IF n = 1 THEN end ELSE lastId + n - 1
  <2> HIDE DEF a, b, end
  <2>1. fs[a + n] = [id |-> lastId + n, parent |-> IF n = 1 THEN end ELSE lastId + n - 1, type |-> "label", ref |-> ts[n]]
    BY <1>1 DEF NewLabel, NewEntry, end
  <2> QED BY <2>1
<1>a. end = IF a = 0 THEN 0 ELSE kept[a].id
  BY <1>3
<1> HIDE DEF a, b, end
<1>7. \A i \in 1..(a + b) : i \in 1..a \/ (i - a \in 1..b /\ i = a + (i - a))
  BY <1>1
<1>8. ASSUME NEW i \in 1..(a + b)
      PROVE  fs[i].id \in 1..m /\ fs[i].type # "malformed" /\ (i \in 1..a => fs[i].id \in 1..lastId)
  <2>1. CASE i \in 1..a
    BY <1>1, <1>4, <2>1
  <2>2. CASE i \notin 1..a
    <3> DEFINE n == i - a
    <3>1. n \in 1..b /\ i = a + n
      BY <1>7, <2>2
    <3> HIDE DEF n
    <3>2. fs[i].id = lastId + n /\ fs[i].type = "label"
      BY <1>6, <3>1
    <3> QED BY <1>1, <2>2, <3>1, <3>2
  <2> QED BY <2>1, <2>2
<1>9. ASSUME NEW i \in 1..(a + b), NEW j \in 1..(a + b), i < j PROVE fs[i].id < fs[j].id
  <2>1. CASE j \in 1..a
    <3>1. i \in 1..a
      BY <1>1, <1>9, <2>1
    <3> QED BY <1>1, <1>5, <1>9, <2>1, <3>1
  <2>2. CASE j \notin 1..a
    <3> DEFINE n == j - a
    <3>1. n \in 1..b /\ j = a + n
      BY <1>7, <2>2
    <3> HIDE DEF n
    <3>2. fs[j].id = lastId + n
      BY <1>6, <3>1
    <3>3. CASE i \in 1..a
      <4>1. fs[i].id \in 1..lastId
        BY <1>8, <3>3
      <4> QED BY <3>1, <3>2, <4>1
    <3>4. CASE i \notin 1..a
      <4> DEFINE l == i - a
      <4>1. l \in 1..b /\ i = a + l
        BY <1>7, <3>4
      <4> HIDE DEF l
      <4>2. fs[i].id = lastId + l
        BY <1>6, <4>1
      <4>3. l < n
        BY <1>1, <1>9, <3>1, <4>1
      <4> QED BY <3>1, <3>2, <4>1, <4>2, <4>3
    <3> QED BY <3>3, <3>4
  <2> QED BY <2>1, <2>2
<1>10. Entered(fs, m)
  <2> HIDE DEF m
  <2>1. Rises(fs)
    BY <1>1, <1>9 DEF Rises
  <2>2. \A i \in 1..Len(fs) : fs[i].id \in 1..m /\ fs[i].type # "malformed"
    BY <1>1, <1>8
  <2> QED BY <1>1, <2>1, <2>2 DEF Entered
<1>11. Chained(fs)
  <2> SUFFICES ASSUME NEW i \in 1..(a + b) PROVE fs[i].parent = IF i = 1 THEN 0 ELSE fs[i - 1].id
    BY <1>1 DEF Chained
  <2>1. CASE i \in 1..a
    <3>1. i # 1 => i - 1 \in 1..a
      BY <1>1, <2>1
    <3> QED BY <1>1, <2>1, <3>1
  <2>2. CASE i \notin 1..a
    <3> DEFINE n == i - a
    <3>1. n \in 1..b /\ i = a + n
      BY <1>7, <2>2
    <3> HIDE DEF n
    <3>2. fs[i].parent = IF n = 1 THEN end ELSE lastId + n - 1
      BY <1>6, <3>1
    <3>3. a # 0 /\ i # 1
      BY <1>1, <3>1
    <3>4. CASE n = 1
      <4>1. i - 1 = a /\ a \in 1..a
        BY <1>1, <3>1, <3>3, <3>4
      <4>2. fs[a].id = kept[a].id
        BY <1>1, <4>1
      <4> QED BY <1>a, <3>2, <3>3, <3>4, <4>1, <4>2
    <3>5. CASE n # 1
      <4> DEFINE l == n - 1
      <4>1. l \in 1..b /\ i - 1 = a + l /\ lastId + n - 1 = lastId + l
        BY <1>1, <3>1, <3>5
      <4> HIDE DEF l
      <4>2. fs[a + l].id = lastId + l
        BY <1>6, <4>1
      <4> QED BY <3>2, <3>3, <3>5, <4>1, <4>2
    <3> QED BY <3>4, <3>5
  <2> QED BY <2>1, <2>2
<1> QED BY <1>1, <1>10, <1>11 DEF fs, ts, b

\* The ids of a fork are at most the greatest of them.
LEMMA EnteredToGreatest ==
  ASSUME NEW n \in Nat, NEW m \in Nat, NEW es, Entered(es, m)
  PROVE  LET l == Max({n} \cup Ids(es)) IN l \in Nat /\ n <= l /\ Entered(es, l)
<1> DEFINE I == {n} \cup Ids(es)
           b == n + m
           l == Max(I)
<1>1. Ids(es) \subseteq 1..m /\ DOMAIN es = 1..Len(es)
  BY IdsAreNumbers
<1>2. b \in Nat /\ I \in SUBSET (0..b) /\ I # {}
  BY <1>1
<1> HIDE DEF b
<1>3. l \in I /\ \A i \in I : i <= l
  <2> HIDE DEF I
  <2> QED BY <1>2, MaxIs
<1> HIDE DEF l
<1>4. l \in Nat /\ n <= l
  BY <1>2, <1>3
<1>5. \A i \in 1..Len(es) : es[i].id \in I /\ es[i].id \in 1..m
  BY <1>1 DEF Ids, Entered
<1>6. \A i \in 1..Len(es) : es[i].id \in 1..l
  BY <1>3, <1>4, <1>5
<1>7. Entered(es, l)
  BY <1>6 DEF Entered
<1> QED BY <1>4, <1>7 DEF l

(***************************************************************************)
(* The context of a path, told by the ids of its entries.                  *)
(***************************************************************************)
ShownTypes == {"user", "assistant", "branch_summary"}
ShownIds(P, s) == {P[i].id : i \in {j \in 1..Len(P) : P[j].type \in ShownTypes /\ P[j].id >= s}}
Summarises(P, l) == /\ l \in 1..Len(P) /\ P[l].type = "compaction"
                    /\ \A i \in 1..Len(P) : P[i].type = "compaction" => i <= l
\* The id from which on messages are kept.
KeptFrom(P, l) == IF \E i \in 1..(l - 1) : P[i].id = P[l].ref THEN P[l].ref ELSE P[l].id
Tells(c, summary, J) ==
  /\ c = [summary |-> summary, messages |-> c.messages]
  /\ c.messages \in Seq(Nat) /\ Enumerates(c.messages, Len(c.messages), J)

LEMMA MessagesAre ==
  ASSUME NEW k \in Nat, NEW P, Entered(P, k), NEW from \in 1..(Len(P) + 1), NEW s,
         \A i \in 1..Len(P) : i >= from <=> P[i].id >= s
  PROVE  LET shown == Chosen(P, {i \in from..Len(P) : P[i].type \in ShownTypes})
             ms    == [i \in DOMAIN shown |-> shown[i].id]
         IN ms \in Seq(Nat) /\ Enumerates(ms, Len(ms), ShownIds(P, s))
<1> DEFINE I     == {i \in from..Len(P) : P[i].type \in ShownTypes}
           shown == Chosen(P, I)
           ms    == [i \in DOMAIN shown |-> shown[i].id]
<1>1. P \in Seq(Entries) /\ Len(P) \in Nat /\ (\A i \in 1..Len(P) : P[i].id \in Nat) /\ Rises(P)
  <2>1. P \in Seq(Entries) /\ Rises(P) /\ \A i \in 1..Len(P) : P[i].id \in 1..k
    BY DEF Entered
  <2> QED BY <2>1
<1>2. Places(P, I) = I /\ \A i : i \in I <=> i \in 1..Len(P) /\ P[i].type \in ShownTypes /\ P[i].id >= s
  BY <1>1 DEF Places
<1> HIDE DEF I
<1>3. shown \in Seq(Entries) /\ Picked(P, I, shown)
  BY <1>1, <1>2, ChosenPicked
<1>4. PICK p : Picks(P, I, shown, p)
  BY <1>3 DEF Picked
<1> HIDE DEF shown
<1>5. DOMAIN shown = 1..Len(shown) /\ Len(shown) \in Nat
  BY <1>3
<1>6. /\ \A i \in 1..Len(shown) : p[i] \in I /\ shown[i] = P[p[i]]
      /\ \A i, j \in 1..Len(shown) : i < j => p[i] < p[j]
      /\ \A j \in I : \E i \in 1..Len(shown) : p[i] = j
  BY <1>4 DEF Picks, Enumerates
<1>7. \A i \in 1..Len(shown) : shown[i].id \in Nat
  BY <1>1, <1>2, <1>6
<1>8. ms \in Seq(Nat) /\ Len(ms) = Len(shown) /\ \A i \in 1..Len(shown) : ms[i] = shown[i].id
  BY <1>5, <1>7
<1> HIDE DEF ms
<1>9. \A i \in 1..Len(ms) : ms[i] \in ShownIds(P, s)
  <2> SUFFICES ASSUME NEW i \in 1..Len(ms) PROVE ms[i] \in ShownIds(P, s)
    OBVIOUS
  <2>1. PICK j : j = p[i]
    OBVIOUS
  <2>2. j \in 1..Len(P) /\ P[j].type \in ShownTypes /\ P[j].id >= s /\ ms[i] = P[j].id
    BY <1>2, <1>6, <1>8, <2>1
  <2> QED BY <2>2 DEF ShownIds
<1>10. ASSUME NEW i \in 1..Len(ms), NEW j \in 1..Len(ms), i < j PROVE ms[i] < ms[j]
  <2>1. p[i] \in 1..Len(P) /\ p[j] \in 1..Len(P) /\ p[i] < p[j] /\ ms[i] = P[p[i]].id /\ ms[j] = P[p[j]].id
    BY <1>2, <1>6, <1>8, <1>10
  <2> QED BY <1>1, <2>1 DEF Rises
<1>11. ASSUME NEW n \in ShownIds(P, s) PROVE \E i \in 1..Len(ms) : ms[i] = n
  <2>1. PICK j \in 1..Len(P) : P[j].type \in ShownTypes /\ P[j].id >= s /\ n = P[j].id
    BY DEF ShownIds
  <2>2. j \in I
    BY <1>2, <2>1
  <2>3. PICK i \in 1..Len(shown) : p[i] = j
    BY <1>6, <2>2
  <2> QED BY <1>6, <1>8, <2>1, <2>3
<1>12. Enumerates(ms, Len(ms), ShownIds(P, s))
  BY <1>9, <1>10, <1>11 DEF Enumerates
<1> QED BY <1>8, <1>12 DEF ms, shown, I

LEMMA ContextWithout ==
  ASSUME NEW k \in Nat, NEW P, Entered(P, k), \A i \in 1..Len(P) : P[i].type # "compaction"
  PROVE  Tells(SessionContext(P), 0, ShownIds(P, 0))
<1> DEFINE shown == Chosen(P, {i \in 1..Len(P) : P[i].type \in ShownTypes})
           ms    == [i \in DOMAIN shown |-> shown[i].id]
           c     == SessionContext(P)
<1>1. P \in Seq(Entries) /\ DOMAIN P = 1..Len(P) /\ Len(P) \in Nat /\ \A i \in 1..Len(P) : P[i].id \in 1..k
  BY DEF Entered
<1>2. {0} \cup {i \in DOMAIN P : P[i].type = "compaction"} = {0} /\ Max({0}) = 0
  <2>1. {0} \in SUBSET (0..0) /\ {0} # {} /\ 0 \in Nat
    OBVIOUS
  <2>2. Max({0}) \in {0}
    BY ONLY <2>1, MaxIs
  <2> QED BY <1>1, <2>2
<1>3. c = [summary |-> 0, messages |-> ms]
  BY <1>2 DEF SessionContext, ShownTypes
<1>4. 1 \in 1..(Len(P) + 1) /\ \A i \in 1..Len(P) : i >= 1 <=> P[i].id >= 0
  BY <1>1
<1>5. ms \in Seq(Nat) /\ Enumerates(ms, Len(ms), ShownIds(P, 0))
  BY <1>4, MessagesAre
<1> HIDE DEF ms, c
<1>6. c.messages = ms
  BY <1>3
<1>7. Tells(c, 0, ShownIds(P, 0))
  BY <1>3, <1>5, <1>6 DEF Tells
<1> QED BY <1>7 DEF c

LEMMA ContextAfter ==
  ASSUME NEW k \in Nat, NEW P, Entered(P, k), NEW l, Summarises(P, l)
  PROVE  Tells(SessionContext(P), P[l].id, ShownIds(P, KeptFrom(P, l)))
<1>1. P \in Seq(Entries) /\ DOMAIN P = 1..Len(P) /\ Len(P) \in Nat /\ (\A i \in 1..Len(P) : P[i].id \in 1..k) /\ Rises(P)
  BY DEF Entered
<1> DEFINE K     == {0} \cup {i \in DOMAIN P : P[i].type = "compaction"}
           first == {i \in 1..(l - 1) : P[i].id = P[l].ref}
           from  == IF first = {} THEN l ELSE Min(first)
           shown == Chosen(P, {i \in from..Len(P) : P[i].type \in ShownTypes})
           ms    == [i \in DOMAIN shown |-> shown[i].id]
           c     == SessionContext(P)
           s     == KeptFrom(P, l)
<1>2. l \in 1..Len(P) /\ l \in K /\ \A i \in K : i <= l
  BY <1>1 DEF Summarises
<1>3. Max(K) = l
  <2>1. Len(P) \in Nat /\ K \in SUBSET (0..Len(P)) /\ K # {}
    BY <1>1
  <2> HIDE DEF K
  <2> DEFINE m == Max(K)
  <2>2. m \in K /\ \A i \in K : i <= m
    BY <2>1, MaxIs
  <2> HIDE DEF m
  <2>3. m <= l /\ l <= m /\ m \in Nat /\ l \in Nat
    BY <1>2, <2>1, <2>2
  <2>4. m = l
    BY <2>3
  <2> QED BY <2>4 DEF m
<1>4. c = [summary |-> P[l].id, messages |-> ms]
  <2>1. l # 0
    BY <1>2
  <2> QED BY <1>3, <2>1 DEF SessionContext, ShownTypes
<1>5. from \in 1..l /\ P[from].id = s
  <2>1. CASE first = {}
    <3>1. s = P[l].id /\ from = l
      BY <2>1 DEF KeptFrom
    <3> HIDE DEF from, s, first
    <3> QED BY <1>1, <1>2, <3>1
  <2>2. CASE first # {}
    <3>1. first \in SUBSET Nat /\ s = P[l].ref
      BY <2>2 DEF KeptFrom
    <3> HIDE DEF s
    <3>2. Min(first) \in first
      <4> HIDE DEF first
      <4> QED BY <2>2, <3>1, MinIs
    <3>3. from \in first
      BY <2>2, <3>2
    <3> HIDE DEF from
    <3> QED BY <1>1, <1>2, <3>1, <3>3
  <2> QED BY <2>1, <2>2
<1> HIDE DEF from, s, first
<1>6. from \in 1..(Len(P) + 1) /\ \A i \in 1..Len(P) : i >= from <=> P[i].id >= s
  <2>1. from \in 1..Len(P) /\ from \in 1..(Len(P) + 1)
    BY <1>1, <1>2, <1>5
  <2>2. ASSUME NEW i \in 1..Len(P) PROVE i >= from <=> P[i].id >= s
    <3>1. P[i].id \in 1..k /\ P[from].id \in 1..k
      BY <1>1, <2>1
    <3>2. CASE i < from
      <4>1. P[i].id < P[from].id
        BY <1>1, <2>1, <3>2 DEF Rises
      <4> QED BY <1>5, <2>1, <3>1, <3>2, <4>1
    <3>3. CASE i = from
      BY <1>5, <3>1, <3>3
    <3>4. CASE i > from
      <4>1. P[from].id < P[i].id
        BY <1>1, <2>1, <3>4 DEF Rises
      <4> QED BY <1>5, <2>1, <3>1, <3>4, <4>1
    <3> QED BY <2>1, <3>2, <3>3, <3>4
  <2> QED BY <2>1, <2>2
<1>7. ms \in Seq(Nat) /\ Enumerates(ms, Len(ms), ShownIds(P, s))
  BY <1>6, MessagesAre
<1> HIDE DEF ms, c
<1>8. c.messages = ms
  BY <1>4
<1>9. Tells(c, P[l].id, ShownIds(P, s))
  BY <1>4, <1>7, <1>8 DEF Tells
<1> QED BY <1>9 DEF c, s

LEMMA TellsOnce ==
  ASSUME NEW c, NEW d, NEW x, NEW J \in SUBSET Nat, Tells(c, x, J), Tells(d, x, J) PROVE c = d
<1> DEFINE a == c.messages
           b == d.messages
           m == Len(a)
           n == Len(b)
<1>1. a \in Seq(Nat) /\ b \in Seq(Nat) /\ Enumerates(a, m, J) /\ Enumerates(b, n, J)
  BY DEF Tells
<1>2. c = [summary |-> x, messages |-> a] /\ d = [summary |-> x, messages |-> b]
  BY DEF Tells
<1> HIDE DEF a, b
<1>3. m \in Nat /\ n \in Nat
  BY <1>1
<1>4. m = n /\ \A i \in 1..m : a[i] = b[i]
  <2>1. J \in SUBSET Nat /\ m \in Nat /\ n \in Nat /\ Enumerates(a, m, J) /\ Enumerates(b, n, J)
    BY <1>1, <1>3
  <2> HIDE DEF m, n
  <2> QED BY ONLY <2>1, EnumerationsAgree
<1>5. a = b
  BY <1>1, <1>4, SeqEqual
<1> QED BY <1>2, <1>5

\* Q has the entries of P but the labels, and other labels at its end.
SameButLabels(P, Q, a, p) ==
  /\ a \in Nat /\ a <= Len(Q)
  /\ \A j \in 1..a : /\ p[j] \in 1..Len(P) /\ ~IsLabel(P[p[j]])
                     /\ Q[j].id = P[p[j]].id /\ Q[j].type = P[p[j]].type /\ Q[j].ref = P[p[j]].ref
  /\ \A i, j \in 1..a : i < j => p[i] < p[j]
  /\ \A i \in 1..Len(P) : ~IsLabel(P[i]) => \E j \in 1..a : p[j] = i
  /\ \A j \in 1..Len(Q) : j \notin 1..a => Q[j].type = "label"

LEMMA SameShown ==
  ASSUME NEW P, NEW Q, NEW a, NEW p, Len(Q) \in Nat, SameButLabels(P, Q, a, p), NEW s
  PROVE  ShownIds(P, s) = ShownIds(Q, s)
<1>1. /\ a \in Nat /\ a <= Len(Q)
      /\ \A j \in 1..a : p[j] \in 1..Len(P) /\ Q[j].id = P[p[j]].id /\ Q[j].type = P[p[j]].type
      /\ \A i \in 1..Len(P) : ~IsLabel(P[i]) => \E j \in 1..a : p[j] = i
      /\ \A j \in 1..Len(Q) : j \notin 1..a => Q[j].type = "label"
  BY DEF SameButLabels
<1>2. \A e : e.type \in ShownTypes => ~IsLabel(e) /\ e.type # "label"
  BY DEF ShownTypes, IsLabel
<1>3. ASSUME NEW n \in ShownIds(P, s) PROVE n \in ShownIds(Q, s)
  <2>1. PICK i \in 1..Len(P) : P[i].type \in ShownTypes /\ P[i].id >= s /\ n = P[i].id
    BY DEF ShownIds
  <2>2. PICK j \in 1..a : p[j] = i
    BY <1>1, <1>2, <2>1
  <2>3. j \in 1..Len(Q) /\ Q[j].type \in ShownTypes /\ Q[j].id >= s /\ n = Q[j].id
    BY <1>1, <2>1, <2>2
  <2> QED BY <2>3 DEF ShownIds
<1>4. ASSUME NEW n \in ShownIds(Q, s) PROVE n \in ShownIds(P, s)
  <2>1. PICK j \in 1..Len(Q) : Q[j].type \in ShownTypes /\ Q[j].id >= s /\ n = Q[j].id
    BY DEF ShownIds
  <2>2. j \in 1..a
    BY <1>1, <1>2, <2>1
  <2>3. p[j] \in 1..Len(P) /\ P[p[j]].type \in ShownTypes /\ P[p[j]].id >= s /\ n = P[p[j]].id
    BY <1>1, <2>1, <2>2
  <2> QED BY <2>3 DEF ShownIds
<1> QED BY <1>3, <1>4

LEMMA ShownAreNumbers ==
  ASSUME NEW k \in Nat, NEW P, Entered(P, k), NEW s PROVE ShownIds(P, s) \in SUBSET Nat
<1>1. \A i \in 1..Len(P) : P[i].id \in Nat
  BY DEF Entered
<1> QED BY <1>1 DEF ShownIds

LEMMA SameContext ==
  ASSUME NEW k \in Nat, NEW P, Entered(P, k), NEW m \in Nat, NEW Q, Entered(Q, m), NEW a, NEW p, SameButLabels(P, Q, a, p),
         \A i, j \in 1..Len(P) : Summarises(P, i) /\ P[j].id = P[i].ref => ~IsLabel(P[j])
  PROVE  SessionContext(Q) = SessionContext(P)
<1>1. Len(P) \in Nat /\ Len(Q) \in Nat /\ \A i \in 1..Len(P) : P[i].id \in Nat
  <2>1. P \in Seq(Entries) /\ Q \in Seq(Entries) /\ \A i \in 1..Len(P) : P[i].id \in 1..k
    BY DEF Entered
  <2> QED BY <2>1
<1>2. \A s : ShownIds(P, s) = ShownIds(Q, s) /\ ShownIds(P, s) \in SUBSET Nat
  BY <1>1, SameShown, ShownAreNumbers
<1>3. /\ a \in Nat /\ a <= Len(Q)
      /\ \A j \in 1..a : /\ p[j] \in 1..Len(P) /\ ~IsLabel(P[p[j]])
                         /\ Q[j].id = P[p[j]].id /\ Q[j].type = P[p[j]].type /\ Q[j].ref = P[p[j]].ref
      /\ \A i, j \in 1..a : i < j => p[i] < p[j]
      /\ \A i \in 1..Len(P) : ~IsLabel(P[i]) => \E j \in 1..a : p[j] = i
      /\ \A j \in 1..Len(Q) : j \notin 1..a => Q[j].type = "label"
  BY DEF SameButLabels
<1>4. \A e : e.type = "compaction" => ~IsLabel(e)
  BY DEF IsLabel
<1>5. \A j \in 1..Len(Q) : Q[j].type = "compaction" => j \in 1..a /\ p[j] \in 1..Len(P) /\ P[p[j]].type = "compaction"
  BY <1>3
<1>6. CASE \A i \in 1..Len(P) : P[i].type # "compaction"
  <2>1. \A j \in 1..Len(Q) : Q[j].type # "compaction"
    BY <1>5, <1>6
  <2>2. Tells(SessionContext(P), 0, ShownIds(P, 0)) /\ Tells(SessionContext(Q), 0, ShownIds(P, 0))
    BY <1>2, <1>6, <2>1, ContextWithout
  <2> QED BY <1>2, <2>2, TellsOnce
<1>7. CASE \E i \in 1..Len(P) : P[i].type = "compaction"
  <2> DEFINE C == {i \in 1..Len(P) : P[i].type = "compaction"}
             l == Max(C)
  <2>1. Len(P) \in Nat /\ C \in SUBSET (0..Len(P)) /\ C # {}
    BY <1>1, <1>7
  <2>2. l \in C /\ \A i \in C : i <= l
    <3> HIDE DEF C
    <3> QED BY <2>1, MaxIs
  <2> HIDE DEF l
  <2>3. Summarises(P, l)
    BY <2>2 DEF Summarises
  <2>4. l \in 1..Len(P) /\ P[l].type = "compaction"
    BY <2>2
  <2>5. PICK j \in 1..a : p[j] = l
    BY <1>3, <1>4, <2>4
  <2>6. j \in 1..Len(Q) /\ Q[j].id = P[l].id /\ Q[j].type = "compaction" /\ Q[j].ref = P[l].ref
    BY <1>1, <1>3, <2>4, <2>5
  <2>7. ASSUME NEW i \in 1..Len(Q), Q[i].type = "compaction" PROVE i <= j
    <3>1. i \in 1..a /\ p[i] \in C
      BY <1>5, <2>7
    <3>2. p[i] <= p[j] /\ p[i] \in 1..Len(P) /\ p[j] \in 1..Len(P)
      BY <2>2, <2>4, <2>5, <3>1
    <3>3. ~(j < i)
      BY <1>1, <1>3, <2>5, <3>1, <3>2
    <3> QED BY <1>3, <2>5, <3>1, <3>3
  <2>8. Summarises(Q, j)
    BY <2>6, <2>7 DEF Summarises
  <2>9. (\E i \in 1..(l - 1) : P[i].id = P[l].ref) <=> (\E i \in 1..(j - 1) : Q[i].id = Q[j].ref)
    <3>1. ASSUME NEW i \in 1..(l - 1), P[i].id = P[l].ref PROVE \E h \in 1..(j - 1) : Q[h].id = Q[j].ref
      <4>1. i \in 1..Len(P) /\ i < l
        BY <1>1, <2>4
      <4>2. ~IsLabel(P[i])
        BY <2>3, <2>4, <3>1, <4>1
      <4>3. PICK h \in 1..a : p[h] = i
        BY <1>3, <4>1, <4>2
      <4>4. ~(j <= h)
        <5>1. j < h => p[j] < p[h]
          BY <1>3, <2>5, <4>3
        <5> QED BY <1>1, <1>3, <2>4, <2>5, <4>1, <4>3, <5>1
      <4>5. h \in 1..(j - 1) /\ Q[h].id = Q[j].ref
        BY <1>3, <2>5, <2>6, <3>1, <4>3, <4>4
      <4> QED BY <4>5
    <3>2. ASSUME NEW i \in 1..(j - 1), Q[i].id = Q[j].ref PROVE \E h \in 1..(l - 1) : P[h].id = P[l].ref
      <4>1. i \in 1..a /\ i < j
        BY <1>3, <2>5
      <4>2. p[i] \in 1..Len(P) /\ p[i] < l /\ Q[i].id = P[p[i]].id
        BY <1>3, <2>5, <4>1
      <4>3. PICK h : h = p[i]
        OBVIOUS
      <4>4. h \in 1..(l - 1) /\ P[h].id = P[l].ref
        BY <1>1, <2>4, <2>6, <3>2, <4>2, <4>3
      <4> QED BY <4>4
    <3> QED BY <3>1, <3>2
  <2>10. KeptFrom(Q, j) = KeptFrom(P, l)
    BY <2>6, <2>9 DEF KeptFrom
  <2>11. PICK s : s = KeptFrom(P, l)
    OBVIOUS
  <2>12. Tells(SessionContext(P), P[l].id, ShownIds(P, s)) /\ Tells(SessionContext(Q), P[l].id, ShownIds(P, s))
    <3>1. Tells(SessionContext(P), P[l].id, ShownIds(P, KeptFrom(P, l)))
      BY <2>3, ContextAfter
    <3>2. Tells(SessionContext(Q), Q[j].id, ShownIds(Q, KeptFrom(Q, j)))
      BY <2>8, ContextAfter
    <3> QED BY <1>2, <2>6, <2>10, <2>11, <3>1, <3>2
  <2> QED BY <1>2, <2>12, TellsOnce
<1> QED BY <1>6, <1>7

\* A fork and the path it was made of.
LEMMA ForkIsSame ==
  ASSUME lastId \in Nat, NEW es, Entered(es, lastId), NEW id
  PROVE  \E p : SameButLabels(getBranch(es, id), Forked(es, id), Len(Kept(es, id)), p)
<1> DEFINE P    == getBranch(es, id)
           Q    == Forked(es, id)
           kept == Kept(es, id)
           ts   == Targets(es, id)
           a    == Len(kept)
           b    == Len(ts)
<1>1. /\ Q \in Seq(Entries) /\ Len(Q) = a + b /\ a \in Nat /\ b \in Nat
      /\ \A i \in 1..a : Q[i].id = kept[i].id /\ Q[i].type = kept[i].type /\ Q[i].ref = kept[i].ref
      /\ \A n \in 1..b : Q[a + n] = NewLabel(EndOf(kept), ts, n)
  BY ForkedIs
<1>2. Picked(P, NoLabels(P), kept)
  BY KeptEntries
<1>3. P \in Seq(Entries) /\ DOMAIN P = 1..Len(P) /\ Len(P) \in Nat
  <2>1. Entered(P, lastId)
    BY PathIsEntered
  <2> HIDE DEF P
  <2>2. P \in Seq(Entries)
    BY <2>1 DEF Entered
  <2> QED BY <2>2
<1> HIDE DEF P, Q, kept, ts
<1>4. PICK p : Picks(P, NoLabels(P), kept, p)
  BY <1>2 DEF Picked
<1>5. \A i : i \in NoLabels(P) <=> i \in 1..Len(P) /\ ~IsLabel(P[i])
  BY <1>3 DEF NoLabels
<1>6. /\ \A j \in 1..a : p[j] \in NoLabels(P) /\ kept[j] = P[p[j]]
      /\ \A i, j \in 1..a : i < j => p[i] < p[j]
      /\ \A i \in NoLabels(P) : \E j \in 1..a : p[j] = i
  BY <1>4 DEF Picks, Enumerates
<1>7. \A j \in 1..a : /\ p[j] \in 1..Len(P) /\ ~IsLabel(P[p[j]])
                      /\ Q[j].id = P[p[j]].id /\ Q[j].type = P[p[j]].type /\ Q[j].ref = P[p[j]].ref
  BY <1>1, <1>5, <1>6
<1>8. ASSUME NEW j \in 1..Len(Q), j \notin 1..a PROVE Q[j].type = "label"
  <2> DEFINE n == j - a
  <2>1. n \in 1..b /\ j = a + n
    BY <1>1, <1>8
  <2> HIDE DEF n, a, b
  <2>2. Q[a + n] = NewLabel(EndOf(kept), ts, n)
    BY <1>1, <2>1
  <2>3. Q[a + n].type = "label"
    BY <2>2 DEF NewLabel, NewEntry
  <2> QED BY <2>1, <2>3
<1>9. a <= Len(Q)
  BY <1>1
<1>10. SameButLabels(P, Q, a, p)
  <2> HIDE DEF a
  <2> QED BY <1>1, <1>5, <1>6, <1>7, <1>8, <1>9 DEF SameButLabels
<1> QED BY <1>10 DEF P, Q, a, kept

LEMMA ForkLabels ==
  ASSUME lastId \in Nat, NEW es, Entered(es, lastId), NEW id
  PROVE  Labelled(Forked(es, id)) = Labelled(es) \cap {e.id : e \in {x \in ToSet(getBranch(es, id)) : ~IsLabel(x)}}
<1> DEFINE P    == getBranch(es, id)
           Q    == Forked(es, id)
           kept == Kept(es, id)
           ts   == Targets(es, id)
           a    == Len(kept)
           b    == Len(ts)
           K    == Ids(kept)
           I    == {e.id : e \in {x \in ToSet(P) : ~IsLabel(x)}}
<1>1. /\ Q \in Seq(Entries) /\ Len(Q) = a + b /\ a \in Nat /\ b \in Nat
      /\ \A i \in 1..a : Q[i].id = kept[i].id /\ Q[i].type = kept[i].type /\ Q[i].ref = kept[i].ref
      /\ \A n \in 1..b : Q[a + n] = NewLabel(EndOf(kept), ts, n)
  BY ForkedIs
<1>2. Picked(P, NoLabels(P), kept) /\ Entered(kept, lastId) /\ \A i \in 1..a : ~IsLabel(kept[i])
  BY KeptEntries
<1>3. P \in Seq(Entries) /\ DOMAIN P = 1..Len(P)
  <2>1. Entered(P, lastId)
    BY PathIsEntered
  <2> HIDE DEF P
  <2>2. P \in Seq(Entries)
    BY <2>1 DEF Entered
  <2> QED BY <2>2
<1>4. /\ \A n \in 1..b : ts[n] \in Labelled(es) \cap K
      /\ \A n, m \in 1..b : n # m => ts[n] # ts[m]
      /\ \A t \in Labelled(es) \cap K : \E n \in 1..b : ts[n] = t
  BY TargetsAre
<1> HIDE DEF P, Q, kept, ts
<1>5. DOMAIN kept = 1..a
  <2>1. kept \in Seq(Entries)
    BY <1>2 DEF Entered
  <2> QED BY <2>1
<1>6. K = I
  <2>1. PICK p : Picks(P, NoLabels(P), kept, p)
    BY <1>2 DEF Picked
  <2>2. \A i : i \in NoLabels(P) <=> i \in 1..Len(P) /\ ~IsLabel(P[i])
    BY <1>3 DEF NoLabels
  <2>3. /\ \A j \in 1..a : p[j] \in NoLabels(P) /\ kept[j] = P[p[j]]
        /\ \A i \in NoLabels(P) : \E j \in 1..a : p[j] = i
    BY <2>1 DEF Picks, Enumerates
  <2>4. ToSet(P) = {P[i] : i \in 1..Len(P)}
    BY <1>3 DEF ToSet
  <2>5. ASSUME NEW n \in K PROVE n \in I
    <3>1. PICK j \in 1..a : n = kept[j].id
      BY <1>5 DEF Ids
    <3>2. kept[j] \in ToSet(P) /\ ~IsLabel(kept[j])
      BY <2>2, <2>3, <2>4
    <3> QED BY <3>1, <3>2
  <2>6. ASSUME NEW n \in I PROVE n \in K
    <3>1. PICK i \in 1..Len(P) : ~IsLabel(P[i]) /\ n = P[i].id
      BY <2>4
    <3>2. PICK j \in 1..a : p[j] = i
      BY <2>2, <2>3, <3>1
    <3>3. n = kept[j].id
      BY <2>3, <3>1, <3>2
    <3> QED BY <1>5, <3>3 DEF Ids
  <2> QED BY <2>5, <2>6
<1>7. DOMAIN Q = 1..(a + b)
  BY <1>1
<1>8. ASSUME NEW n \in 1..b
      PROVE  a + n \in 1..(a + b) /\ Q[a + n].type = "label" /\ Q[a + n].ref = ts[n] /\ IsLabel(Q[a + n])
  <2> HIDE DEF a, b
  <2>1. a + n \in 1..(a + b)
    BY <1>1
  <2>2. Q[a + n] = NewLabel(EndOf(kept), ts, n)
    BY <1>1
  <2>3. Q[a + n].type = "label" /\ Q[a + n].ref = ts[n]
    BY <2>2 DEF NewLabel, NewEntry
  <2> QED BY <2>1, <2>3 DEF IsLabel
<1> HIDE DEF a, b, K, I
<1>9. \A i \in 1..(a + b) : i \in 1..a \/ (i - a \in 1..b /\ i = a + (i - a))
  BY <1>1
<1>10. \A i \in 1..a : i \in 1..(a + b) /\ ~IsLabel(Q[i])
  BY <1>1, <1>2 DEF IsLabel, a
<1>11. ASSUME NEW t \in Labelled(Q) PROVE t \in Labelled(es) \cap K
  <2>1. PICK i \in 1..(a + b) : Q[i].type = "label" /\ Q[i].ref = t
    BY <1>7 DEF Labelled
  <2>2. i \notin 1..a
    BY <1>10, <2>1 DEF IsLabel
  <2>3. PICK n \in 1..b : i = a + n
    BY <1>9, <2>2
  <2>4. t = ts[n]
    BY <1>8, <2>1, <2>3
  <2> QED BY <1>4, <2>4
<1>12. ASSUME NEW t \in Labelled(es) \cap K PROVE t \in Labelled(Q)
  <2>1. PICK n \in 1..b : ts[n] = t
    BY <1>4
  <2>2. t \in Ids(Q)
    <3>1. PICK j \in 1..a : t = kept[j].id
      BY <1>5, <1>12 DEF K, Ids
    <3>2. j \in DOMAIN Q /\ Q[j].id = t
      BY <1>1, <1>7, <1>10, <3>1 DEF a
    <3> QED BY <3>2 DEF Ids
  <2>3. ASSUME NEW j \in (a + n + 1)..(a + b), IsLabel(Q[j]) /\ Q[j].ref = t PROVE FALSE
    <3> DEFINE m == j - a
    <3>1. m \in 1..b /\ j = a + m /\ m # n
      BY <1>1, <2>3
    <3> HIDE DEF m
    <3>2. Q[j].ref = ts[m]
      BY <1>8, <3>1
    <3> QED BY <1>4, <2>1, <2>3, <3>1, <3>2
  <2>4. PICK i : i = a + n
    OBVIOUS
  <2>5. i \in DOMAIN Q /\ Q[i].type = "label" /\ Q[i].ref = t /\ Len(Q) = a + b
    BY <1>1, <1>7, <1>8, <2>1, <2>4
  <2>6. \A j \in (i + 1)..Len(Q) : ~(IsLabel(Q[j]) /\ Q[j].ref = t)
    BY <2>3, <2>4, <2>5
  <2> QED BY <2>2, <2>5, <2>6 DEF Labelled
<1>13. Labelled(Q) = Labelled(es) \cap I
  BY <1>6, <1>11, <1>12
<1> QED BY <1>13 DEF Q, I, P

(***************************************************************************)
(* Opening and forking sessions.                                           *)
(***************************************************************************)
LEMMA ReopenedIs ==
  ASSUME NEW k \in Nat, NEW x, Orderly(x.lines, k)
  PROVE  /\ Orderly(Reopened(x).lines, k) /\ HasHeader(Reopened(x)) /\ LoadedEntries(Reopened(x)) = LoadedEntries(x)
         /\ HasHeader(x) => Reopened(x) = x
         /\ ~HasHeader(x) => ~Reopened(x).open
<1>1. CASE HasHeader(x)
  BY <1>1 DEF Reopened
<1>2. CASE ~HasHeader(x)
  <2> DEFINE y == EndedLines(<<Header>>)
  <2>1. Reopened(x) = y /\ LoadedEntries(x) = <<>> /\ ~y.open
    BY <1>2 DEF Reopened, LoadedEntries, EndedLines
  <2>2. <<Header>> \in Seq(Entries) /\ <<Header>> = <<Header>> \o <<>>
    BY GarbledIsEntry, ConcatEmptySeq
  <2>3. Entered(<<>>, k)
    <3>1. <<>> \in Seq(Entries) /\ Len(<<>>) = 0
      OBVIOUS
    <3> QED BY <3>1 DEF Entered, Rises
  <2>4. y.lines = <<Header>> \o <<>>
    BY <2>2 DEF EndedLines
  <2> HIDE DEF y
  <2>5. HasHeader(y) /\ LoadedEntries(y) = <<>>
    BY <2>3, <2>4, WrittenWhole
  <2>6. Orderly(y.lines, k)
    BY <2>3, <2>4, HeadedOrderly
  <2> QED BY <1>2, <2>1, <2>5, <2>6
<1> QED BY <1>1, <1>2

LEMMA OpenKeeps ==
  ASSUME SessionInv, NEW f, OpenSession(f) PROVE SessionInv' /\ Grown
<1>1. PICK k, x, es : k = lastId /\ x = disk[f] /\ es = LoadedEntries(x)
  OBVIOUS
<1>2. /\ f \in DOMAIN disk /\ Adopt(f, es, TRUE) /\ Stored(f, Reopened(x)) /\ lastId' = lastId
      /\ damaged' = IF Reopened(x).open THEN damaged ELSE damaged \ {f}
  BY <1>1 DEF OpenSession
<1>3. k \in Nat /\ lastId \in Nat /\ Files /\ IntactFiles
  BY <1>1 DEF SessionInv
<1>4. Orderly(x.lines, k) /\ (f \notin damaged => Intact(x))
  BY <1>1, <1>2, <1>3 DEF Files, IntactFiles
<1>5. Entered(es, k)
  BY <1>1, <1>3, <1>4, LoadedAreEntered
<1>6. sessionFile' = f /\ fileEntries' = es /\ flushed' = TRUE /\ leafId' \in Nat
  BY ONLY <1>2, <1>3, <1>5, AdoptIs
<1>7. PICK y : y = Reopened(x)
  OBVIOUS
<1>8. /\ Orderly(y.lines, k) /\ HasHeader(y) /\ LoadedEntries(y) = es
      /\ HasHeader(x) => y = x
      /\ ~HasHeader(x) => ~y.open
  BY <1>1, <1>3, <1>4, <1>7, ReopenedIs
<1>9. /\ DOMAIN disk' = DOMAIN disk \cup {f} /\ disk'[f] = y
      /\ \A g \in DOMAIN disk : g # f => disk'[g] = disk[g]
  <2>1. Stored(f, y)
    BY <1>2, <1>7
  <2> QED BY ONLY <2>1, StoredIs
<1>10. Untouched(f)
  BY <1>9 DEF Untouched
<1>11. f \notin damaged => y = x /\ ~y.open
  BY <1>4, <1>8 DEF Intact
<1>12. f \notin damaged' => ~y.open
  BY <1>2, <1>7, <1>11
<1>13. f \notin damaged' => Intact(disk'[f])
  BY <1>8, <1>9, <1>12 DEF Intact
<1>14. f \notin damaged => IsPrefix(disk[f].lines, disk'[f].lines)
  <2> SUFFICES ASSUME f \notin damaged PROVE IsPrefix(x.lines, x.lines) /\ disk[f] = x /\ disk'[f] = x
    OBVIOUS
  <2>1. x.lines \in Seq(Entries)
    BY <1>4 DEF Orderly
  <2> QED BY <1>1, <1>9, <1>11, <2>1, PrefixOfMore
<1>15. \A g \in damaged : g # f => g \in damaged'
  BY <1>2
<1>16. Orderly(disk'[f].lines, lastId') /\ lastId' \in Nat /\ lastId <= lastId'
  BY <1>1, <1>2, <1>3, <1>8, <1>9
<1>17. Files' /\ IntactFiles' /\ Grown
  BY ONLY <1>3, <1>10, <1>13, <1>14, <1>15, <1>16, UntouchedFiles
<1>18. Restorable'
  BY <1>6, <1>8, <1>9 DEF Restorable
<1>19. Entered(fileEntries, lastId)'
  BY <1>1, <1>2, <1>5, <1>6
<1> QED BY <1>6, <1>16, <1>17, <1>18, <1>19 DEF SessionInv

LEMMA ForkNothingKeeps ==
  ASSUME SessionInv, ForkNothing PROVE SessionInv' /\ Grown
<1>1. PICK k, f, x : k = lastId /\ f = sessionFile /\ x = disk[f]
  OBVIOUS
<1>2. /\ f \in DOMAIN disk /\ ~HasHeader(x) /\ Stored(f, Reopened(x))
      /\ UNCHANGED <<fileEntries, leafId, flushed, sessionFile, lastId, damaged>>
  BY <1>1 DEF ForkNothing
<1>3. k \in Nat /\ lastId \in Nat /\ Files /\ IntactFiles
  BY <1>1 DEF SessionInv
<1>4. Orderly(x.lines, k) /\ f \in damaged
  BY <1>1, <1>2, <1>3 DEF Files, IntactFiles, Intact
<1>5. Orderly(Reopened(x).lines, k)
  BY <1>3, <1>4, ReopenedIs
<1>6. PICK y : y = Reopened(x)
  OBVIOUS
<1>7. /\ DOMAIN disk' = DOMAIN disk \cup {f} /\ disk'[f] = y
      /\ \A g \in DOMAIN disk : g # f => disk'[g] = disk[g]
  <2>1. Stored(f, y)
    BY <1>2, <1>6
  <2> QED BY ONLY <2>1, StoredIs
<1>8. Untouched(f)
  BY <1>7 DEF Untouched
<1>9. /\ Orderly(disk'[f].lines, lastId') /\ lastId' \in Nat /\ lastId <= lastId'
      /\ f \in damaged' /\ \A g \in damaged : g # f => g \in damaged'
  BY <1>1, <1>2, <1>3, <1>4, <1>5, <1>6, <1>7
<1>10. Files' /\ IntactFiles' /\ Grown
  BY ONLY <1>3, <1>8, <1>9, UntouchedFiles
<1>11. Restorable'
  BY <1>1, <1>2, <1>4 DEF Restorable
<1> QED BY <1>2, <1>10, <1>11 DEF SessionInv

LEMMA OpenFailsKeeps ==
  ASSUME SessionInv, NEW f, OpenFails(f) PROVE SessionInv' /\ Grown
<1>1. PICK lines : lines = <<Header>>
  OBVIOUS
<1>2. /\ f \in DOMAIN disk /\ damaged' = damaged \cup {f} /\ \E cut \in Cut(NoFile, lines) : Stored(f, cut)
      /\ UNCHANGED <<fileEntries, leafId, flushed, sessionFile, lastId>>
  BY <1>1 DEF OpenFails
<1>3. PICK cut \in Cut(NoFile, lines) : Stored(f, cut)
  BY <1>2
<1>4. lastId \in Nat /\ lastId' \in Nat /\ lastId <= lastId' /\ Files /\ IntactFiles
  BY <1>2 DEF SessionInv
<1>5. /\ DOMAIN disk' = DOMAIN disk \cup {f} /\ disk'[f] = cut
      /\ \A g \in DOMAIN disk : g # f => disk'[g] = disk[g]
  BY ONLY <1>3, StoredIs
<1>6. Untouched(f)
  BY <1>5 DEF Untouched
<1>7. Orderly(cut.lines, lastId')
  <2>1. lines \in Seq(Entries) /\ NoFile.lines = <<>> /\ <<>> \in Seq(Entries)
    BY <1>1, GarbledIsEntry DEF NoFile, EndedLines
  <2>2. NoFile.lines \o lines = lines /\ <<Header>> \o <<>> = lines
    BY <1>1, <2>1, GarbledIsEntry, ConcatEmptySeq
  <2>3. Entered(<<>>, lastId')
    <3>1. Len(<<>>) = 0
      OBVIOUS
    <3> QED BY <2>1, <3>1 DEF Entered, Rises
  <2>4. Orderly(NoFile.lines \o lines, lastId')
    BY <1>4, <2>2, <2>3, HeadedOrderly
  <2>5. lastId' \in Nat /\ lines \in Seq(Entries) /\ NoFile.lines \in Seq(Entries) /\ cut \in Cut(NoFile, lines)
    BY <1>3, <1>4, <2>1
  <2> QED BY ONLY <2>4, <2>5, CutOrderly
<1>8. /\ f \in damaged' /\ \A g \in damaged : g # f => g \in damaged'
      /\ Orderly(disk'[f].lines, lastId')
  BY <1>2, <1>5, <1>7
<1>9. Files' /\ IntactFiles' /\ Grown
  BY ONLY <1>4, <1>6, <1>8, UntouchedFiles
<1>10. Restorable'
  <2>1. CASE sessionFile = f
    BY <1>2, <1>8, <2>1 DEF Restorable
  <2>2. CASE sessionFile # f
    <3>1. /\ sessionFile \in DOMAIN disk' <=> sessionFile \in DOMAIN disk
          /\ sessionFile \in DOMAIN disk => disk'[sessionFile] = disk[sessionFile]
          /\ sessionFile \in damaged' <=> sessionFile \in damaged
      BY <1>2, <1>5, <2>2
    <3> QED BY <1>2, <3>1 DEF SessionInv, Restorable
  <2> QED BY <2>1, <2>2
<1>11. Entered(fileEntries, lastId)' /\ leafId' \in Nat /\ flushed' \in BOOLEAN
  BY <1>2 DEF SessionInv
<1> QED BY <1>4, <1>9, <1>10, <1>11 DEF SessionInv

\* Entries are written to a new file, whole, and adopted.
LEMMA CopyIs ==
  ASSUME lastId \in Nat, lastId' \in Nat, lastId <= lastId', Files, IntactFiles, NEW f \in UnusedFiles,
         NEW es, Entered(es, lastId'), NEW ok \in BOOLEAN, WriteLines(f, NoFile, <<Header>> \o es, ok)
  PROVE  /\ Files' /\ IntactFiles' /\ Grown /\ Untouched(f)
         /\ ok => damaged' = damaged /\ f \in DOMAIN disk' /\ LoadedEntries(disk'[f]) = es
         /\ ~ok => damaged' = damaged \cup {f}
<1>1. PICK lines : lines = <<Header>> \o es
  OBVIOUS
<1>2. f \notin DOMAIN disk /\ f # sessionFile
  BY DEF UnusedFiles
<1>3. Orderly(lines, lastId') /\ lines \in Seq(Entries)
  <2>1. Orderly(lines, lastId')
    BY <1>1, HeadedOrderly
  <2> QED BY <2>1 DEF Orderly
<1>4. FileAt(f) = NoFile /\ FileAt(f).lines \o lines = lines /\ Written(FileAt(f), lines).lines = lines
  BY <1>2, <1>3, NoFileIs
<1>5. HasHeader(Written(FileAt(f), lines)) /\ LoadedEntries(Written(FileAt(f), lines)) = es
  BY <1>1, <1>4, WrittenWhole
<1>6. /\ lines \in Seq(Entries) /\ ok \in BOOLEAN /\ WriteLines(f, FileAt(f), lines, ok)
      /\ lastId \in Nat /\ lastId' \in Nat /\ lastId <= lastId' /\ Files /\ IntactFiles
      /\ Orderly(FileAt(f).lines \o lines, lastId')
      /\ HasHeader(Written(FileAt(f), lines))
  BY <1>1, <1>3, <1>4, <1>5
<1>7. /\ Files' /\ IntactFiles' /\ Grown /\ Untouched(f)
      /\ ok => damaged' = damaged /\ f \in DOMAIN disk' /\ disk'[f] = Written(FileAt(f), lines)
      /\ ~ok => damaged' = damaged \cup {f}
  BY ONLY <1>6, WriteIs
<1> QED BY <1>5, <1>7

LEMMA ForkFromKeeps ==
  ASSUME SessionInv, NEW g, ForkFrom(g) PROVE SessionInv' /\ Grown
<1>1. PICK es : es = LoadedEntries(disk[g])
  OBVIOUS
<1>2. PICK f \in UnusedFiles : WriteLines(f, NoFile, <<Header>> \o es, TRUE) /\ Adopt(f, es, TRUE)
  BY <1>1 DEF ForkFrom
<1>3. lastId' = lastId /\ g \in DOMAIN disk
  BY DEF ForkFrom
<1>4. lastId \in Nat /\ lastId' \in Nat /\ lastId <= lastId' /\ Files /\ IntactFiles
  BY <1>3 DEF SessionInv
<1>5. Orderly(disk[g].lines, lastId)
  BY <1>3, <1>4 DEF Files
<1>6. Entered(es, lastId')
  BY <1>1, <1>3, <1>4, <1>5, LoadedAreEntered
<1>7. /\ Files' /\ IntactFiles' /\ Grown
      /\ damaged' = damaged /\ f \in DOMAIN disk' /\ LoadedEntries(disk'[f]) = es
  <2>1. TRUE \in BOOLEAN
    OBVIOUS
  <2> QED BY ONLY <1>2, <1>4, <1>6, <2>1, CopyIs
<1>8. Entered(es, lastId)
  BY <1>3, <1>6
<1>9. sessionFile' = f /\ fileEntries' = es /\ flushed' = TRUE /\ leafId' \in Nat
  BY ONLY <1>2, <1>4, <1>8, AdoptIs
<1>10. Restorable'
  BY <1>7, <1>9 DEF Restorable
<1>11. Entered(fileEntries, lastId)'
  BY <1>6, <1>9
<1> QED BY <1>4, <1>7, <1>9, <1>10, <1>11 DEF SessionInv

LEMMA SamePathOfFork ==
  ASSUME lastId \in Nat, NEW id, NEW es, es = LoadedEntries(disk[sessionFile]), Entered(es, lastId),
         NEW m \in Nat, NEW fs, fs = Forked(es, id), Entered(fs, m), Chained(fs), NEW f, NEW saved, Adopt(f, fs, saved)
  PROVE  SamePath(id)
<1>1. PICK q : q = leafId'
  OBVIOUS
<1>2. fileEntries' = fs /\ q = IF fs = <<>> THEN 0 ELSE Last(fs).id
  BY <1>1 DEF Adopt
<1>3. getBranch(fs, q) = fs
  <2>1. fs \in Seq(Entries) /\ (Len(fs) # 0 => q = fs[Len(fs)].id)
    <3>1. fs \in Seq(Entries) /\ (fs # <<>> => Last(fs) = fs[Len(fs)])
      BY IdsAreNumbers DEF Entered
    <3>2. Len(fs) # 0 => fs # <<>>
      BY EmptySeq
    <3> QED BY <1>2, <3>1, <3>2
  <2> QED BY <2>1, BranchOfChain
<1>4. PICK path : path = getBranch(es, id)
  OBVIOUS
<1>5. PICK k : k = lastId
  OBVIOUS
<1>6. k \in Nat /\ Entered(es, k)
  BY <1>5
<1>7. Entered(path, k)
  BY <1>4, <1>6, PathIsEntered
<1>8. Labelled(fs) = Labelled(es) \cap {e.id : e \in {x \in ToSet(path) : ~IsLabel(x)}}
  BY <1>4, ForkLabels
<1>9. CASE KeepsFromLabel(path)
  BY <1>2, <1>4, <1>8, <1>9 DEF SamePath
<1>10. CASE ~KeepsFromLabel(path)
  <2>1. DOMAIN path = 1..Len(path)
    BY <1>6, <1>7, IdsAreNumbers
  <2>2. \A i, j \in 1..Len(path) : Summarises(path, i) /\ path[j].id = path[i].ref => ~IsLabel(path[j])
    BY <1>10, <2>1 DEF KeepsFromLabel, Summarises
  <2>3. PICK a, p : SameButLabels(path, fs, a, p)
    BY <1>4, ForkIsSame
  <2>4. SessionContext(fs) = SessionContext(path)
    BY <1>6, <1>7, <2>2, <2>3, SameContext
  <2>5. SessionContext(getBranch(fileEntries', leafId')) = SessionContext(path)
    BY <1>1, <1>2, <1>3, <2>4
  <2> QED BY <1>2, <1>4, <1>8, <2>5 DEF SamePath
<1> QED BY <1>9, <1>10

LEMMA ForkKeeps ==
  ASSUME SessionInv, NEW id, Fork(id)
  PROVE  SessionInv' /\ Grown /\ (sessionFile' # sessionFile => SamePath(id))
<1>1. PICK es : es = LoadedEntries(disk[sessionFile])
  OBVIOUS
<1>2. PICK fs : fs = Forked(es, id)
  OBVIOUS
<1>3. PICK f \in UnusedFiles :
        /\ lastId' = Max({lastId} \cup Ids(fs))
        /\ \/ /\ Adopt(f, fs, HasAssistant(fs))
              /\ IF HasAssistant(fs)
                 THEN WriteLines(f, NoFile, <<Header>> \o fs, TRUE)
                 ELSE UNCHANGED <<disk, damaged, detours>>
           \/ /\ HasAssistant(fs) /\ WriteLines(f, NoFile, <<Header>> \o fs, FALSE)
              /\ UNCHANGED <<fileEntries, leafId, flushed, sessionFile>>
  BY <1>1, <1>2 DEF Fork
<1>4. sessionFile \in DOMAIN disk
  BY DEF Fork
<1>5. lastId \in Nat /\ Files /\ IntactFiles
  BY DEF SessionInv
<1>6. f \notin DOMAIN disk /\ f # sessionFile
  BY <1>3 DEF UnusedFiles
<1>7. Entered(es, lastId)
  <2>1. Orderly(disk[sessionFile].lines, lastId)
    BY <1>4, <1>5 DEF Files
  <2> QED BY <1>1, <1>5, <2>1, LoadedAreEntered
<1>8. PICK m \in Nat : Entered(fs, m) /\ Chained(fs)
  <2>1. Entered(fs, lastId + Len(Targets(es, id))) /\ Chained(fs) /\ Len(Targets(es, id)) \in Nat
    BY <1>2, <1>5, <1>7, ForkIsEntered
  <2>2. lastId + Len(Targets(es, id)) \in Nat
    BY <1>5, <2>1
  <2> QED BY <2>1, <2>2
<1>9. lastId' \in Nat /\ lastId <= lastId' /\ Entered(fs, lastId')
  <2>1. PICK n : n = lastId
    OBVIOUS
  <2>2. n \in Nat
    BY <1>5, <2>1
  <2> DEFINE l == Max({n} \cup Ids(fs))
  <2>3. l \in Nat /\ n <= l /\ Entered(fs, l)
    BY <1>8, <2>2, EnteredToGreatest
  <2>4. lastId' = l
    BY <1>3, <2>1
  <2> HIDE DEF l
  <2> QED BY <2>1, <2>3, <2>4
<1>10. Adopt(f, fs, HasAssistant(fs)) => SamePath(id)
  BY <1>1, <1>2, <1>5, <1>7, <1>8, SamePathOfFork
<1>11. CASE Adopt(f, fs, HasAssistant(fs)) /\ HasAssistant(fs) /\ WriteLines(f, NoFile, <<Header>> \o fs, TRUE)
  <2>1. /\ Files' /\ IntactFiles' /\ Grown
        /\ damaged' = damaged /\ f \in DOMAIN disk' /\ LoadedEntries(disk'[f]) = fs
    <3>1. TRUE \in BOOLEAN
      OBVIOUS
    <3> QED BY ONLY <1>3, <1>5, <1>9, <1>11, <3>1, CopyIs
  <2>2. sessionFile' = f /\ fileEntries' = fs /\ flushed' = HasAssistant(fs) /\ leafId' \in Nat
    BY ONLY <1>8, <1>11, AdoptIs
  <2>3. Restorable'
    BY <1>11, <2>1, <2>2 DEF Restorable
  <2>4. Entered(fileEntries, lastId)' /\ flushed' \in BOOLEAN
    BY <1>9, <1>11, <2>2
  <2>5. SessionInv'
    BY <1>9, <2>1, <2>2, <2>3, <2>4 DEF SessionInv
  <2> QED BY <1>10, <1>11, <2>1, <2>5
<1>12. CASE Adopt(f, fs, HasAssistant(fs)) /\ ~HasAssistant(fs) /\ UNCHANGED <<disk, damaged, detours>>
  <2>1. UNCHANGED <<disk, damaged>>
    BY <1>12
  <2>2. Files' /\ IntactFiles' /\ Grown
    BY ONLY <1>5, <1>9, <2>1, SameFiles
  <2>3. Adopt(f, fs, FALSE)
    <3>1. HasAssistant(fs) = FALSE
      BY <1>12 DEF HasAssistant
    <3> QED BY <1>12, <3>1
  <2>4. sessionFile' = f /\ fileEntries' = fs /\ flushed' = FALSE /\ leafId' \in Nat
    BY ONLY <1>8, <2>3, AdoptIs
  <2>5. Restorable'
    BY <1>6, <1>12, <2>1, <2>4 DEF Restorable
  <2>6. Entered(fileEntries, lastId)' /\ flushed' \in BOOLEAN
    BY <1>9, <2>4
  <2>7. SessionInv'
    BY <1>9, <2>2, <2>4, <2>5, <2>6 DEF SessionInv
  <2> QED BY <1>10, <1>12, <2>2, <2>7
<1>13. CASE HasAssistant(fs) /\ WriteLines(f, NoFile, <<Header>> \o fs, FALSE) /\ UNCHANGED <<fileEntries, leafId, flushed, sessionFile>>
  <2>1. Files' /\ IntactFiles' /\ Grown /\ Untouched(f) /\ damaged' = damaged \cup {f}
    <3>1. FALSE \in BOOLEAN
      OBVIOUS
    <3> QED BY ONLY <1>3, <1>5, <1>9, <1>13, <3>1, CopyIs
  <2>2. /\ sessionFile \in DOMAIN disk' /\ disk'[sessionFile] = disk[sessionFile]
        /\ UNCHANGED <<fileEntries, leafId, flushed, sessionFile>>
    BY <1>4, <1>6, <1>13, <2>1 DEF Untouched
  <2>3. Restorable /\ leafId \in Nat /\ flushed \in BOOLEAN /\ Entered(fileEntries, lastId)
    BY DEF SessionInv
  <2>4. Restorable'
    BY <1>4, <2>1, <2>2, <2>3 DEF Restorable
  <2>5. Entered(fileEntries, lastId)'
    <3>1. PICK n, l, es0 : n = lastId /\ l = lastId' /\ es0 = fileEntries
      OBVIOUS
    <3>2. Entered(es0, n) /\ n \in Nat /\ l \in Nat /\ n <= l
      BY <1>5, <1>9, <2>3, <3>1
    <3>3. Entered(es0, l)
      <4>1. 1..n \subseteq 1..l
        BY <3>2
      <4> QED BY <3>2, <4>1 DEF Entered
    <3> QED BY <2>2, <3>1, <3>3
  <2>6. SessionInv'
    BY <1>9, <2>1, <2>2, <2>3, <2>4, <2>5 DEF SessionInv
  <2> QED BY <2>1, <2>2, <2>6
<1> QED BY <1>3, <1>11, <1>12, <1>13

(***************************************************************************)
(* Sessions survive.                                                       *)
(***************************************************************************)
LEMMA SessionStarts == SessionInit => SessionInv
<1> SUFFICES ASSUME SessionInit PROVE SessionInv
  OBVIOUS
<1>1. /\ fileEntries = <<>> /\ leafId = 0 /\ flushed = FALSE /\ disk = <<>> /\ lastId = 0
  BY DEF SessionInit
<1>2. DOMAIN disk = {}
  BY <1>1
<1>3. Files /\ IntactFiles
  BY <1>2 DEF Files, IntactFiles
<1>4. Restorable
  BY <1>1, <1>2 DEF Restorable, HasAssistant
<1>5. Entered(fileEntries, lastId)
  <2>1. <<>> \in Seq(Entries) /\ Len(<<>>) = 0
    OBVIOUS
  <2> QED BY <1>1, <2>1 DEF Entered, Rises
<1> QED BY <1>1, <1>3, <1>4, <1>5 DEF SessionInv

LEMMA SessionStutters == ASSUME SessionInv, UNCHANGED sessionVars PROVE SessionInv' /\ Grown /\ sessionFile' = sessionFile
<1>1. UNCHANGED <<fileEntries, leafId, flushed, sessionFile, disk, lastId, damaged>>
  BY DEF sessionVars
<1>2. lastId \in Nat /\ lastId' \in Nat /\ lastId <= lastId' /\ Files /\ IntactFiles
  BY <1>1 DEF SessionInv
<1>3. Files' /\ IntactFiles' /\ Grown
  <2>1. UNCHANGED <<disk, damaged>>
    BY <1>1
  <2> QED BY ONLY <1>2, <2>1, SameFiles
<1>4. Restorable'
  BY <1>1 DEF SessionInv, Restorable
<1> QED BY <1>1, <1>3, <1>4 DEF SessionInv

LEMMA SessionGoesOn ==
  ASSUME SessionInv, [SessionNext]_sessionVars
  PROVE  /\ SessionInv' /\ Grown
         /\ \A id \in 1..MaxIds : (sessionFile' # sessionFile /\ Fork(id)) => SamePath(id)
<1>1. \A id : Fork(id) => SessionInv' /\ Grown /\ (sessionFile' # sessionFile => SamePath(id))
  <2> SUFFICES ASSUME NEW id, Fork(id) PROVE SessionInv' /\ Grown /\ (sessionFile' # sessionFile => SamePath(id))
    OBVIOUS
  <2> QED BY ForkKeeps
<1>2. CASE \/ \E role \in {"user", "assistant"} : AppendMessage(role)
           \/ RecordCompaction
           \/ \E target \in 1..MaxIds : AppendLabelChange(target, "label") \/ AppendLabelChange(target, "unlabel")
           \/ \E id \in 0..MaxIds : BranchWithSummary(id)
  BY <1>1, <1>2, AppendsKeep
<1>3. CASE (\E id \in 0..MaxIds : Branch(id)) \/ NewSession
  BY <1>1, <1>3, MovesKeep
<1>4. CASE \E id \in 0..MaxIds : Fork(id)
  BY <1>1, <1>4
<1>5. CASE ForkNothing
  BY <1>1, <1>5, ForkNothingKeeps
<1>6. CASE \E f \in SessionFiles : OpenSession(f) \/ OpenFails(f) \/ ForkFrom(f)
  BY <1>1, <1>6, OpenKeeps, OpenFailsKeeps, ForkFromKeeps
<1>7. CASE UNCHANGED sessionVars
  BY <1>1, <1>7, SessionStutters
<1> QED BY <1>2, <1>3, <1>4, <1>5, <1>6, <1>7 DEF SessionNext

\* What is in memory and in the session files is in the order of its ids, whatever writes fail
\* (_appendEntry, _persist, createBranchedSession, forkFrom).
THEOREM SessionFilesAreSound == SessionSpec => []SessionInv
<1>1. SessionInit => SessionInv
  BY SessionStarts
<1>2. SessionInv /\ [SessionNext]_sessionVars => SessionInv'
  BY SessionGoesOn
<1> QED BY <1>1, <1>2, PTL DEF SessionSpec

\* Opening a session's file gives what is in memory, a file keeps what it holds, and a fork has the
\* context and the labels of the path it was made of (setSessionFile, createBranchedSession).
THEOREM SessionsSurvive == SessionSpec => SessionSurvives
<1> DEFINE Kindly == Grown /\ \A id \in 1..MaxIds : (sessionFile' # sessionFile /\ Fork(id)) => SamePath(id)
<1>1. SessionInv /\ [SessionNext]_sessionVars => [Kindly]_sessionVars
  BY SessionGoesOn
<1>2. SessionInv => Restorable
  BY DEF SessionInv
<1>3. SessionSpec => []Restorable
  BY <1>2, SessionFilesAreSound, PTL
<1>4. SessionSpec => [][Kindly]_sessionVars
  BY <1>1, SessionFilesAreSound, PTL DEF SessionSpec
<1> QED BY <1>3, <1>4 DEF SessionSurvives
=============================================================================
