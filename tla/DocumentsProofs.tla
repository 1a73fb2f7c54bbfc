---------------------------- MODULE DocumentsProofs ----------------------------
(***************************************************************************)
(* Theorems about Documents, and with it about Extraction, Rules and       *)
(* Dashboard.  Induction over data is done here with sets: a minimal       *)
(* counterexample (WFMin) is an element, where the induction theorems of   *)
(* the library want a predicate.                                           *)
(***************************************************************************)
EXTENDS Documents, FiniteSetTheorems, SequenceTheorems, WellFoundedInduction, TLAPS

-----------------------------------------------------------------------------
(* Induction and recursion *)

\* Natural numbers that a set has the successors of.
LEMMA NatInductionOverSet ==
    ASSUME NEW T, 0 \in T, \A n \in Nat : n \in T => n + 1 \in T
    PROVE  \A n \in Nat : n \in T
<1> DEFINE U == Nat \ T
           R == {ss \in Nat \X Nat : ss[1] < ss[2]}
<1>1. SUFFICES ASSUME U # {} PROVE FALSE
  OBVIOUS
<1>2. \E x \in U : \A y \in U : <<y, x>> \notin R
  <2>1. IsWellFoundedOn(R, Nat)
    BY NatLessThanWellFounded DEF OpToRel
  <2>2. U \subseteq Nat
    OBVIOUS
  <2> HIDE DEF U, R
  <2> QED
    BY <1>1, <2>1, <2>2, WFMin
<1>3. PICK x \in U : \A y \in U : <<y, x>> \notin R
  BY <1>2
<1>4. x \in Nat /\ x # 0 /\ x - 1 \in Nat /\ x - 1 < x
  OBVIOUS
<1>5. x - 1 \in T
  BY <1>3, <1>4
<1> QED
  BY <1>4, <1>5

\* Finite sets, one element more at a time.
LEMMA FiniteInductionOverSet ==
    ASSUME NEW S, IsFiniteSet(S), NEW T, {} \in T,
           \A s \in SUBSET S : \A x \in S \ s : s \in T => s \cup {x} \in T
    PROVE  S \in T
<1> DEFINE U == (SUBSET S) \ T
           R == StrictSubsetOrdering(S)
<1>1. SUFFICES ASSUME U # {} PROVE FALSE
  OBVIOUS
<1>2. \E x \in U : \A y \in U : <<y, x>> \notin R
  <2>1. IsWellFoundedOn(R, SUBSET S)
    BY FS_StrictSubsetOrderingWellFounded, FS_FiniteSubsetsOfFinite
  <2>2. U \subseteq SUBSET S
    OBVIOUS
  <2> HIDE DEF U, R
  <2> QED
    BY <1>1, <2>1, <2>2, WFMin
<1>3. PICK s \in U : \A y \in U : <<y, s>> \notin R
  BY <1>2
<1>4. PICK x \in s : TRUE
  OBVIOUS
<1>5. s \ {x} \in T
  <2>1. <<s \ {x}, s>> \in R
    BY <1>4 DEF StrictSubsetOrdering
  <2> QED
    BY <1>3, <2>1
<1> QED
  <2>1. s = (s \ {x}) \cup {x}
    BY <1>4
  <2> QED
    BY <1>4, <1>5, <2>1

\* N steps in V, and their results from a first value on.
Steps(V, N) == [V \X (1..N) -> V]

IsRun(g, V, a, N, F) ==
    /\ g \in [0..N -> V]
    /\ g[0] = a
    /\ \A n \in 1..N : g[n] = F[<<g[n - 1], n>>]

\* A function can be given by its first value and by steps.
LEMMA Recursion ==
    ASSUME NEW V, NEW a \in V, NEW N \in Nat, NEW F \in Steps(V, N)
    PROVE  \E g : IsRun(g, V, a, N, F)
<1> USE DEF Steps, IsRun
<1> DEFINE Step(g, n) == IF n = 0 THEN a ELSE F[<<g[n - 1], n>>]
           T == {n \in Nat : n <= N => \E g \in [0..n -> V] : g = [k \in 0..n |-> Step(g, k)]}
<1>1. 0 \in T
  <2>1. [k \in 0..0 |-> a] = [k \in 0..0 |-> Step([j \in 0..0 |-> a], k)]
    OBVIOUS
  <2> QED
    BY <2>1
<1>2. ASSUME NEW n \in Nat, n \in T PROVE n + 1 \in T
  <2> SUFFICES ASSUME n + 1 <= N
               PROVE  \E g \in [0..(n + 1) -> V] : g = [k \in 0..(n + 1) |-> Step(g, k)]
    OBVIOUS
  <2>1. PICK g \in [0..n -> V] : g = [k \in 0..n |-> Step(g, k)]
    BY <1>2
  <2> DEFINE h == [k \in 0..(n + 1) |-> IF k <= n THEN g[k] ELSE F[<<g[n], k>>]]
  <2>2. h \in [0..(n + 1) -> V]
    <3>1. ASSUME NEW k \in 0..(n + 1) PROVE h[k] \in V
      <4>1. CASE k <= n
        BY <4>1
      <4>2. CASE k = n + 1
        BY <4>2
      <4> QED
        BY <4>1, <4>2
    <3> QED
      BY <3>1
  <2>3. ASSUME NEW k \in 0..(n + 1) PROVE h[k] = Step(h, k)
    <3>1. CASE k = 0
      <4>1. g[0] = a
        BY <2>1
      <4> QED
        BY <3>1, <4>1
    <3>2. CASE k \in 1..n
      <4>1. g[k] = F[<<g[k - 1], k>>]
        BY <2>1, <3>2
      <4>2. h[k] = g[k] /\ h[k - 1] = g[k - 1]
        BY <3>2
      <4>3. Step(h, k) = F[<<h[k - 1], k>>]
        BY <3>2
      <4> HIDE DEF h, Step
      <4> QED
        BY <4>1, <4>2, <4>3
    <3>3. CASE k = n + 1
      <4>1. h[k] = F[<<g[n], k>>] /\ h[k - 1] = g[n]
        BY <3>3
      <4> QED
        BY <3>3, <4>1
    <3> QED
      BY <3>1, <3>2, <3>3
  <2>4. h = [k \in 0..(n + 1) |-> Step(h, k)]
    <3> DEFINE hh == [k \in 0..(n + 1) |-> Step(h, k)]
    <3>1. \A k \in 0..(n + 1) : h[k] = hh[k]
      BY <2>3
    <3> QED
      BY <3>1
  <2> HIDE DEF h
  <2> QED
    BY <2>2, <2>4
<1>3. N \in T
  <2> HIDE DEF T
  <2> QED
    BY <1>1, <1>2, NatInductionOverSet
<1>4. PICK g \in [0..N -> V] : g = [k \in 0..N |-> Step(g, k)]
  BY <1>3
<1>5. g[0] = a
  BY <1>4
<1>6. ASSUME NEW n \in 1..N PROVE g[n] = F[<<g[n - 1], n>>]
  BY <1>4
<1> QED
  BY <1>5, <1>6

-----------------------------------------------------------------------------
(* The lines of a record *)

LineKeys == {"position", "article", "description", "price", "rows"}

LEMMA MergedLineType ==
    ASSUME NEW old \in LineItem, NEW new \in LineItem
    PROVE  MergedLine(old, new) \in LineItem
  BY DEF MergedLine, LineItem

\* The last of the known lines with the position of a new one.
LastOf(lines, new, known, n) ==
    /\ lines[n].position = new.position /\ new.position # None
    /\ \A m \in 1..known : lines[m].position = new.position => m <= n

\* A new line is merged into the last known line of its position, or else appended.
LEMMA WithLineCases ==
    ASSUME NEW lines \in Seq(LineItem), NEW new \in LineItem, NEW known \in 0..Len(lines)
    PROVE  LET w == WithLine(lines, new, known)
               last(n) == LastOf(lines, new, known, n)
           IN  \/ /\ w = Append(lines, new)
                  /\ \A n \in 1..known : last(n) => ~SameLine(lines[n], new)
               \/ \E n \in 1..known : /\ last(n) /\ SameLine(lines[n], new)
                                     /\ w = [lines EXCEPT ![n] = MergedLine(lines[n], new)]
<1> DEFINE last(n) == LastOf(lines, new, known, n)
           old == SubSeq(lines, 1, known)
           there == {n \in AtPosition(old, new.position) : SameLine(lines[n], new)}
<1>1. /\ DOMAIN old = 1..known
      /\ \A n \in 1..known : old[n] = lines[n]
  <2>1. \A n \in 1..known : lines[n] \in LineItem
    BY ElementOfSeq
  <2>2. old \in Seq(LineItem) /\ Len(old) = known /\ \A n \in 1..known : old[n] = lines[n]
    BY <2>1, SubSeqProperties
  <2> QED
    BY <2>2, LenProperties
<1>2. \A n : n \in AtPosition(old, new.position) <=> n \in 1..known /\ last(n)
  BY <1>1 DEF AtPosition, LastOf
<1>3. DOMAIN lines = 1..Len(lines)
  BY LenProperties
<1>4. CASE there = {}
  BY <1>2, <1>4 DEF WithLine
<1>5. CASE there # {}
  <2>1. PICK n \in there : TRUE
    BY <1>5
  <2>2. n \in 1..known /\ last(n) /\ SameLine(lines[n], new)
    BY <1>2
  <2>3. ASSUME NEW k \in there PROVE k = n
    <3>1. k \in 1..known /\ n \in 1..known /\ last(k) /\ last(n)
      BY <1>2, <2>2
    <3>2. k <= n /\ n <= k
      BY <3>1 DEF LastOf
    <3> QED
      BY <3>1, <3>2
  <2>4. WithLine(lines, new, known) =
          [k \in DOMAIN lines |-> IF k \in there THEN MergedLine(lines[k], new) ELSE lines[k]]
    BY <1>5 DEF WithLine
  <2>5. WithLine(lines, new, known) = [lines EXCEPT ![n] = MergedLine(lines[n], new)]
    BY <1>3, <2>1, <2>2, <2>3, <2>4
  <2> QED
    BY <2>2, <2>5
<1> QED
  BY <1>4, <1>5

LEMMA WithLineType ==
    ASSUME NEW lines \in Seq(LineItem), NEW new \in LineItem, NEW known \in 0..Len(lines)
    PROVE  /\ WithLine(lines, new, known) \in Seq(LineItem)
           /\ Len(WithLine(lines, new, known)) >= Len(lines)
<1>1. CASE WithLine(lines, new, known) = Append(lines, new)
  BY <1>1, AppendProperties
<1>2. CASE \E n \in 1..known :
             WithLine(lines, new, known) = [lines EXCEPT ![n] = MergedLine(lines[n], new)]
  <2>1. PICK n \in 1..known :
             WithLine(lines, new, known) = [lines EXCEPT ![n] = MergedLine(lines[n], new)]
    BY <1>2
  <2>2. n \in 1..Len(lines)
    OBVIOUS
  <2>3. lines[n] \in LineItem
    BY <2>2, ElementOfSeq
  <2> QED
    BY <2>1, <2>2, <2>3, MergedLineType, ExceptSeq
<1> QED
  BY <1>1, <1>2, WithLineCases

\* The recursion of _merge_continuation.
LEMMA MergeRecursion ==
    ASSUME NEW lines \in Seq(LineItem), NEW extra \in Seq(LineItem)
    PROVE  \E m \in [0..Len(extra) -> Seq(LineItem)] :
             /\ m[0] = lines
             /\ \A n \in 1..Len(extra) : m[n] = WithLine(m[n - 1], extra[n], Len(lines))
             /\ \A n \in 0..Len(extra) : Len(m[n]) >= Len(lines)
             /\ MergedLines(lines, extra) = m[Len(extra)]
<1> DEFINE N == Len(extra)
           K == Len(lines)
           V == {s \in Seq(LineItem) : Len(s) >= K}
           F == [x \in V \X (1..N) |-> WithLine(x[1], extra[x[2]], K)]
<1>1. N \in Nat /\ K \in Nat /\ lines \in V
  BY LenProperties
<1>2. F \in [V \X (1..N) -> V]
  <2>1. ASSUME NEW s \in V, NEW n \in 1..N PROVE WithLine(s, extra[n], K) \in V
    <3>1. extra[n] \in LineItem
      BY ElementOfSeq
    <3>2. Len(s) \in Nat /\ K \in 0..Len(s)
      BY <1>1, LenProperties
    <3>3. /\ WithLine(s, extra[n], K) \in Seq(LineItem)
          /\ Len(WithLine(s, extra[n], K)) >= Len(s)
      BY <3>1, <3>2, WithLineType
    <3>4. Len(WithLine(s, extra[n], K)) \in Nat
      BY <3>3, LenProperties
    <3> QED
      BY <1>1, <3>2, <3>3, <3>4
  <2> QED
    BY <2>1
<1> HIDE DEF V, F
<1>3. PICK g : IsRun(g, V, lines, N, F)
  <2>1. F \in Steps(V, N)
    BY <1>2 DEF Steps
  <2> HIDE DEF N
  <2> QED
    BY <1>1, <2>1, Recursion
<1>4. ASSUME NEW n \in 1..N PROVE g[n] = WithLine(g[n - 1], extra[n], K)
  <2>1. g[n] = F[<<g[n - 1], n>>]
    BY <1>1, <1>3 DEF IsRun
  <2>2. g[n - 1] \in V
    BY <1>1, <1>3 DEF IsRun
  <2> QED
    BY <2>1, <2>2 DEF F
<1>5. g = [n \in 0..N |-> IF n = 0 THEN lines ELSE WithLine(g[n - 1], extra[n], K)]
  <2> DEFINE h == [n \in 0..N |-> IF n = 0 THEN lines ELSE WithLine(g[n - 1], extra[n], K)]
  <2>1. g \in [0..N -> V] /\ g[0] = lines
    BY <1>3 DEF IsRun
  <2>2. \A n \in 0..N : g[n] = h[n]
    BY <1>1, <1>4, <2>1
  <2> QED
    BY <2>1, <2>2
<1> DEFINE m == CHOOSE h : h = [n \in 0..N |-> IF n = 0 THEN lines
                                              ELSE WithLine(h[n - 1], extra[n], K)]
<1>6. m = [n \in 0..N |-> IF n = 0 THEN lines ELSE WithLine(m[n - 1], extra[n], K)]
  BY <1>5
<1>7. MergedLines(lines, extra) = m[N]
  BY DEF MergedLines
<1> HIDE DEF m
<1>8. ASSUME NEW n \in 0..N PROVE m[n] \in V
  <2> DEFINE T == {k \in Nat : k <= N => m[k] \in V}
  <2>1. 0 \in T
    BY <1>1, <1>6
  <2>2. ASSUME NEW k \in Nat, k \in T PROVE k + 1 \in T
    <3> SUFFICES ASSUME k + 1 <= N PROVE m[k + 1] \in V
      OBVIOUS
    <3>1. m[k] \in V /\ k + 1 \in 1..N
      BY <1>1, <2>2
    <3>2. m[k + 1] = WithLine(m[k], extra[k + 1], K)
      BY <1>1, <1>6, <3>1
    <3>3. F[<<m[k], k + 1>>] = WithLine(m[k], extra[k + 1], K)
      BY <3>1 DEF F
    <3>4. F[<<m[k], k + 1>>] \in V
      <4> HIDE DEF V, N, F
      <4> QED
        BY <1>2, <3>1
    <3> QED
      BY <3>2, <3>3, <3>4
  <2> HIDE DEF T
  <2>3. n \in T
    BY <1>1, <2>1, <2>2, NatInductionOverSet
  <2> QED
    BY <1>1, <2>3 DEF T
<1>9. m \in [0..N -> V]
  BY <1>6, <1>8
<1>10. /\ m \in [0..N -> Seq(LineItem)]
       /\ \A n \in 0..N : Len(m[n]) >= K
  BY <1>9 DEF V
<1>11. m[0] = lines /\ \A n \in 1..N : m[n] = WithLine(m[n - 1], extra[n], K)
  BY <1>1, <1>6
<1> QED
  BY <1>7, <1>10, <1>11

\* What the recursion of _drop_hs_summary keeps: the other lines, in their order.
LEMMA KeptLines ==
    ASSUME NEW lines \in Seq(LineItem)
    PROVE  /\ Kept(lines) \in Seq(LineItem)
           /\ \E e \in [1..Len(Kept(lines)) -> 1..Len(lines)] :
                /\ \A k \in 1..Len(Kept(lines)) : /\ Kept(lines)[k] = lines[e[k]]
                                                  /\ lines[e[k]].description \notin HsCode
                /\ \A j, k \in 1..Len(Kept(lines)) : e[j] = e[k] => j = k
                /\ \A n \in 1..Len(lines) : lines[n].description \notin HsCode
                     => \E k \in 1..Len(Kept(lines)) : e[k] = n
<1> DEFINE N == Len(lines)
           V == Seq(LineItem)
           Next1(s, n) == IF lines[n].description \in HsCode THEN s ELSE Append(s, lines[n])
           F == [x \in V \X (1..N) |-> Next1(x[1], x[2])]
           Good(s, n) ==
             /\ s \in V
             /\ \E e \in [1..Len(s) -> 1..n] :
                  /\ \A k \in 1..Len(s) : /\ s[k] = lines[e[k]]
                                          /\ lines[e[k]].description \notin HsCode
                  /\ \A j, k \in 1..Len(s) : e[j] = e[k] => j = k
                  /\ \A i \in 1..n : lines[i].description \notin HsCode
                       => \E k \in 1..Len(s) : e[k] = i
<1>1. N \in Nat /\ <<>> \in V
  BY LenProperties
<1>2. F \in Steps(V, N)
  <2>1. ASSUME NEW s \in V, NEW n \in 1..N PROVE Next1(s, n) \in V
    <3>1. lines[n] \in LineItem
      BY ElementOfSeq
    <3> QED
      BY <3>1, AppendProperties
  <2> QED
    BY <2>1 DEF Steps
<1> HIDE DEF F
<1>3. PICK g : IsRun(g, V, <<>>, N, F)
  <2> HIDE DEF N, V
  <2> QED
    BY <1>1, <1>2, Recursion
<1>4. g = [n \in 0..N |-> IF n = 0 THEN <<>>
                          ELSE IF lines[n].description \in HsCode THEN g[n - 1]
                          ELSE Append(g[n - 1], lines[n])]
  <2> DEFINE h == [n \in 0..N |-> IF n = 0 THEN <<>>
                                  ELSE IF lines[n].description \in HsCode THEN g[n - 1]
                                  ELSE Append(g[n - 1], lines[n])]
  <2>1. g \in [0..N -> V] /\ g[0] = <<>>
    BY <1>3 DEF IsRun
  <2>2. ASSUME NEW n \in 1..N PROVE g[n] = Next1(g[n - 1], n)
    <3>1. g[n] = F[<<g[n - 1], n>>] /\ g[n - 1] \in V
      <4> HIDE DEF V, N
      <4> QED
        BY <1>1, <1>3 DEF IsRun
    <3>2. F[<<g[n - 1], n>>] = Next1(g[n - 1], n)
      BY <3>1 DEF F
    <3> QED
      BY <3>1, <3>2
  <2>3. ASSUME NEW n \in 0..N PROVE g[n] = h[n]
    <3>1. CASE n = 0
      BY <2>1, <3>1
    <3>2. CASE n \in 1..N
      BY <1>1, <2>2, <3>2
    <3> QED
      BY <1>1, <3>1, <3>2
  <2> HIDE DEF h
  <2>4. DOMAIN g = 0..N /\ g = [n \in 0..N |-> g[n]]
    BY <2>1
  <2>5. g = [n \in 0..N |-> h[n]]
    BY <2>3, <2>4
  <2>6. h = [n \in 0..N |-> h[n]]
    BY DEF h
  <2> QED
    BY <2>5, <2>6 DEF h
<1> DEFINE m == CHOOSE h : h = [n \in 0..N |-> IF n = 0 THEN <<>>
                                               ELSE IF lines[n].description \in HsCode THEN h[n - 1]
                                               ELSE Append(h[n - 1], lines[n])]
<1>5. m = [n \in 0..N |-> IF n = 0 THEN <<>>
                          ELSE IF lines[n].description \in HsCode THEN m[n - 1]
                          ELSE Append(m[n - 1], lines[n])]
  BY <1>4
<1>6. Kept(lines) = m[N]
  BY DEF Kept
<1> HIDE DEF m
<1> DEFINE T == {n \in Nat : n <= N => Good(m[n], n)}
<1>7. 0 \in T
  <2>1. m[0] = <<>>
    BY <1>1, <1>5
  <2> DEFINE e == [k \in 1..0 |-> k]
  <2>2. Len(m[0]) = 0 /\ m[0] \in V /\ 1..0 = {}
    BY <2>1
  <2>3. Good(m[0], 0)
    <3>1. e \in [1..Len(m[0]) -> 1..0]
      BY <2>2
    <3> HIDE DEF e
    <3> QED
      BY <2>2, <3>1
  <2> QED
    BY <2>3
<1>8. ASSUME NEW n \in Nat, n \in T PROVE n + 1 \in T
  <2>0. n + 1 \in Nat
    OBVIOUS
  <2> SUFFICES ASSUME n + 1 <= N PROVE Good(m[n + 1], n + 1)
    <3> HIDE DEF Good, N
    <3> QED
      BY <2>0, Zenon
  <2> DEFINE s == m[n]
             l == lines[n + 1]
  <2>1. Good(s, n)
    BY <1>1, <1>8
  <2>2. PICK e \in [1..Len(s) -> 1..n] :
             /\ \A k \in 1..Len(s) : /\ s[k] = lines[e[k]]
                                     /\ lines[e[k]].description \notin HsCode
             /\ \A j, k \in 1..Len(s) : e[j] = e[k] => j = k
             /\ \A i \in 1..n : lines[i].description \notin HsCode
                  => \E k \in 1..Len(s) : e[k] = i
    BY <2>1
  <2>3. s \in V /\ Len(s) \in Nat /\ l \in LineItem
    BY <1>1, <2>1, LenProperties, ElementOfSeq
  <2>4. m[n + 1] = Next1(s, n + 1)
    <3>1. n + 1 \in 0..N /\ n + 1 # 0 /\ (n + 1) - 1 = n
      BY <1>1
    <3> HIDE DEF N
    <3> QED
      BY <1>5, <3>1
  <2> HIDE DEF s
  <2>5. CASE l.description \in HsCode
    <3>1. m[n + 1] = s
      BY <2>4, <2>5
    <3>2. e \in [1..Len(s) -> 1..(n + 1)]
      OBVIOUS
    <3>3. \A i \in 1..(n + 1) : lines[i].description \notin HsCode
             => \E k \in 1..Len(s) : e[k] = i
      BY <2>2, <2>5
    <3> QED
      BY <2>2, <2>3, <3>1, <3>2, <3>3
  <2>6. CASE l.description \notin HsCode
    <3> DEFINE t == Append(s, l)
               ee == [k \in 1..(Len(s) + 1) |-> IF k <= Len(s) THEN e[k] ELSE n + 1]
    <3>1. m[n + 1] = t
      BY <2>4, <2>6
    <3>2. /\ t \in V /\ Len(t) = Len(s) + 1
          /\ \A k \in 1..Len(s) : t[k] = s[k]
          /\ t[Len(s) + 1] = l
      BY <2>3, AppendProperties
    <3>7. /\ \A k \in 1..Len(s) : ee[k] = e[k] /\ e[k] \in 1..n
          /\ ee[Len(s) + 1] = n + 1
          /\ ee \in [1..(Len(s) + 1) -> 1..(n + 1)]
      BY <2>3
    <3> HIDE DEF t, ee, l
    <3>3. ee \in [1..Len(t) -> 1..(n + 1)]
      BY <3>2, <3>7
    <3>8. \A k \in 1..Len(t) : k \in 1..Len(s) \/ k = Len(s) + 1
      BY <2>3, <3>2
    <3>4. \A k \in 1..Len(t) : /\ t[k] = lines[ee[k]]
                               /\ lines[ee[k]].description \notin HsCode
      <4>1. ASSUME NEW k \in 1..Len(s)
            PROVE t[k] = lines[ee[k]] /\ lines[ee[k]].description \notin HsCode
        BY <2>2, <3>2, <3>7
      <4>2. t[Len(s) + 1] = lines[ee[Len(s) + 1]] /\ lines[ee[Len(s) + 1]].description \notin HsCode
        BY <2>6, <3>2, <3>7 DEF l
      <4> QED
        BY <3>8, <4>1, <4>2
    <3>5. ASSUME NEW j \in 1..Len(t), NEW k \in 1..Len(t), ee[j] = ee[k] PROVE j = k
      <4>1. CASE j \in 1..Len(s) /\ k \in 1..Len(s)
        BY <2>2, <3>5, <3>7, <4>1
      <4>2. CASE j = Len(s) + 1 \/ k = Len(s) + 1
        <5>1. \A i \in 1..Len(s) : ee[i] # n + 1
          BY <3>7
        <5> QED
          BY <3>5, <3>7, <3>8, <4>2, <5>1
      <4> QED
        BY <3>8, <4>1, <4>2
    <3>6. \A i \in 1..(n + 1) : lines[i].description \notin HsCode
             => \E k \in 1..Len(t) : ee[k] = i
      <4>1. ASSUME NEW i \in 1..n, lines[i].description \notin HsCode
            PROVE \E k \in 1..Len(t) : ee[k] = i
        <5>1. PICK k \in 1..Len(s) : e[k] = i
          BY <2>2, <4>1
        <5> QED
          BY <2>3, <3>2, <3>7, <5>1
      <4>2. ee[Len(s) + 1] = n + 1 /\ Len(s) + 1 \in 1..Len(t)
        BY <2>3, <3>2, <3>7
      <4>3. \A i \in 1..(n + 1) : i \in 1..n \/ i = n + 1
        OBVIOUS
      <4> QED
        BY <4>1, <4>2, <4>3
    <3>9. Good(t, n + 1)
      <4> HIDE DEF V
      <4> QED
        BY <3>2, <3>3, <3>4, <3>5, <3>6
    <3> HIDE DEF Good
    <3> QED
      BY <3>1, <3>9
  <2> QED
    BY <2>5, <2>6
<1>9. Good(m[N], N)
  <2> HIDE DEF T, Good
  <2>1. N \in T
    BY <1>1, <1>7, <1>8, NatInductionOverSet
  <2> QED
    BY <1>1, <2>1 DEF T
<1> QED
  BY <1>6, <1>9

-----------------------------------------------------------------------------
(* Records *)

LEMMA SignedLines ==
    ASSUME NEW rec \in Record
    PROVE  /\ CreditNoteSign(rec) \in Record
           /\ Len(CreditNoteSign(rec).lines) = Len(rec.lines)
           /\ \A n \in 1..Len(rec.lines) : CreditNoteSign(rec).lines[n].rows = rec.lines[n].rows
<1>1. CASE ~rec.credit
  BY <1>1 DEF CreditNoteSign
<1>2. CASE rec.credit
  <2> DEFINE N == Len(rec.lines)
             signed == [n \in DOMAIN rec.lines |-> [rec.lines[n] EXCEPT !.price = Negative(@)]]
             totals == [k \in TotalKey |->
                          IF k \in {"subtotal", "total", "discount_amount", "vat_amount"}
                            THEN Negative(rec.totals[k]) ELSE rec.totals[k]]
  <2>1. rec.lines \in Seq(LineItem) /\ rec.totals \in [TotalKey -> Amount]
    BY DEF Record
  <2>2. \A v \in Amount : Negative(v) \in Amount
    BY RulesAssumption DEF Amount, Negative, IsNumber
  <2>3. N \in Nat /\ DOMAIN rec.lines = 1..N
    BY <2>1, LenProperties
  <2>4. ASSUME NEW n \in 1..N
        PROVE  signed[n] \in LineItem /\ signed[n].rows = rec.lines[n].rows
    <3>1. rec.lines[n] \in LineItem
      BY <2>1, ElementOfSeq
    <3> QED
      BY <2>2, <2>3, <3>1 DEF LineItem
  <2>5. signed \in Seq(LineItem) /\ Len(signed) = N
    <3>1. signed = [n \in 1..N |-> signed[n]]
      BY <2>3
    <3> HIDE DEF signed
    <3> QED
      BY <2>3, <2>4, <3>1
  <2>6. totals \in [TotalKey -> Amount]
    BY <2>1, <2>2
  <2>7. CreditNoteSign(rec) = [rec EXCEPT !.totals = totals, !.lines = signed]
    BY <1>2 DEF CreditNoteSign
  <2> HIDE DEF signed, totals
  <2> QED
    BY <2>4, <2>5, <2>6, <2>7 DEF Record
<1> QED
  BY <1>1, <1>2

LEMMA TotalDerived ==
    ASSUME NEW rec \in Record
    PROVE  DeriveTotal(rec) \in Record /\ DeriveTotal(rec).lines = rec.lines
  BY DEF DeriveTotal, Record, TotalKey

\* What _reconcile_totals leaves without a warning adds up.
LEMMA Reconciliation ==
    ASSUME NEW rec \in Record
    PROVE  LET r == ReconcileTotals(rec)
           IN  /\ r \in Record
               /\ r.credit = rec.credit /\ r.lines = rec.lines /\ r.totals = rec.totals
               /\ ~r.warned => LET sum == LineSum(r.lines)
                               IN  \/ LinesSettle(r.lines, sum, r.totals)
                                   \/ /\ ~LinesOff(r.lines, sum, r.totals)
                                      /\ ~TotalOff(r.credit, r.totals)
  BY DEF ReconcileTotals, Record

\* The corrections keep the rows of the lines that are not a customs summary.
LEMMA CorrectedRecord ==
    ASSUME NEW rec \in Record
    PROVE  LET r == ApplyRules(rec)
           IN  /\ r \in Record
               /\ Len(r.lines) = Len(Kept(rec.lines))
               /\ \A n \in 1..Len(r.lines) : r.lines[n].rows = Kept(rec.lines)[n].rows
               /\ ~r.warned => LET sum == LineSum(r.lines)
                               IN  \/ LinesSettle(r.lines, sum, r.totals)
                                   \/ /\ ~LinesOff(r.lines, sum, r.totals)
                                      /\ ~TotalOff(r.credit, r.totals)
<1> DEFINE a == DropHsSummary(rec)
           b == CreditNoteSign(a)
           c == DeriveTotal(b)
<1>1. a \in Record /\ a.lines = Kept(rec.lines)
  <2>1. rec.lines \in Seq(LineItem)
    BY DEF Record
  <2>2. Kept(rec.lines) \in Seq(LineItem)
    BY <2>1, KeptLines
  <2> QED
    BY <2>2 DEF DropHsSummary, Record
<1> HIDE DEF a
<1>2. /\ b \in Record /\ Len(b.lines) = Len(a.lines)
      /\ \A n \in 1..Len(a.lines) : b.lines[n].rows = a.lines[n].rows
  BY <1>1, SignedLines
<1> HIDE DEF b
<1>3. c \in Record /\ c.lines = b.lines
  BY <1>2, TotalDerived
<1>4. ApplyRules(rec) = ReconcileTotals(c)
  BY DEF ApplyRules, a, b
<1> HIDE DEF c
<1> QED
  BY <1>1, <1>2, <1>3, <1>4, Reconciliation

LEMMA MergedRecord ==
    ASSUME NEW rec \in Record, NEW answer \in Record
    PROVE  /\ Merged(rec, answer) \in Record
           /\ Merged(rec, answer).lines = MergedLines(rec.lines, answer.lines)
<1>1. rec.lines \in Seq(LineItem) /\ answer.lines \in Seq(LineItem)
  BY DEF Record
<1>2. MergedLines(rec.lines, answer.lines) \in Seq(LineItem)
  <2> DEFINE old == rec.lines
             new == answer.lines
  <2>1. old \in Seq(LineItem) /\ new \in Seq(LineItem) /\ Len(new) \in Nat
    BY <1>1, LenProperties
  <2> HIDE DEF old, new
  <2>2. PICK m \in [0..Len(new) -> Seq(LineItem)] : MergedLines(old, new) = m[Len(new)]
    BY <2>1, MergeRecursion
  <2>3. MergedLines(old, new) \in Seq(LineItem)
    BY <2>1, <2>2
  <2> QED
    BY <2>3 DEF old, new
<1> DEFINE lines == MergedLines(rec.lines, answer.lines)
           totals == [k \in TotalKey |->
                        IF answer.totals[k] = None THEN rec.totals[k] ELSE answer.totals[k]]
<1>3. Merged(rec, answer) = [rec EXCEPT !.lines = lines, !.totals = totals]
  BY DEF Merged
<1>4. rec.totals \in [TotalKey -> Amount] /\ answer.totals \in [TotalKey -> Amount]
  BY DEF Record
<1>5. totals \in [TotalKey -> Amount]
  BY <1>4
<1> HIDE DEF lines, totals
<1>6. [rec EXCEPT !.lines = lines, !.totals = totals]
        = [credit |-> rec.credit, lines |-> lines, totals |-> totals, warned |-> rec.warned]
  <2> DEFINE mid == [credit |-> rec.credit, lines |-> lines, totals |-> rec.totals,
                     warned |-> rec.warned]
  <2>1. [rec EXCEPT !.lines = lines] = mid
    BY DEF Record
  <2>2. [mid EXCEPT !.totals = totals]
          = [credit |-> rec.credit, lines |-> lines, totals |-> totals, warned |-> rec.warned]
    OBVIOUS
  <2>3. [rec EXCEPT !.lines = lines, !.totals = totals]
          = [[rec EXCEPT !.lines = lines] EXCEPT !.totals = totals]
    BY DEF Record
  <2> HIDE DEF mid
  <2> QED
    BY <2>1, <2>2, <2>3, Zenon
<1>7. rec.credit \in BOOLEAN /\ rec.warned \in BOOLEAN /\ lines \in Seq(LineItem)
  BY <1>2 DEF Record, lines
<1> QED
  BY <1>3, <1>5, <1>6, <1>7 DEF Record, lines

-----------------------------------------------------------------------------
(* Types *)

RowOf(n) == [id : 1..n, doc : Doc, stray : Nat, labelled : BOOLEAN, data : Record]

WorkerOK ==
    /\ doc \in Doc \cup {NoDoc}
    /\ phase \in {"idle", "pages", "read", "corrected", "error"}
    /\ phase = "idle" <=> doc = NoDoc
    /\ phase # "idle" => page \in 1..Len(Pages(doc))
    /\ attempt \in 0..(MaxAttempts - 1)
    /\ budget \in Nat
    /\ stray \in Nat /\ copied \in BOOLEAN
    /\ copied => phase = "pages" /\ Docs[doc].wrapped /\ stray = 0
    /\ strays \subseteq Doc \X (1..begun) /\ begun \in Nat
    /\ phase # "idle" => begun # 0
    /\ faults \in Nat
    /\ data \in Record

TableOK ==
    /\ stored \in Nat
    /\ rows \subseteq RowOf(stored)
    /\ IsFiniteSet(rows)
    /\ \A r, q \in rows : r # q => r.id # q.id

ReaderOK ==
    /\ at \in {"closed", "invoices", "items", "shown"}
    /\ left \in Seq(Supplier)
    /\ at \in {"invoices", "items"} <=> left # <<>>
    /\ invoices \subseteq RowOf(stored)
    /\ IsFiniteSet(invoices)
    /\ suppliers \subseteq Supplier

Types == WorkerOK /\ TableOK /\ ReaderOK

LEMMA PagesOfADocument ==
    ASSUME NEW d \in Doc
    PROVE  /\ Pages(d) \in Seq([size : Nat, answer : Record])
           /\ Len(Pages(d)) \in Nat /\ 1 \in 1..Len(Pages(d))
           /\ DOMAIN Pages(d) = 1..Len(Pages(d))
           /\ \A n \in 1..Len(Pages(d)) : Pages(d)[n].size \in Nat /\ Pages(d)[n].answer \in Record
           /\ FirstBudget(d) \in Nat \ {0}
<1>1. /\ Pages(d) \in Seq([size : Nat, answer : Record]) \ {<<>>}
      /\ FirstBudget(d) \in Nat \ {0}
  BY ExtractionAssumption DEF Pages, FirstBudget
<1>2. /\ Len(Pages(d)) \in Nat /\ Len(Pages(d)) # 0
      /\ DOMAIN Pages(d) = 1..Len(Pages(d))
  BY <1>1, LenProperties, EmptySeq
<1>3. \A n \in 1..Len(Pages(d)) : Pages(d)[n] \in [size : Nat, answer : Record]
  BY <1>1, ElementOfSeq
<1> QED
  BY <1>1, <1>2, <1>3

LEMMA NoDataIsARecord == NoData \in Record
<1>1. <<>> \in Seq(LineItem)
  OBVIOUS
<1>2. [k \in TotalKey |-> None] \in [TotalKey -> Amount]
  BY DEF Amount
<1> QED
  BY <1>1, <1>2 DEF NoData, Record

LEMMA Limits == NoDoc \notin Doc /\ MaxAttempts \in Nat \ {0} /\ Cap \in Nat
  BY ExtractionAssumption

LEMMA GrownIsABudget == ASSUME NEW b \in Nat PROVE Grown(b) \in Nat
  BY Limits DEF Grown

LEMMA WorkerInit == ExtractionInit => WorkerOK
<1> SUFFICES ASSUME ExtractionInit PROVE WorkerOK
  OBVIOUS
<1>1. doc \in Doc \cup {NoDoc} /\ (phase = "idle" <=> doc = NoDoc)
  BY DEF ExtractionInit
<1>2. attempt \in 0..(MaxAttempts - 1) /\ budget \in Nat /\ faults \in Nat
  BY Limits DEF ExtractionInit
<1>3. data \in Record
  BY NoDataIsARecord DEF ExtractionInit
<1>4. stray \in Nat /\ copied \in BOOLEAN /\ (copied => FALSE) /\ begun \in Nat
      /\ strays \subseteq Doc \X (1..begun)
  BY DEF ExtractionInit
<1> QED
  BY <1>1, <1>2, <1>3, <1>4 DEF ExtractionInit, WorkerOK

LEMMA IdleWorker ==
    ASSUME WorkerOK, Idle, copied' = FALSE, faults' \in Nat,
           begun' \in Nat, strays' \subseteq Doc \X (1..begun')
    PROVE  WorkerOK'
<1>1. (doc \in Doc \cup {NoDoc})' /\ (phase = "idle" <=> doc = NoDoc)'
  BY DEF Idle
<1>2. (attempt \in 0..(MaxAttempts - 1))' /\ budget' \in Nat
  BY Limits DEF Idle
<1>3. data' \in Record
  BY NoDataIsARecord DEF Idle
<1>4. stray' \in Nat /\ copied' \in BOOLEAN /\ (copied' => FALSE)
  BY DEF Idle
<1> QED
  BY <1>1, <1>2, <1>3, <1>4 DEF Idle, WorkerOK

LEMMA AgainKeepsTypes ==
    ASSUME WorkerOK, phase = "pages", NEW b \in Nat, Again(b), faults' \in Nat,
           UNCHANGED <<files, data, strays, begun>>
    PROVE  WorkerOK'
<1>1. CASE attempt + 1 < MaxAttempts
  BY <1>1, Limits DEF WorkerOK, Again, files, call
<1>2. CASE ~(attempt + 1 < MaxAttempts)
  BY <1>2 DEF WorkerOK, Again, files, call
<1> QED
  BY <1>1, <1>2

LEMMA AnswerOfAPage ==
    ASSUME WorkerOK, phase = "pages", Complete(page)
    PROVE  Answer(page) = Pages(doc)[page].answer /\ Answer(page) \in Record
<1>1. doc \in Doc /\ page \in 1..Len(Pages(doc))
  BY DEF WorkerOK
<1>2. Pages(doc)[page].size \in Nat /\ Pages(doc)[page].answer \in Record
  BY <1>1, PagesOfADocument
<1> QED
  BY <1>2 DEF Answer, Complete, WorkerOK

LEMMA WorkerKeepsTypes ==
    ASSUME WorkerOK, ExtractionNext
    PROVE  WorkerOK'
<1> USE DEF WorkerOK
<1>1. ASSUME NEW d \in Doc, UnwrapFails(d) PROVE WorkerOK'
  <2>1. begun' = begun + 1 /\ begun' \in Nat /\ begun' # 0 /\ faults' \in Nat
    BY <1>1 DEF UnwrapFails, Starts, Fault
  <2>2. Doc \X (1..begun) \subseteq Doc \X (1..begun') /\ <<d, begun'>> \in Doc \X (1..begun')
    BY <2>1
  <2>3. strays' \subseteq Doc \X (1..begun')
    BY <1>1, <2>2 DEF UnwrapFails, Copies
  <2> QED
    BY <1>1, <2>1, <2>3 DEF UnwrapFails, Starts, files, call
<1>2. ASSUME NEW d \in Doc, NEW c \in 0..MaxBegun, Begin(d, c) PROVE WorkerOK'
  <2>1. begun' = begun + 1 /\ begun' \in Nat /\ begun' # 0 /\ strays' = strays /\ faults' = faults
    BY <1>2 DEF Begin, Starts
  <2>2. strays' \subseteq Doc \X (1..begun')
    BY <2>1
  <2>3. c \in Nat
    BY ExtractionAssumption
  <2> QED
    BY <1>2, <2>1, <2>2, <2>3, PagesOfADocument, Limits DEF Begin, Starts, Unwraps
<1>3. CASE PageRead
  <2>1. doc \in Doc /\ page \in 1..Len(Pages(doc))
    BY <1>3 DEF PageRead
  <2>2. data' \in Record
    BY <1>3, AnswerOfAPage, MergedRecord DEF PageRead, Folded
  <2>3. Len(Pages(doc)) \in Nat /\ FirstBudget(doc) \in Nat
    BY <2>1, PagesOfADocument
  <2>4. CASE page < Len(Pages(doc))
    BY <1>3, <2>1, <2>2, <2>3, <2>4, Limits DEF PageRead, Asks, files
  <2>5. CASE ~(page < Len(Pages(doc)))
    BY <1>3, <2>1, <2>2, <2>5 DEF PageRead, files, call
  <2> QED
    BY <2>4, <2>5
<1>4. CASE CutShort
  <2>1. Grown(budget) \in Nat /\ faults' \in Nat
    BY <1>4, GrownIsABudget DEF CutShort
  <2> QED
    BY <1>4, <2>1, AgainKeepsTypes DEF CutShort
<1>5. CASE Correct
  <2>1. data' \in Record
    BY <1>5, CorrectedRecord DEF Correct
  <2> QED
    BY <1>5, <2>1 DEF Correct, files, call
<1>6. CASE GiveUp
  BY <1>6, IdleWorker DEF GiveUp
<1>7. CASE CallFails
  <2>1. faults' \in Nat
    BY <1>7 DEF CallFails, Fault
  <2> QED
    BY <1>7, <2>1, AgainKeepsTypes DEF CallFails
<1>8. CASE Crash
  <2>1. faults' \in Nat /\ begun' = begun
    BY <1>8 DEF Crash, Fault
  <2>2. strays' \subseteq Doc \X (1..begun')
    <3>1. CASE copied
      <4>1. doc \in Doc /\ begun \in Nat /\ begun # 0
        BY <3>1
      <4> QED
        BY <1>8, <2>1, <3>1, <4>1 DEF Crash, Copies
    <3>2. CASE ~copied
      BY <1>8, <2>1, <3>2 DEF Crash
    <3> QED
      BY <3>1, <3>2
  <2> QED
    BY <1>8, <2>1, <2>2, IdleWorker DEF Crash
<1> QED
  BY <1>1, <1>2, <1>3, <1>4, <1>5, <1>6, <1>7, <1>8 DEF ExtractionNext, ExtractionStep

LEMMA RowsGrow ==
    ASSUME NEW m \in Nat, NEW n \in Nat, m <= n
    PROVE  RowOf(m) \subseteq RowOf(n)
  BY DEF RowOf

LEMMA StoredTable ==
    ASSUME Types, Store
    PROVE  TableOK' /\ stored' \in Nat /\ stored <= stored'
<1> USE DEF Types
<1>1. doc \in Doc /\ stray \in Nat /\ data \in Record
  BY DEF WorkerOK, Store
<1>2. CASE StaysAsItIs
  BY <1>2 DEF TableOK, StaysAsItIs
<1>3. CASE Inserted
  <2> DEFINE new == [id |-> stored + 1, doc |-> doc, stray |-> stray, labelled |-> FALSE,
                     data |-> data]
             old == {r \in rows : ~(OfSupplier(r) /\ SameFile(r))}
  <2>1. stored' = stored + 1 /\ rows' = old \cup {new}
    BY <1>3 DEF Inserted
  <2>2. stored \in Nat /\ rows \subseteq RowOf(stored) /\ IsFiniteSet(rows) /\ old \subseteq rows
    BY DEF TableOK
  <2>3. RowOf(stored) \subseteq RowOf(stored + 1)
    BY <2>2, RowsGrow
  <2>4. new \in RowOf(stored + 1)
    BY <1>1, <2>2 DEF RowOf
  <2>5. IsFiniteSet(old \cup {new})
    BY <2>2, FS_Subset, FS_AddElement
  <2>6. \A r \in old : r.id # new.id
    BY <2>2 DEF RowOf
  <2> HIDE DEF new, old
  <2>7. \A r, q \in old \cup {new} : r # q => r.id # q.id
    BY <2>2, <2>6 DEF TableOK
  <2> QED
    BY <2>1, <2>2, <2>3, <2>4, <2>5, <2>7 DEF TableOK
<1> QED
  BY <1>2, <1>3 DEF Store

LEMMA LabelledTable ==
    ASSUME TableOK, Label
    PROVE  TableOK'
<1> DEFINE L(r) == [r EXCEPT !.labelled = TRUE]
<1>1. /\ stored \in Nat /\ stored' = stored /\ rows \subseteq RowOf(stored)
      /\ rows' = {L(r) : r \in rows} /\ IsFiniteSet(rows)
  BY DEF TableOK, Label
<1>2. \A r \in rows : L(r) \in RowOf(stored) /\ L(r).id = r.id
  BY <1>1 DEF RowOf
<1>3. IsFiniteSet({L(r) : r \in rows})
  <2> DEFINE f == [r \in rows |-> L(r)]
  <2>1. f \in Surjection(rows, {L(r) : r \in rows})
    BY DEF Surjection
  <2> QED
    BY <1>1, <2>1, FS_Surjection
<1>4. ASSUME NEW r \in rows', NEW q \in rows', r # q PROVE r.id # q.id
  <2>1. PICK a \in rows : r = L(a)
    BY <1>1
  <2>2. PICK b \in rows : q = L(b)
    BY <1>1
  <2> HIDE DEF L
  <2>3. a # b /\ r.id = a.id /\ q.id = b.id
    BY <1>2, <1>4, <2>1, <2>2
  <2> QED
    BY <2>3 DEF TableOK
<1> HIDE DEF L
<1> QED
  BY <1>1, <1>2, <1>3, <1>4 DEF TableOK

\* A list of a finite set has each of its elements once.
LEMMA ListOfASet ==
    ASSUME NEW S, IsFiniteSet(S)
    PROVE  /\ SetToSeq(S) \in Seq(S)
           /\ \A m, n \in DOMAIN SetToSeq(S) : SetToSeq(S)[m] = SetToSeq(S)[n] => m = n
           /\ SetToSeq(S) = <<>> => S = {}
<1>1. Cardinality(S) \in Nat /\ ExistsBijection(1..Cardinality(S), S)
  BY FS_CardinalityType
<1>2. \E f \in [1..Cardinality(S) -> S] : IsInjective(f)
  BY <1>1 DEF ExistsBijection, Bijection, Injection
<1>3. SetToSeq(S) \in [1..Cardinality(S) -> S] /\ IsInjective(SetToSeq(S))
  BY <1>2 DEF SetToSeq
<1>4. SetToSeq(S) = <<>> => Cardinality(S) = 0
  BY <1>1, <1>3
<1>5. Cardinality(S) = 0 => S = {}
  BY FS_EmptySet
<1> QED
  BY <1>1, <1>3, <1>4, <1>5 DEF IsInjective

LEMMA ListsOfSuppliers ==
    ASSUME TableOK, NEW list \in Lists
    PROVE  /\ list \in Seq(Supplier) /\ list # <<>>
           /\ \A m, n \in DOMAIN list : list[m] = list[n] => m = n
<1>1. PICK s \in (SUBSET Present) \ {{}} : list = SetToSeq(s)
  BY DEF Lists
<1>2. Present \subseteq Supplier
  BY DEF TableOK, RowOf, Present, Supplier
<1>3. IsFiniteSet(Present)
  <2> DEFINE f == [r \in rows |-> Docs[r.doc].supplier]
  <2>1. f \in Surjection(rows, Present)
    BY DEF Surjection, Present
  <2> QED
    BY <2>1, FS_Surjection DEF TableOK
<1>4. IsFiniteSet(s)
  BY <1>3, FS_Subset
<1>5. list \in Seq(s) /\ list # <<>> /\ \A m, n \in DOMAIN list : list[m] = list[n] => m = n
  <2>1. s # {}
    OBVIOUS
  <2> QED
    BY <1>1, <1>4, <2>1, ListOfASet
<1>6. list \in Seq(Supplier)
  BY <1>2, <1>5, SeqMonotonic
<1> QED
  BY <1>5, <1>6

LEMMA ReaderKeepsTypes ==
    ASSUME Types,
           \/ \E list \in Lists : Ask(list)
           \/ ReadInvoices \/ ReadItems \/ Close
    PROVE  ReaderOK'
<1> USE DEF Types
<1>1. ASSUME NEW list \in Lists, Ask(list) PROVE ReaderOK'
  <2>1. list \in Seq(Supplier) /\ list # <<>>
    BY ListsOfSuppliers
  <2>2. \A n \in DOMAIN list : list[n] \in Supplier
    BY <2>1, LenProperties, ElementOfSeq
  <2> QED
    BY <1>1, <2>1, <2>2 DEF Ask, ReaderOK, table
<1>2. CASE ReadInvoices
  <2>1. InvoicesOf(rows, Head(left)) \subseteq rows
    BY DEF InvoicesOf
  <2>2. IsFiniteSet(InvoicesOf(rows, Head(left)))
    BY <2>1, FS_Subset DEF TableOK
  <2> QED
    BY <1>2, <2>1, <2>2 DEF ReadInvoices, ReaderOK, TableOK, table
<1>3. CASE ReadItems
  <2>1. left # <<>> /\ left \in Seq(Supplier)
    BY <1>3 DEF ReadItems, ReaderOK
  <2>2. /\ left' = Tail(left) /\ left' \in Seq(Supplier) /\ Len(left') = Len(left) - 1
        /\ Len(left) \in Nat
    BY <1>3, <2>1, HeadTailProperties, LenProperties DEF ReadItems
  <2>3. at' = IF Len(left) > 1 THEN "invoices" ELSE "shown"
    BY <1>3 DEF ReadItems
  <2>4. left' # <<>> <=> Len(left) > 1
    <3>1. \A t \in Seq(Supplier) : Len(t) \in Nat /\ (t # <<>> <=> Len(t) # 0)
      BY EmptySeq, LenProperties
    <3>2. Len(left') \in Nat /\ (left' # <<>> <=> Len(left') # 0) /\ Len(left) # 0
      BY <2>1, <2>2, <3>1
    <3> QED
      BY <2>2, <3>2
  <2>5. invoices' = {} /\ IsFiniteSet(invoices')
    BY <1>3, FS_EmptySet DEF ReadItems
  <2> QED
    BY <1>3, <2>2, <2>3, <2>4, <2>5 DEF ReadItems, ReaderOK, table
<1>4. CASE Close
  BY <1>4 DEF Close, ReaderOK, table
<1> QED
  BY <1>1, <1>2, <1>3, <1>4

LEMMA ReaderStays ==
    ASSUME ReaderOK, UNCHANGED reader, stored \in Nat, stored' \in Nat, stored <= stored'
    PROVE  ReaderOK'
<1>1. RowOf(stored) \subseteq RowOf(stored')
  BY RowsGrow
<1> QED
  BY <1>1 DEF ReaderOK, reader

LEMMA TypesInit == Init => Types
<1> SUFFICES ASSUME Init PROVE Types
  OBVIOUS
<1>1. WorkerOK
  BY WorkerInit DEF Init
<1>2. TableOK
  BY FS_EmptySet DEF Init, TableOK
<1>3. ReaderOK
  BY FS_EmptySet DEF Init, ReaderOK
<1> QED
  BY <1>1, <1>2, <1>3 DEF Types

LEMMA TypesNext == Types /\ [Next]_vars => Types'
<1> SUFFICES ASSUME Types, [Next]_vars PROVE Types'
  OBVIOUS
<1> USE DEF Types
<1>1. stored \in Nat
  BY DEF TableOK
<1>2. CASE ExtractionNext /\ UNCHANGED <<table, reader>>
  <2>1. WorkerOK'
    BY <1>2, WorkerKeepsTypes
  <2>2. TableOK' /\ ReaderOK'
    BY <1>1, <1>2 DEF TableOK, ReaderOK, table, reader
  <2> QED
    BY <2>1, <2>2
<1>3. CASE Store
  <2>1. WorkerOK'
    <3>1. ~copied
      BY <1>3 DEF Store, WorkerOK
    <3>2. /\ copied' = FALSE /\ faults' \in Nat
          /\ begun' \in Nat /\ strays' \subseteq Doc \X (1..begun')
      BY <1>3, <3>1 DEF Store, WorkerOK
    <3> QED
      BY <1>3, <3>2, IdleWorker DEF Store
  <2>2. TableOK' /\ stored' \in Nat /\ stored <= stored'
    BY <1>3, StoredTable
  <2>3. ReaderOK'
    BY <1>1, <1>3, <2>2, ReaderStays DEF Store
  <2> QED
    BY <2>1, <2>2, <2>3
<1>4. CASE Label
  <2>1. WorkerOK'
    BY <1>4 DEF Label, WorkerOK, extraction, files, call
  <2>2. TableOK'
    BY <1>4, LabelledTable
  <2>3. ReaderOK'
    BY <1>1, <1>4, ReaderStays DEF Label
  <2> QED
    BY <2>1, <2>2, <2>3
<1>5. CASE (\E list \in Lists : Ask(list)) \/ ReadInvoices \/ ReadItems \/ Close
  <2>1. UNCHANGED <<extraction, table>>
    BY <1>5 DEF Ask, ReadInvoices, ReadItems, Close
  <2>2. WorkerOK' /\ TableOK'
    BY <2>1 DEF WorkerOK, TableOK, extraction, files, call, table
  <2>3. ReaderOK'
    BY <1>5, ReaderKeepsTypes
  <2> QED
    BY <2>2, <2>3
<1>6. CASE UNCHANGED vars
  BY <1>6 DEF WorkerOK, TableOK, ReaderOK, vars, extraction, files, call, table, reader
<1> QED
  BY <1>2, <1>3, <1>4, <1>5, <1>6 DEF Next

LEMMA TypesImplyTypeOK == Types => TypeOK
<1> SUFFICES ASSUME Types PROVE TypeOK
  OBVIOUS
<1>1. \A r \in rows : r.id \in 1..stored /\ r.doc \in Doc
  BY DEF Types, TableOK, RowOf
<1>2. invoices \subseteq [id : 1..stored, doc : Doc, stray : Nat, labelled : BOOLEAN,
                          data : {r.data : r \in invoices}]
  BY DEF Types, ReaderOK, RowOf
<1>3. stray \in Nat /\ copied \in BOOLEAN
  BY DEF Types, WorkerOK
<1> QED
  BY <1>1, <1>2, <1>3 DEF Types, WorkerOK, TableOK, ReaderOK, TypeOK

\* Every variable keeps its type, whatever the documents are and however many.
THEOREM TypeCorrect == Spec => []TypeOK
<1>1. Spec => []Types
  BY TypesInit, TypesNext, PTL DEF Spec
<1> QED
  BY <1>1, TypesImplyTypeOK, PTL

-----------------------------------------------------------------------------
(* A document is stored once *)

LEMMA StoredOnceNext == Types /\ StoredOnce /\ [Next]_vars => StoredOnce'
<1> SUFFICES ASSUME Types, StoredOnce, [Next]_vars
             PROVE  StoredOnce'
  OBVIOUS
<1>1. CASE Store
  <2>1. CASE StaysAsItIs
    BY <2>1 DEF StaysAsItIs, StoredOnce
  <2>2. CASE Inserted
    <3> DEFINE new == [id |-> stored + 1, doc |-> doc, stray |-> stray, labelled |-> FALSE,
                       data |-> data]
               old == {r \in rows : ~(OfSupplier(r) /\ SameFile(r))}
    <3>1. rows' = old \cup {new} /\ new.doc = doc /\ old \subseteq rows
      BY <2>2 DEF Inserted
    <3>2. ASSUME NEW r \in old, OfSupplier(r), Docs[r.doc].number # None
          PROVE  Docs[r.doc].number # Docs[doc].number
      <4>1. SUFFICES ASSUME Docs[r.doc].number = Docs[doc].number PROVE FALSE
        OBVIOUS
      <4>2. r \in Repeated
        BY <3>1, <3>2, <4>1 DEF Repeated
      <4>3. PICK q \in Repeated : SameFile(q)
        BY <2>2, <4>2 DEF Inserted
      <4>4. q # r
        BY <3>2, <4>3
      <4> QED
        BY <3>2, <4>2, <4>3, <4>4 DEF Repeated, StoredOnce, OfSupplier
    <3> HIDE DEF new, old
    <3> QED
      BY <3>1, <3>2 DEF StoredOnce, OfSupplier
  <2> QED
    BY <1>1, <2>1, <2>2 DEF Store
<1>2. CASE Label
  <2>1. ASSUME NEW r \in rows', NEW q \in rows', r # q
        PROVE  \E a, b \in rows : a # b /\ r.doc = a.doc /\ q.doc = b.doc
    <3>1. \A x \in rows : [x EXCEPT !.labelled = TRUE].doc = x.doc
      BY DEF Types, TableOK, RowOf
    <3>2. PICK a \in rows : r = [a EXCEPT !.labelled = TRUE]
      BY <1>2 DEF Label
    <3>3. PICK b \in rows : q = [b EXCEPT !.labelled = TRUE]
      BY <1>2 DEF Label
    <3> QED
      BY <2>1, <3>1, <3>2, <3>3
  <2> QED
    BY <2>1 DEF StoredOnce
<1>3. CASE UNCHANGED rows
  BY <1>3 DEF StoredOnce
<1> QED
  BY <1>1, <1>2, <1>3 DEF Next, Ask, ReadInvoices, ReadItems, Close, table, vars

\* process_pdf: for any number of extractions, copies and crashes, two invoices of a
\* supplier never have the same number.
THEOREM NumbersAreStoredOnce == Spec => []StoredOnce
<1>1. Init => Types /\ StoredOnce
  BY TypesInit DEF Init, StoredOnce
<1>2. (Types /\ StoredOnce) /\ [Next]_vars => (Types /\ StoredOnce)'
  BY TypesNext, StoredOnceNext
<1> QED
  BY <1>1, <1>2, PTL DEF Spec

-----------------------------------------------------------------------------
(* Pages that fit are read *)

Size(n) == Pages(doc)[n].size

\* Without a failed call, every attempt so far was cut short, and the budget was doubled
\* after each, up to the cap.
BudgetGrows ==
    phase = "pages" /\ faults = 0 =>
        \/ attempt = 0 /\ budget = FirstBudget(doc)
        \/ /\ attempt > 0 /\ Size(page) > FirstBudget(doc)
           /\ \/ budget = Cap
              \/ attempt = 1 /\ budget = 2 * FirstBudget(doc)
              \/ attempt = 2 /\ budget = 4 * FirstBudget(doc)
              \/ attempt > 2 /\ budget >= 8 * FirstBudget(doc)

Fits == BudgetGrows /\ PagesThatFitAreRead

LEMMA CutShortFits ==
    ASSUME MaxAttempts >= 4, WorkerOK, Fits, CutShort
    PROVE  Fits'
<1> DEFINE F == FirstBudget(doc)
           s == Size(page)
<1>1. /\ doc \in Doc /\ page \in 1..Len(Pages(doc)) /\ doc' = doc
      /\ phase = "pages" /\ faults' = faults /\ s > budget
  <2>1. doc \in Doc /\ page \in 1..Len(Pages(doc)) /\ budget \in Nat
    BY DEF WorkerOK, CutShort
  <2>2. s \in Nat
    BY <2>1, PagesOfADocument DEF Size
  <2> QED
    BY <2>1, <2>2 DEF CutShort, Complete, Size, files
<1>2. /\ F \in Nat \ {0} /\ s \in Nat /\ budget \in Nat /\ Cap \in Nat /\ MaxAttempts \in Nat
      /\ attempt \in 0..(MaxAttempts - 1) /\ DOMAIN Pages(doc) = 1..Len(Pages(doc))
  BY <1>1, PagesOfADocument, Limits DEF WorkerOK, Size
<1>3. CASE faults # 0
  BY <1>1, <1>3 DEF Fits, BudgetGrows, PagesThatFitAreRead
<1>4. CASE faults = 0
  <2>1. \/ attempt = 0 /\ budget = F
        \/ /\ attempt > 0 /\ s > F
           /\ \/ budget = Cap
              \/ attempt = 1 /\ budget = 2 * F
              \/ attempt = 2 /\ budget = 4 * F
              \/ attempt > 2 /\ budget >= 8 * F
    BY <1>1, <1>4 DEF Fits, BudgetGrows
  <2>2. s > F
    BY <1>1, <1>2, <2>1
  <2>3. CASE attempt + 1 < MaxAttempts
    <3>1. /\ attempt' = attempt + 1 /\ budget' = Grown(budget)
          /\ phase' = "pages" /\ page' = page
      BY <1>1, <2>3 DEF CutShort, Again
    <3>2. Size(page)' = s /\ FirstBudget(doc)' = F
      BY <1>1, <3>1 DEF Size
    <3>3. \/ budget' = Cap
          \/ attempt' = 1 /\ budget' = 2 * F
          \/ attempt' = 2 /\ budget' = 4 * F
          \/ attempt' > 2 /\ budget' >= 8 * F
      <4> HIDE DEF F, s
      <4> QED
        BY <1>2, <2>1, <3>1 DEF Grown
    <3>4. attempt' > 0
      BY <1>2, <3>1
    <3> QED
      BY <2>2, <3>1, <3>2, <3>3, <3>4 DEF Fits, BudgetGrows, PagesThatFitAreRead
  <2>4. CASE ~(attempt + 1 < MaxAttempts)
    <3>1. phase' = "error"
      BY <2>4 DEF CutShort, Again
    <3>2. s > Cap \/ s > 8 * F
      <4> HIDE DEF F, s
      <4> QED
        BY <1>1, <1>2, <2>1, <2>4
    <3> QED
      BY <1>1, <1>2, <2>2, <3>1, <3>2 DEF Fits, BudgetGrows, PagesThatFitAreRead, Size
  <2> QED
    BY <2>3, <2>4
<1> QED
  BY <1>3, <1>4

LEMMA FitsNext ==
    ASSUME MaxAttempts >= 4, Types, Fits, [Next]_vars
    PROVE  Fits'
<1> USE DEF Fits
<1>1. WorkerOK
  BY DEF Types
<1>2. ASSUME NEW d \in Doc, UnwrapFails(d) PROVE Fits'
  <2>1. phase' = "idle"
    BY <1>2 DEF UnwrapFails, Starts
  <2> QED
    BY <2>1 DEF BudgetGrows, PagesThatFitAreRead
<1>3. ASSUME NEW d \in Doc, NEW c \in 0..MaxBegun, Begin(d, c) PROVE Fits'
  BY <1>3 DEF Begin, BudgetGrows, PagesThatFitAreRead
<1>4. CASE PageRead
  BY <1>4 DEF PageRead, Asks, BudgetGrows, PagesThatFitAreRead, files
<1>5. CASE CutShort
  BY <1>1, <1>5, CutShortFits
<1>6. CASE Correct
  BY <1>6 DEF Correct, BudgetGrows, PagesThatFitAreRead
<1>7. CASE Idle
  BY <1>7 DEF Idle, BudgetGrows, PagesThatFitAreRead
<1>8. CASE CallFails
  <2>1. faults' # 0
    BY <1>1, <1>8 DEF CallFails, Fault, WorkerOK
  <2> QED
    BY <2>1 DEF BudgetGrows, PagesThatFitAreRead
<1>9. CASE UNCHANGED extraction
  BY <1>9 DEF BudgetGrows, PagesThatFitAreRead, Size, extraction, files, call
<1>10. CASE ExtractionNext
  BY <1>2, <1>3, <1>4, <1>5, <1>6, <1>7, <1>8, <1>10 DEF ExtractionNext, ExtractionStep, GiveUp, Crash
<1> QED
  BY <1>7, <1>9, <1>10 DEF Next, Store, Label, Ask, ReadInvoices, ReadItems, Close, vars

\* _run_page, with the four attempts it has: for any pages, first budgets and cap, what is
\* given up without a failed call has a page that is too long.
THEOREM FittingPagesAreRead ==
    ASSUME MaxAttempts >= 4
    PROVE  Spec => []PagesThatFitAreRead
<1>1. Init => Types /\ Fits
  BY TypesInit DEF Init, ExtractionInit, Fits, BudgetGrows, PagesThatFitAreRead
<1>2. (Types /\ Fits) /\ [Next]_vars => (Types /\ Fits)'
  BY TypesNext, FitsNext
<1> QED
  BY <1>1, <1>2, PTL DEF Spec, Fits

-----------------------------------------------------------------------------
(* Pages *)

SupplierOf(r) == Docs[r.doc].supplier

Dept == {Normalised(d) : d \in Doc}

\* Parts of pages, and pages.
PartOf(k) == [invoices : SUBSET [row : RowOf(k), dept : Dept],
              items : SUBSET [row : RowOf(k), n : Nat, dept : Dept]]

PageRows(p) == {i.row : i \in p.invoices} \cup {x.row : x \in p.items}

\* DepartmentsAgree, of any page.
Agreed(p) ==
    \A i \in p.invoices :
        /\ \A x \in p.items : x.row.id = i.row.id => x.dept = i.dept
        /\ i.dept = OtherDept =>
             \A j \in p.invoices :
                 (/\ SupplierOf(j.row) = SupplierOf(i.row) /\ Customer(i.row.doc) # None
                  /\ Customer(j.row.doc) = Customer(i.row.doc)) => j.dept = OtherDept

\* An invoice that has items on the page has each of its items there once.
Itemised(p) ==
    /\ \A x, y \in p.items : x.row.id = y.row.id => x.row = y.row /\ (x.n = y.n => x = y)
    /\ \A x \in p.items : /\ x.n \in DOMAIN x.row.data.lines
                          /\ \A n \in DOMAIN x.row.data.lines :
                               \E y \in p.items : y.row = x.row /\ y.n = n

PageOK(p) ==
    /\ IsFiniteSet(p.invoices) /\ IsFiniteSet(p.items)
    /\ Agreed(p)
    /\ Itemised(p)

\* A record without a warning adds up.
Reconciled(rec) ==
    LET sum == LineSum(rec.lines)
    IN  rec.warned \/ LinesSettle(rec.lines, sum, rec.totals)
          \/ (~LinesOff(rec.lines, sum, rec.totals) /\ ~TotalOff(rec.credit, rec.totals))

SeenRows ==
    rows \cup invoices \cup PageRows(shown)
      \cup UNION {PageRows(parts[n]) : n \in DOMAIN parts}

SameRecord(r, q) == r.id = q.id /\ r.doc = q.doc /\ r.data = q.data

\* However long a row was read ago: an id is that of one document and one record.
Seen ==
    /\ phase = "corrected" => Reconciled(data)
    /\ SeenRows \subseteq RowOf(stored)
    /\ \A r, q \in SeenRows : r.id = q.id => SameRecord(r, q)
    /\ \A r \in SeenRows : Reconciled(r.data)

\* The parts of the page under way are those of different suppliers, and of others than
\* it still waits for.
Parts ==
    /\ at \in {"closed", "shown"} => parts = <<>>
    /\ at # "items" => invoices = {}
    /\ at # "shown" => shown = NoPage
    /\ IsFiniteSet(suppliers)
    /\ \A k \in DOMAIN left : left[k] \in suppliers
    /\ \A j, k \in DOMAIN left : left[j] = left[k] => j = k
    /\ \A r \in invoices : SupplierOf(r) = Head(left)
    /\ parts \in Seq(PartOf(stored))
    /\ \A n \in DOMAIN parts :
         /\ PageOK(parts[n])
         /\ \A r \in PageRows(parts[n]) :
              /\ SupplierOf(r) \in suppliers
              /\ \A k \in DOMAIN left : SupplierOf(r) # left[k]
              /\ \A m \in DOMAIN parts : \A q \in PageRows(parts[m]) :
                   SupplierOf(r) = SupplierOf(q) => m = n
    /\ shown \in PartOf(stored)
    /\ PageOK(shown)
    /\ \A r \in PageRows(shown) : SupplierOf(r) \in suppliers

LEMMA RowFields ==
    ASSUME NEW k, NEW r \in RowOf(k)
    PROVE  /\ r.id \in 1..k /\ r.doc \in Doc /\ r.data \in Record
           /\ SupplierOf(r) \in Supplier
  BY DEF RowOf, SupplierOf, Supplier

LEMMA LinesOfARow ==
    ASSUME NEW k, NEW r \in RowOf(k)
    PROVE  /\ r.data.lines \in Seq(LineItem) /\ Len(r.data.lines) \in Nat
           /\ DOMAIN r.data.lines = 1..Len(r.data.lines)
<1>1. r.data.lines \in Seq(LineItem)
  BY RowFields DEF Record
<1> QED
  BY <1>1, LenProperties

\* ORDER BY invoice_date DESC has a first row in a set that is not empty.
LEMMA NewestRow ==
    ASSUME NEW k, NEW S \in SUBSET RowOf(k), IsFiniteSet(S), S # {}
    PROVE  \E r \in S : \A q \in S : ~Before(q, r)
<1> DEFINE T == {s \in SUBSET S : s # {} => \E r \in s : \A q \in s : ~Before(q, r)}
<1>1. {} \in T
  OBVIOUS
<1>2. ASSUME NEW s \in SUBSET S, NEW x \in S \ s, s \in T
      PROVE  s \cup {x} \in T
  <2>1. \A r \in S : Docs[r.doc].date \in Nat \cup {None}
    BY RowFields, DashboardAssumption
  <2>2. None \notin Nat
    BY RulesAssumption
  <2>3. \A p, q, r \in S : Before(p, q) /\ Before(q, r) => Before(p, r)
    BY <2>1, <2>2 DEF Before
  <2>4. \A r \in S : ~Before(r, r)
    BY DEF Before
  <2>5. \A q, r \in S : Before(q, r) => ~Before(r, q)
    BY <2>3, <2>4
  <2>6. CASE s = {}
    BY <2>4, <2>6
  <2>7. CASE s # {}
    <3>1. PICK r \in s : \A q \in s : ~Before(q, r)
      BY <1>2, <2>7
    <3>2. CASE Before(x, r)
      <4>1. \A q \in s : ~Before(q, x)
        BY <2>3, <3>1, <3>2
      <4> QED
        BY <2>4, <4>1
    <3>3. CASE ~Before(x, r)
      BY <3>1, <3>3
    <3> QED
      BY <3>2, <3>3
  <2> QED
    BY <2>6, <2>7
<1>3. S \in T
  <2> HIDE DEF T
  <2> QED
    BY <1>1, <1>2, FiniteInductionOverSet
<1> QED
  BY <1>3

\* What a map of _apply_dept_normalisation does: it knows a department of each customer
\* that has one.
LEMMA MapsResolve ==
    ASSUME NEW k, NEW invs \in SUBSET RowOf(k), IsFiniteSet(invs), NEW map \in CustomerMaps(invs)
    PROVE  /\ \A d \in Doc : Resolved(d, map) \in Dept
           /\ \A r, q \in invs :
                (/\ Resolved(r.doc, map) = OtherDept /\ Customer(r.doc) # None
                 /\ Customer(q.doc) = Customer(r.doc)) => Resolved(q.doc, map) = OtherDept
<1> DEFINE customers == {c \in {Customer(r.doc) : r \in invs} \ {None} : Knowing(invs, c) # {}}
<1>1. map \in [customers -> invs] /\ \A c \in customers : map[c] \in Knowing(invs, c)
  BY DEF CustomerMaps
<1>2. \A c \in customers : map[c] \in invs /\ Normalised(map[c].doc) # OtherDept
  BY <1>1 DEF Knowing
<1>3. \A d \in Doc : Resolved(d, map) \in Dept
  <2>1. \A c \in customers : map[c].doc \in Doc
    BY <1>2, RowFields
  <2> QED
    BY <1>1, <2>1 DEF Resolved, Dept
<1>4. ASSUME NEW r \in invs, NEW q \in invs, Resolved(r.doc, map) = OtherDept,
             Customer(r.doc) # None, Customer(q.doc) = Customer(r.doc)
      PROVE  Resolved(q.doc, map) = OtherDept
  <2> DEFINE c == Customer(r.doc)
             known == {p \in invs : Customer(p.doc) = c /\ Normalised(p.doc) # OtherDept}
  <2>1. c \notin customers
    <3>1. SUFFICES ASSUME c \in customers PROVE FALSE
      OBVIOUS
    <3> QED
      BY <1>1, <1>2, <1>4, <3>1 DEF Resolved
  <2>2. Knowing(invs, c) = {}
    BY <1>4, <2>1
  <2>3. known = {}
    <3>1. SUFFICES ASSUME known # {} PROVE FALSE
      OBVIOUS
    <3>2. known \in SUBSET RowOf(k) /\ IsFiniteSet(known)
      BY FS_Subset
    <3>3. PICK p \in known : \A s \in known : ~Before(s, p)
      <4> HIDE DEF known
      <4> QED
        BY <3>1, <3>2, NewestRow
    <3> QED
      BY <2>2, <3>3 DEF Knowing
  <2>4. Normalised(q.doc) = OtherDept
    BY <1>4, <2>3
  <2> QED
    BY <1>1, <1>4, <2>1, <2>4 DEF Resolved
<1> QED
  BY <1>3, <1>4

\* A supplier's invoices of a first query, and the table when the second is made.
TwoQueries(k, s, invs, rws, map) ==
    /\ k \in Nat
    /\ invs \subseteq RowOf(k) /\ IsFiniteSet(invs)
    /\ rws \subseteq RowOf(k) /\ IsFiniteSet(rws)
    /\ \A r, q \in rws : r # q => r.id # q.id
    /\ \A r \in invs, q \in rws : r.id = q.id => r.doc = q.doc
    /\ \A r \in invs : SupplierOf(r) = s
    /\ map \in CustomerMaps(invs)

\* One supplier's part: the departments agree although the tables may have changed
\* between its two queries.
LEMMA OnePart ==
    ASSUME NEW k, NEW s, NEW invs, NEW rws, NEW map,
           TwoQueries(k, s, invs, rws, map)
    PROVE  LET p == SupplierPage(invs, ItemsOf(rws, s), map)
           IN  /\ p \in PartOf(k)
               /\ PageOK(p)
               /\ PageRows(p) \subseteq invs \cup rws
               /\ \A r \in PageRows(p) : SupplierOf(r) = s
<1> USE DEF TwoQueries
<1> DEFINE shownRows == {q \in rws : /\ Docs[q.doc].supplier = s
                                     /\ ~(s \in NegativeTypes /\ q.data.credit)}
           items == ItemsOf(rws, s)
           p == SupplierPage(invs, items, map)
           I(r) == [row |-> r, dept |-> Resolved(r.doc, map)]
           X(i) == [row |-> i.row, n |-> i.n, dept |-> ItemDept(i, map)]
<1>1. /\ \A d \in Doc : Resolved(d, map) \in Dept
      /\ \A r, q \in invs :
           (/\ Resolved(r.doc, map) = OtherDept /\ Customer(r.doc) # None
            /\ Customer(q.doc) = Customer(r.doc)) => Resolved(q.doc, map) = OtherDept
  BY MapsResolve
<1>2. /\ \A x \in items : /\ x.row \in rws /\ SupplierOf(x.row) = s
                          /\ x.n \in DOMAIN x.row.data.lines /\ x = [row |-> x.row, n |-> x.n]
      /\ \A x \in items : \A n \in DOMAIN x.row.data.lines : [row |-> x.row, n |-> n] \in items
  BY DEF ItemsOf, SupplierOf
<1>3. \A x \in items : x.n \in Nat
  BY <1>2, LinesOfARow
<1>4. IsFiniteSet(items)
  <2> DEFINE perRow == {[row : {r}, n : DOMAIN r.data.lines] : r \in shownRows}
  <2>1. IsFiniteSet(shownRows)
    BY FS_Subset
  <2>2. IsFiniteSet(perRow)
    <3> DEFINE f == [r \in shownRows |-> [row : {r}, n : DOMAIN r.data.lines]]
    <3>1. f \in Surjection(shownRows, perRow)
      BY DEF Surjection
    <3> QED
      BY <2>1, <3>1, FS_Surjection
  <2>3. ASSUME NEW r \in shownRows PROVE IsFiniteSet([row : {r}, n : DOMAIN r.data.lines])
    <3> DEFINE f == [n \in DOMAIN r.data.lines |-> [row |-> r, n |-> n]]
    <3>1. f \in Surjection(DOMAIN r.data.lines, [row : {r}, n : DOMAIN r.data.lines])
      BY DEF Surjection
    <3>2. IsFiniteSet(DOMAIN r.data.lines)
      BY LinesOfARow, FS_Interval
    <3> QED
      BY <3>1, <3>2, FS_Surjection
  <2>4. items = UNION perRow
    BY DEF ItemsOf
  <2> HIDE DEF perRow
  <2>5. \A q \in perRow : IsFiniteSet(q)
    BY <2>3 DEF perRow
  <2> QED
    BY <2>2, <2>4, <2>5, FS_UNION
<1>5. /\ p.invoices = {I(r) : r \in invs}
      /\ p.items = IF invs = {} THEN {} ELSE {X(i) : i \in items}
      /\ p = [invoices |-> p.invoices, items |-> p.items]
  BY DEF SupplierPage
<1> HIDE DEF p, items
<1>6. IsFiniteSet(p.invoices) /\ IsFiniteSet(p.items)
  <2>1. IsFiniteSet({I(r) : r \in invs})
    <3> DEFINE f == [r \in invs |-> I(r)]
    <3>1. f \in Surjection(invs, {I(r) : r \in invs})
      BY DEF Surjection
    <3> QED
      BY <3>1, FS_Surjection
  <2>2. IsFiniteSet({X(i) : i \in items})
    <3> DEFINE f == [i \in items |-> X(i)]
    <3>1. f \in Surjection(items, {X(i) : i \in items})
      BY DEF Surjection
    <3> QED
      BY <1>4, <3>1, FS_Surjection
  <2> QED
    BY <1>5, <2>1, <2>2, FS_EmptySet
<1>7. \A i \in p.invoices : i \in [row : RowOf(k), dept : Dept] /\ i.row \in invs
                            /\ i.dept = Resolved(i.row.doc, map)
  BY <1>1, <1>5, RowFields
<1>8. \A x \in p.items : /\ x \in [row : RowOf(k), n : Nat, dept : Dept]
                         /\ x.row \in rws /\ SupplierOf(x.row) = s
                         /\ [row |-> x.row, n |-> x.n] \in items
                         /\ x.dept = Resolved(x.row.doc, map)
  <2>1. ASSUME NEW i \in items
        PROVE  /\ X(i) \in [row : RowOf(k), n : Nat, dept : Dept]
               /\ X(i).row \in rws /\ SupplierOf(X(i).row) = s
               /\ [row |-> X(i).row, n |-> X(i).n] \in items
               /\ X(i).dept = Resolved(X(i).row.doc, map)
    BY <1>1, <1>2, <1>3, RowFields DEF ItemDept
  <2> HIDE DEF X
  <2> QED
    BY <1>5, <2>1
<1>9. p \in PartOf(k)
  <2>1. p = [invoices |-> p.invoices, items |-> p.items]
    BY <1>5
  <2>2. /\ p.invoices \subseteq [row : RowOf(k), dept : Dept]
        /\ p.items \subseteq [row : RowOf(k), n : Nat, dept : Dept]
    BY <1>7, <1>8
  <2> HIDE DEF p
  <2> QED
    BY <2>1, <2>2 DEF PartOf
<1>10. Agreed(p)
  <2> HIDE DEF p
  <2>1. ASSUME NEW i \in p.invoices, NEW x \in p.items, x.row.id = i.row.id
        PROVE  x.dept = i.dept
    <3>1. x.row.doc = i.row.doc
      BY <1>7, <1>8, <2>1
    <3> QED
      BY <1>7, <1>8, <3>1
  <2>2. ASSUME NEW i \in p.invoices, i.dept = OtherDept, NEW j \in p.invoices,
               Customer(i.row.doc) # None, Customer(j.row.doc) = Customer(i.row.doc)
        PROVE  j.dept = OtherDept
    BY <1>1, <1>7, <2>2
  <2> QED
    BY <2>1, <2>2 DEF Agreed
<1>11. Itemised(p)
  <2>1. \A x, y \in p.items : x.row.id = y.row.id => x.row = y.row
    BY <1>8
  <2>2. ASSUME NEW x \in p.items, NEW y \in p.items, x.row = y.row, x.n = y.n
        PROVE  x = y
    <3>1. /\ x \in [row : RowOf(k), n : Nat, dept : Dept] /\ x.dept = Resolved(x.row.doc, map)
          /\ y \in [row : RowOf(k), n : Nat, dept : Dept] /\ y.dept = Resolved(y.row.doc, map)
      BY <1>8
    <3>2. x = [row |-> x.row, n |-> x.n, dept |-> x.dept]
      BY <3>1
    <3>3. y = [row |-> y.row, n |-> y.n, dept |-> y.dept]
      BY <3>1
    <3> QED
      BY <2>2, <3>1, <3>2, <3>3
  <2>3. ASSUME NEW x \in p.items, NEW n \in DOMAIN x.row.data.lines
        PROVE  \E y \in p.items : y.row = x.row /\ y.n = n
    <3>1. [row |-> x.row, n |-> n] \in items /\ invs # {}
      BY <1>2, <1>5, <1>8
    <3>2. X([row |-> x.row, n |-> n]) \in p.items
      BY <1>5, <3>1
    <3> QED
      BY <3>2
  <2>4. \A x \in p.items : x.n \in DOMAIN x.row.data.lines
    BY <1>2, <1>8
  <2> QED
    BY <2>1, <2>2, <2>3, <2>4 DEF Itemised
<1>12. PageRows(p) \subseteq invs \cup rws /\ \A r \in PageRows(p) : SupplierOf(r) = s
  BY <1>7, <1>8 DEF PageRows
<1> QED
  BY <1>6, <1>9, <1>10, <1>11, <1>12 DEF PageOK, p, items

\* Parts of different suppliers, joined.
LEMMA JoinedParts ==
    ASSUME NEW k \in Nat, NEW ps \in Seq(PartOf(k)),
           \A n \in DOMAIN ps : PageOK(ps[n]),
           \A m, n \in DOMAIN ps : \A r \in PageRows(ps[m]), q \in PageRows(ps[n]) :
             /\ r.id = q.id => r.doc = q.doc
             /\ SupplierOf(r) = SupplierOf(q) => m = n
    PROVE  /\ Joined(ps) \in PartOf(k)
           /\ PageOK(Joined(ps))
           /\ \A r \in PageRows(Joined(ps)) : \E n \in DOMAIN ps : r \in PageRows(ps[n])
<1> DEFINE j == Joined(ps)
<1>1. DOMAIN ps = 1..Len(ps) /\ Len(ps) \in Nat /\ \A n \in DOMAIN ps : ps[n] \in PartOf(k)
  BY LenProperties, ElementOfSeq
<1>2. /\ \A i : i \in j.invoices <=> \E n \in DOMAIN ps : i \in ps[n].invoices
      /\ \A x : x \in j.items <=> \E n \in DOMAIN ps : x \in ps[n].items
      /\ j = [invoices |-> j.invoices, items |-> j.items]
  BY DEF Joined
<1>3. IsFiniteSet(j.invoices) /\ IsFiniteSet(j.items)
  <2>1. IsFiniteSet(DOMAIN ps)
    BY <1>1, FS_Interval
  <2>2. IsFiniteSet({ps[n].invoices : n \in DOMAIN ps})
    <3> DEFINE f == [n \in DOMAIN ps |-> ps[n].invoices]
    <3>1. f \in Surjection(DOMAIN ps, {ps[n].invoices : n \in DOMAIN ps})
      BY DEF Surjection
    <3> QED
      BY <2>1, <3>1, FS_Surjection
  <2>3. IsFiniteSet({ps[n].items : n \in DOMAIN ps})
    <3> DEFINE f == [n \in DOMAIN ps |-> ps[n].items]
    <3>1. f \in Surjection(DOMAIN ps, {ps[n].items : n \in DOMAIN ps})
      BY DEF Surjection
    <3> QED
      BY <2>1, <3>1, FS_Surjection
  <2>4. /\ \A T \in {ps[n].invoices : n \in DOMAIN ps} : IsFiniteSet(T)
        /\ \A T \in {ps[n].items : n \in DOMAIN ps} : IsFiniteSet(T)
    BY DEF PageOK
  <2>5. /\ IsFiniteSet(UNION {ps[n].invoices : n \in DOMAIN ps})
        /\ IsFiniteSet(UNION {ps[n].items : n \in DOMAIN ps})
    BY <2>2, <2>3, <2>4, FS_UNION
  <2> QED
    BY <2>5 DEF Joined
<1> HIDE DEF j
<1>4. j \in PartOf(k)
  <2>1. j.invoices \subseteq [row : RowOf(k), dept : Dept]
    BY <1>1, <1>2 DEF PartOf
  <2>2. j.items \subseteq [row : RowOf(k), n : Nat, dept : Dept]
    BY <1>1, <1>2 DEF PartOf
  <2> QED
    BY <1>2, <2>1, <2>2 DEF PartOf
<1>5. Agreed(j)
  <2>1. ASSUME NEW i \in j.invoices, NEW x \in j.items, x.row.id = i.row.id
        PROVE  x.dept = i.dept
    <3>1. PICK m \in DOMAIN ps : i \in ps[m].invoices
      BY <1>2
    <3>2. PICK n \in DOMAIN ps : x \in ps[n].items
      BY <1>2
    <3>3. m = n
      BY <2>1, <3>1, <3>2 DEF PageRows, SupplierOf
    <3> QED
      BY <2>1, <3>1, <3>2, <3>3 DEF PageOK, Agreed
  <2>2. ASSUME NEW i \in j.invoices, NEW h \in j.invoices, i.dept = OtherDept,
               SupplierOf(h.row) = SupplierOf(i.row), Customer(i.row.doc) # None,
               Customer(h.row.doc) = Customer(i.row.doc)
        PROVE  h.dept = OtherDept
    <3>1. PICK m \in DOMAIN ps : i \in ps[m].invoices
      BY <1>2
    <3>2. PICK n \in DOMAIN ps : h \in ps[n].invoices
      BY <1>2
    <3>3. m = n
      BY <2>2, <3>1, <3>2 DEF PageRows
    <3> QED
      BY <2>2, <3>1, <3>2, <3>3 DEF PageOK, Agreed
  <2> QED
    BY <2>1, <2>2 DEF Agreed
<1>6. Itemised(j)
  <2>1. ASSUME NEW x \in j.items, NEW y \in j.items, x.row.id = y.row.id
        PROVE  x.row = y.row /\ (x.n = y.n => x = y)
    <3>1. PICK m \in DOMAIN ps : x \in ps[m].items
      BY <1>2
    <3>2. PICK n \in DOMAIN ps : y \in ps[n].items
      BY <1>2
    <3>3. x.row \in PageRows(ps[m]) /\ y.row \in PageRows(ps[n])
      BY <3>1, <3>2 DEF PageRows
    <3>4. SupplierOf(x.row) = SupplierOf(y.row)
      BY <2>1, <3>3 DEF SupplierOf
    <3>5. m = n
      BY <3>3, <3>4
    <3>6. Itemised(ps[m])
      BY DEF PageOK
    <3> QED
      BY <2>1, <3>1, <3>2, <3>5, <3>6 DEF Itemised
  <2>2. ASSUME NEW x \in j.items
        PROVE  /\ x.n \in DOMAIN x.row.data.lines
               /\ \A n \in DOMAIN x.row.data.lines : \E y \in j.items : y.row = x.row /\ y.n = n
    <3>1. PICK m \in DOMAIN ps : x \in ps[m].items
      BY <1>2
    <3> QED
      BY <1>2, <3>1 DEF PageOK, Itemised
  <2> QED
    BY <2>1, <2>2 DEF Itemised
<1>7. \A r \in PageRows(j) : \E n \in DOMAIN ps : r \in PageRows(ps[n])
  BY <1>2 DEF PageRows
<1> QED
  BY <1>3, <1>4, <1>5, <1>6, <1>7 DEF PageOK, j

LEMMA EmptyPage ==
    /\ \A k : NoPage \in PartOf(k)
    /\ PageOK(NoPage)
    /\ PageRows(NoPage) = {}
  BY FS_EmptySet DEF NoPage, PartOf, PageOK, Agreed, Itemised, PageRows

LEMMA PartsGrow ==
    ASSUME NEW m \in Nat, NEW n \in Nat, m <= n
    PROVE  PartOf(m) \subseteq PartOf(n) /\ Seq(PartOf(m)) \subseteq Seq(PartOf(n))
<1>1. RowOf(m) \subseteq RowOf(n)
  BY RowsGrow
<1>2. PartOf(m) \subseteq PartOf(n)
  <2>1. ASSUME NEW p \in PartOf(m) PROVE p \in PartOf(n)
    <3>1. /\ p.invoices \subseteq [row : RowOf(n), dept : Dept]
          /\ p.items \subseteq [row : RowOf(n), n : Nat, dept : Dept]
          /\ p = [invoices |-> p.invoices, items |-> p.items]
      BY <1>1 DEF PartOf
    <3> QED
      BY <3>1 DEF PartOf
  <2> QED
    BY <2>1
<1> QED
  BY <1>2, SeqMonotonic

LEMMA RowsOfAPart ==
    ASSUME NEW k, NEW p \in PartOf(k)
    PROVE  PageRows(p) \subseteq RowOf(k)
  BY DEF PartOf, PageRows

\* Rows that are seen next are those that were, as they were.
LEMMA SeenAgain ==
    ASSUME Types, Seen, stored' \in Nat, stored <= stored',
           phase' = "corrected" => Reconciled(data'),
           \A r \in SeenRows' : r \in RowOf(stored) /\ \E q \in SeenRows : SameRecord(r, q)
    PROVE  Seen'
<1>1. RowOf(stored) \subseteq RowOf(stored')
  BY RowsGrow DEF Types, TableOK
<1>2. \A r \in SeenRows' : Reconciled(r.data)
  BY DEF Seen, SameRecord
<1>3. ASSUME NEW r \in SeenRows', NEW q \in SeenRows', r.id = q.id
      PROVE  SameRecord(r, q)
  <2>1. PICK a \in SeenRows : SameRecord(r, a)
    OBVIOUS
  <2>2. PICK b \in SeenRows : SameRecord(q, b)
    OBVIOUS
  <2>3. a.id = b.id
    BY <1>3, <2>1, <2>2 DEF SameRecord
  <2>4. SameRecord(a, b)
    BY <2>3 DEF Seen
  <2> QED
    BY <2>1, <2>2, <2>4 DEF SameRecord
<1> HIDE DEF SeenRows
<1> QED
  BY <1>1, <1>2, <1>3 DEF Seen

\* The part that the second query adds to those before it.
LEMMA AddedPart ==
    ASSUME Types, Seen, Parts, at = "items", NEW map \in CustomerMaps(invoices)
    PROVE  LET part == SupplierPage(invoices, ItemsOf(rows, Head(left)), map)
               ps == Append(parts, part)
           IN  /\ ps \in Seq(PartOf(stored))
               /\ \A n \in DOMAIN ps :
                    /\ PageOK(ps[n])
                    /\ PageRows(ps[n]) \subseteq SeenRows
                    /\ \A r \in PageRows(ps[n]) :
                         /\ SupplierOf(r) \in suppliers
                         /\ \A k \in DOMAIN Tail(left) : SupplierOf(r) # Tail(left)[k]
                         /\ \A m \in DOMAIN ps : \A q \in PageRows(ps[m]) :
                              SupplierOf(r) = SupplierOf(q) => m = n
<1> DEFINE s == Head(left)
           part == SupplierPage(invoices, ItemsOf(rows, s), map)
           ps == Append(parts, part)
<1>1. /\ left \in Seq(Supplier) /\ left # <<>> /\ Len(left) \in Nat /\ Len(left) > 0
      /\ DOMAIN left = 1..Len(left) /\ s = left[1]
  <2>1. left \in Seq(Supplier) /\ left # <<>>
    BY DEF Types, ReaderOK
  <2>2. Len(left) \in Nat /\ Len(left) # 0 /\ DOMAIN left = 1..Len(left)
    BY <2>1, EmptySeq, LenProperties
  <2>3. s = left[1]
    BY <2>1, HeadTailProperties
  <2> QED
    BY <2>1, <2>2, <2>3
<1>2. /\ Len(Tail(left)) = Len(left) - 1 /\ DOMAIN Tail(left) = 1..(Len(left) - 1)
      /\ \A k \in DOMAIN Tail(left) : k + 1 \in DOMAIN left /\ Tail(left)[k] = left[k + 1]
                                      /\ k + 1 # 1
  BY <1>1, HeadTailProperties, LenProperties
<1>3. /\ part \in PartOf(stored)
      /\ PageOK(part)
      /\ PageRows(part) \subseteq invoices \cup rows
      /\ \A r \in PageRows(part) : SupplierOf(r) = s
  <2>1. stored \in Nat /\ rows \subseteq RowOf(stored) /\ IsFiniteSet(rows)
        /\ \A r, q \in rows : r # q => r.id # q.id
    BY DEF Types, TableOK
  <2>2. invoices \subseteq RowOf(stored) /\ IsFiniteSet(invoices)
    BY DEF Types, ReaderOK
  <2>3. \A r \in invoices, q \in rows : r.id = q.id => r.doc = q.doc
    BY DEF Seen, SeenRows, SameRecord
  <2>4. \A r \in invoices : SupplierOf(r) = s
    BY DEF Parts
  <2> HIDE DEF s
  <2>5. LET p == SupplierPage(invoices, ItemsOf(rows, s), map)
        IN  /\ p \in PartOf(stored)
            /\ PageOK(p)
            /\ PageRows(p) \subseteq invoices \cup rows
            /\ \A r \in PageRows(p) : SupplierOf(r) = s
    <3>1. TwoQueries(stored, s, invoices, rows, map)
      BY <2>1, <2>2, <2>3, <2>4 DEF TwoQueries
    <3> QED
      BY <3>1, OnePart
  <2> QED
    BY <2>5
<1> HIDE DEF s, part
<1>4. parts \in Seq(PartOf(stored)) /\ Len(parts) \in Nat /\ DOMAIN parts = 1..Len(parts)
  BY LenProperties DEF Parts
<1>5. /\ ps \in Seq(PartOf(stored)) /\ Len(ps) = Len(parts) + 1 /\ DOMAIN ps = 1..Len(ps)
      /\ \A n \in DOMAIN ps : \/ n \in DOMAIN parts /\ ps[n] = parts[n]
                              \/ n = Len(ps) /\ ps[n] = part
  BY <1>3, <1>4, AppendProperties, LenProperties
<1> HIDE DEF ps
<1>6. s \in suppliers /\ \A k \in DOMAIN Tail(left) : s # Tail(left)[k]
  BY <1>1, <1>2 DEF Parts
<1>7. ASSUME NEW n \in DOMAIN parts, NEW r \in PageRows(parts[n])
      PROVE  /\ SupplierOf(r) \in suppliers /\ SupplierOf(r) # s /\ r \in SeenRows
             /\ \A k \in DOMAIN Tail(left) : SupplierOf(r) # Tail(left)[k]
             /\ \A m \in DOMAIN parts : \A q \in PageRows(parts[m]) :
                  SupplierOf(r) = SupplierOf(q) => m = n
  BY <1>1, <1>2 DEF Parts, SeenRows
<1>8. PageRows(part) \subseteq SeenRows
  BY <1>3 DEF SeenRows
<1>9. ASSUME NEW n \in DOMAIN ps
      PROVE  /\ PageOK(ps[n])
             /\ PageRows(ps[n]) \subseteq SeenRows
             /\ \A r \in PageRows(ps[n]) :
                  /\ SupplierOf(r) \in suppliers
                  /\ \A k \in DOMAIN Tail(left) : SupplierOf(r) # Tail(left)[k]
                  /\ \A m \in DOMAIN ps : \A q \in PageRows(ps[m]) :
                       SupplierOf(r) = SupplierOf(q) => m = n
  <2>1. PageOK(ps[n]) /\ PageRows(ps[n]) \subseteq SeenRows
    BY <1>3, <1>5, <1>7, <1>8 DEF Parts
  <2>2. ASSUME NEW r \in PageRows(ps[n])
        PROVE  /\ SupplierOf(r) \in suppliers
               /\ \A k \in DOMAIN Tail(left) : SupplierOf(r) # Tail(left)[k]
    BY <1>3, <1>5, <1>6, <1>7
  <2>3. ASSUME NEW r \in PageRows(ps[n]), NEW m \in DOMAIN ps, NEW q \in PageRows(ps[m]),
               SupplierOf(r) = SupplierOf(q)
        PROVE  m = n
    <3>1. CASE n \in DOMAIN parts /\ ps[n] = parts[n] /\ m \in DOMAIN parts /\ ps[m] = parts[m]
      BY <1>7, <2>3, <3>1
    <3>2. CASE n \in DOMAIN parts /\ ps[n] = parts[n] /\ ps[m] = part
      BY <1>3, <1>7, <2>3, <3>2
    <3>3. CASE ps[n] = part /\ m \in DOMAIN parts /\ ps[m] = parts[m]
      BY <1>3, <1>7, <2>3, <3>3
    <3>4. CASE n = Len(ps) /\ m = Len(ps)
      BY <3>4
    <3> QED
      BY <1>5, <3>1, <3>2, <3>3, <3>4
  <2> QED
    BY <2>1, <2>2, <2>3
<1> QED
  BY <1>5, <1>9 DEF ps, part, s

\* The parts as they are when a supplier's second query is done.
LEMMA PagesJoined ==
    ASSUME Types, Seen, Parts, at = "items", NEW map \in CustomerMaps(invoices)
    PROVE  LET ps == Append(parts, SupplierPage(invoices, ItemsOf(rows, Head(left)), map))
           IN  /\ Joined(ps) \in PartOf(stored)
               /\ PageOK(Joined(ps))
               /\ \A r \in PageRows(Joined(ps)) : r \in SeenRows /\ SupplierOf(r) \in suppliers
<1> DEFINE ps == Append(parts, SupplierPage(invoices, ItemsOf(rows, Head(left)), map))
<1>1. /\ ps \in Seq(PartOf(stored))
      /\ \A n \in DOMAIN ps :
           /\ PageOK(ps[n])
           /\ PageRows(ps[n]) \subseteq SeenRows
           /\ \A r \in PageRows(ps[n]) :
                /\ SupplierOf(r) \in suppliers
                /\ \A m \in DOMAIN ps : \A q \in PageRows(ps[m]) :
                     SupplierOf(r) = SupplierOf(q) => m = n
  BY AddedPart
<1> HIDE DEF ps
<1>2. \A m, n \in DOMAIN ps : \A r \in PageRows(ps[m]), q \in PageRows(ps[n]) :
        /\ r.id = q.id => r.doc = q.doc
        /\ SupplierOf(r) = SupplierOf(q) => m = n
  <2>1. \A r, q \in SeenRows : r.id = q.id => r.doc = q.doc
    BY DEF Seen, SameRecord
  <2> QED
    BY <1>1, <2>1
<1>3. stored \in Nat
  BY DEF Types, TableOK
<1>4. /\ Joined(ps) \in PartOf(stored)
      /\ PageOK(Joined(ps))
      /\ \A r \in PageRows(Joined(ps)) : \E n \in DOMAIN ps : r \in PageRows(ps[n])
  BY <1>1, <1>2, <1>3, JoinedParts
<1>5. \A r \in PageRows(Joined(ps)) : r \in SeenRows /\ SupplierOf(r) \in suppliers
  BY <1>1, <1>4
<1> QED
  BY <1>4, <1>5 DEF ps

LEMMA SeenNext == Types /\ Seen /\ Parts /\ [Next]_vars => Seen'
<1> SUFFICES ASSUME Types, Seen, Parts, [Next]_vars
             PROVE  Seen'
  OBVIOUS
<1>1. /\ stored \in Nat /\ \A r \in SeenRows : SameRecord(r, r)
      /\ SeenRows \subseteq RowOf(stored)
  BY DEF Types, TableOK, SameRecord, Seen
<1>2. rows \subseteq SeenRows /\ invoices \subseteq SeenRows
  BY DEF SeenRows
<1>3. CASE ExtractionNext /\ UNCHANGED <<table, reader>>
  <2>1. SeenRows' = SeenRows /\ stored' = stored
    BY <1>3 DEF SeenRows, table, reader
  <2>2. phase' = "corrected" => Reconciled(data')
    <3>1. CASE Correct
      <4>1. data \in Record /\ data' = ApplyRules(data)
        BY <3>1 DEF Types, WorkerOK, Correct
      <4> QED
        BY <4>1, CorrectedRecord DEF Reconciled
    <3>2. CASE phase' # "corrected"
      BY <3>2
    <3>3. CASE phase' = phase /\ data' = data
      BY <3>3 DEF Seen
    <3> QED
      BY <1>3, <3>1, <3>2, <3>3
         DEF ExtractionNext, ExtractionStep, UnwrapFails, Begin, PageRead, CutShort, GiveUp,
             Idle, CallFails, Crash, Again, files, call
  <2> QED
    BY <1>1, <2>1, <2>2, SeenAgain
<1>4. CASE Store
  <2>1. phase' # "corrected"
    BY <1>4 DEF Store, Idle
  <2>2. CASE StaysAsItIs
    <3>1. SeenRows' = SeenRows /\ stored' = stored
      BY <1>4, <2>2 DEF Store, StaysAsItIs, SeenRows, reader
    <3> QED
      BY <1>1, <2>1, <3>1, SeenAgain
  <2>3. CASE Inserted
    <3> DEFINE new == [id |-> stored + 1, doc |-> doc, stray |-> stray, labelled |-> FALSE,
                       data |-> data]
    <3>1. rows' \subseteq rows \cup {new} /\ stored' = stored + 1
      BY <2>3 DEF Inserted
    <3>2. /\ phase = "corrected" /\ doc \in Doc /\ stray \in Nat /\ data \in Record
          /\ Reconciled(data)
      BY <1>4 DEF Store, Types, WorkerOK, Seen
    <3>3. new \in RowOf(stored + 1) /\ new.id = stored + 1 /\ Reconciled(new.data)
      BY <1>1, <3>2 DEF RowOf
    <3>4. SeenRows' \subseteq SeenRows \cup {new}
      BY <1>4, <3>1 DEF Store, SeenRows, reader
    <3>5. RowOf(stored) \subseteq RowOf(stored + 1)
      BY <1>1, RowsGrow
    <3>6. \A r \in SeenRows : r.id # stored + 1
      BY <1>1 DEF RowOf
    <3> HIDE DEF new
    <3>7. \A r, q \in SeenRows \cup {new} : r.id = q.id => SameRecord(r, q)
      BY <3>3, <3>6 DEF Seen, SameRecord
    <3>8. \A r \in SeenRows \cup {new} : Reconciled(r.data) /\ r \in RowOf(stored + 1)
      BY <1>1, <3>3, <3>5 DEF Seen
    <3> HIDE DEF SeenRows
    <3> QED
      BY <2>1, <3>1, <3>4, <3>7, <3>8 DEF Seen
  <2> QED
    BY <1>4, <2>2, <2>3 DEF Store
<1>5. CASE Label
  <2>1. phase' # "corrected"
    BY <1>5 DEF Label, extraction
  <2>2. \A r \in rows' : r \in RowOf(stored) /\ \E q \in SeenRows : SameRecord(r, q)
    <3>1. ASSUME NEW r \in rows', NEW q \in rows, r = [q EXCEPT !.labelled = TRUE]
          PROVE  r \in RowOf(stored) /\ SameRecord(r, q)
      BY <3>1 DEF Types, TableOK, RowOf, SameRecord
    <3> QED
      BY <1>2, <1>5, <3>1 DEF Label
  <2>3. \A r \in SeenRows' : r \in rows' \/ r \in SeenRows
    BY <1>5 DEF Label, SeenRows, reader
  <2>4. stored' = stored
    BY <1>5 DEF Label
  <2> QED
    BY <1>1, <2>1, <2>2, <2>3, <2>4, SeenAgain
<1>6. ASSUME UNCHANGED <<extraction, table>>, SeenRows' \subseteq SeenRows
      PROVE  Seen'
  <2>1. stored' = stored /\ (phase' = "corrected" => Reconciled(data'))
    BY <1>6 DEF Seen, extraction, table
  <2> QED
    BY <1>1, <1>6, <2>1, SeenAgain
<1>7. ASSUME NEW list \in Lists, Ask(list) PROVE Seen'
  BY <1>6, <1>7 DEF Ask, SeenRows, table
<1>8. CASE ReadInvoices
  <2>1. InvoicesOf(rows, Head(left)) \subseteq rows
    BY DEF InvoicesOf
  <2> QED
    BY <1>6, <1>8, <2>1 DEF ReadInvoices, SeenRows, table
<1>9. CASE ReadItems
  <2>1. PICK map \in CustomerMaps(invoices) :
          LET ps == Append(parts, SupplierPage(invoices, ItemsOf(rows, Head(left)), map))
          IN  \/ parts' = ps /\ UNCHANGED shown
              \/ parts' = <<>> /\ shown' = Joined(ps)
    BY <1>9 DEF ReadItems
  <2> DEFINE ps == Append(parts, SupplierPage(invoices, ItemsOf(rows, Head(left)), map))
  <2>2. at = "items" /\ invoices' = {} /\ UNCHANGED <<extraction, table>>
    BY <1>9 DEF ReadItems
  <2>3. PageRows(Joined(ps)) \subseteq SeenRows /\ \A n \in DOMAIN ps : PageRows(ps[n]) \subseteq SeenRows
    BY <2>2, AddedPart, PagesJoined
  <2> HIDE DEF ps
  <2>4. CASE parts' = ps /\ UNCHANGED shown
    <3>1. SeenRows' \subseteq SeenRows
      BY <2>2, <2>3, <2>4 DEF SeenRows, table
    <3> QED
      BY <1>6, <2>2, <3>1
  <2>5. CASE parts' = <<>> /\ shown' = Joined(ps)
    <3>1. SeenRows' \subseteq SeenRows
      BY <2>2, <2>3, <2>5 DEF SeenRows, table
    <3> QED
      BY <1>6, <2>2, <3>1
  <2> QED
    BY <2>1, <2>4, <2>5 DEF ps
<1>10. CASE Close
  <2>1. PageRows(shown') = {}
    BY <1>10, EmptyPage DEF Close
  <2> QED
    BY <1>6, <1>10, <2>1 DEF Close, SeenRows, table
<1>11. CASE UNCHANGED vars
  BY <1>6, <1>11 DEF vars, SeenRows, table, reader
<1> QED
  BY <1>3, <1>4, <1>5, <1>7, <1>8, <1>9, <1>10, <1>11 DEF Next

LEMMA PartsStay ==
    ASSUME Parts, UNCHANGED reader, stored \in Nat, stored' \in Nat, stored <= stored'
    PROVE  Parts'
<1>1. PartOf(stored) \subseteq PartOf(stored') /\ Seq(PartOf(stored)) \subseteq Seq(PartOf(stored'))
  BY PartsGrow
<1> QED
  BY <1>1 DEF Parts, reader

LEMMA PartsNext == Types /\ Seen /\ Parts /\ [Next]_vars => Parts'
<1> SUFFICES ASSUME Types, Seen, Parts, [Next]_vars
             PROVE  Parts'
  OBVIOUS
<1>1. stored \in Nat
  BY DEF Types, TableOK
<1>2. ASSUME UNCHANGED reader PROVE Parts'
  <2>1. stored' \in Nat /\ stored <= stored'
    BY <1>1, <1>2, StoredTable
       DEF Next, Label, Ask, ReadInvoices, ReadItems, Close, table, vars
  <2> QED
    BY <1>1, <1>2, <2>1, PartsStay
<1>3. ASSUME NEW list \in Lists, Ask(list) PROVE Parts'
  <2>1. /\ list \in Seq(Supplier)
        /\ \A m, n \in DOMAIN list : list[m] = list[n] => m = n
    BY ListsOfSuppliers DEF Types
  <2>2. Len(list) \in Nat /\ DOMAIN list = 1..Len(list)
    BY <2>1, LenProperties
  <2>3. IsFiniteSet({list[n] : n \in DOMAIN list})
    <3> DEFINE f == [n \in DOMAIN list |-> list[n]]
    <3>1. f \in Surjection(DOMAIN list, {list[n] : n \in DOMAIN list})
      BY DEF Surjection
    <3>2. IsFiniteSet(DOMAIN list)
      BY <2>2, FS_Interval
    <3> QED
      BY <3>1, <3>2, FS_Surjection
  <2>4. parts = <<>> /\ invoices = {} /\ shown = NoPage
    BY <1>3 DEF Ask, Parts
  <2>5. \A n \in DOMAIN parts : FALSE
    BY <2>4
  <2> QED
    BY <1>3, <2>1, <2>3, <2>4, <2>5, EmptyPage DEF Ask, Parts, table
<1>4. CASE ReadInvoices
  <2>1. \A r \in InvoicesOf(rows, Head(left)) : SupplierOf(r) = Head(left)
    BY DEF InvoicesOf, SupplierOf
  <2>2. /\ at = "invoices" /\ at' = "items" /\ invoices' = InvoicesOf(rows, Head(left))
        /\ UNCHANGED <<stored, left, parts, suppliers, shown>>
    BY <1>4 DEF ReadInvoices, table
  <2> QED
    BY <2>1, <2>2 DEF Parts
<1>5. CASE ReadItems
  <2>1. PICK map \in CustomerMaps(invoices) :
          LET ps == Append(parts, SupplierPage(invoices, ItemsOf(rows, Head(left)), map))
          IN  \/ at' = "invoices" /\ parts' = ps /\ UNCHANGED shown
              \/ at' = "shown" /\ parts' = <<>> /\ shown' = Joined(ps)
    BY <1>5 DEF ReadItems
  <2> DEFINE ps == Append(parts, SupplierPage(invoices, ItemsOf(rows, Head(left)), map))
  <2>2. /\ at = "items" /\ invoices' = {} /\ left' = Tail(left)
        /\ UNCHANGED <<stored, suppliers>>
    BY <1>5 DEF ReadItems, table
  <2>3. /\ ps \in Seq(PartOf(stored))
        /\ \A n \in DOMAIN ps :
             /\ PageOK(ps[n])
             /\ \A r \in PageRows(ps[n]) :
                  /\ SupplierOf(r) \in suppliers
                  /\ \A k \in DOMAIN Tail(left) : SupplierOf(r) # Tail(left)[k]
                  /\ \A m \in DOMAIN ps : \A q \in PageRows(ps[m]) :
                       SupplierOf(r) = SupplierOf(q) => m = n
    BY <2>2, AddedPart
  <2>4. /\ Joined(ps) \in PartOf(stored)
        /\ PageOK(Joined(ps))
        /\ \A r \in PageRows(Joined(ps)) : SupplierOf(r) \in suppliers
    BY <2>2, PagesJoined
  <2> HIDE DEF ps
  <2>5. /\ \A k \in DOMAIN Tail(left) : Tail(left)[k] \in suppliers
        /\ \A j, k \in DOMAIN Tail(left) : Tail(left)[j] = Tail(left)[k] => j = k
    <3>1. left \in Seq(Supplier) /\ left # <<>> /\ Len(left) \in Nat /\ Len(left) # 0
          /\ DOMAIN left = 1..Len(left)
      <4>1. left \in Seq(Supplier) /\ left # <<>>
        BY <2>2 DEF Types, ReaderOK
      <4> QED
        BY <4>1, EmptySeq, LenProperties
    <3>2. /\ DOMAIN Tail(left) = 1..(Len(left) - 1)
          /\ \A k \in DOMAIN Tail(left) : k + 1 \in DOMAIN left /\ Tail(left)[k] = left[k + 1]
      BY <3>1, HeadTailProperties, LenProperties
    <3>3. \A j, k \in 1..(Len(left) - 1) : j + 1 = k + 1 => j = k
      BY <3>1
    <3> QED
      BY <3>2, <3>3 DEF Parts
  <2>6. IsFiniteSet(suppliers) /\ parts \in Seq(PartOf(stored)) /\ shown \in PartOf(stored)
        /\ PageOK(shown) /\ (\A r \in PageRows(shown) : SupplierOf(r) \in suppliers)
        /\ shown = NoPage
    BY <2>2 DEF Parts
  <2>7. CASE at' = "invoices" /\ parts' = ps /\ UNCHANGED shown
    BY <2>2, <2>3, <2>5, <2>6, <2>7 DEF Parts
  <2>8. CASE at' = "shown" /\ parts' = <<>> /\ shown' = Joined(ps)
    <3>1. <<>> \in Seq(PartOf(stored)) /\ \A n \in DOMAIN <<>> : FALSE
      BY EmptySeq
    <3> QED
      BY <2>2, <2>4, <2>5, <2>6, <2>8, <3>1 DEF Parts
  <2> QED
    BY <2>1, <2>7, <2>8 DEF ps
<1>6. CASE Close
  <2>1. left = <<>> /\ parts = <<>> /\ invoices = {}
    BY <1>6 DEF Close, Types, ReaderOK, Parts
  <2>2. \A k \in DOMAIN left : FALSE
    BY <2>1
  <2>3. \A n \in DOMAIN parts : FALSE
    BY <2>1
  <2> QED
    BY <1>6, <2>1, <2>2, <2>3, EmptyPage, FS_EmptySet DEF Close, Parts, table
<1> QED
  BY <1>2, <1>3, <1>4, <1>5, <1>6 DEF Next, Store, Label, vars

\* Reading is consistent: what is known of a row does not change while pages are made of it.
Reading == Types /\ Seen /\ Parts

LEMMA ReadingInit == Init => Reading
<1> SUFFICES ASSUME Init PROVE Reading
  OBVIOUS
<1>1. SeenRows = {} /\ phase = "idle"
  <2>1. \A n \in DOMAIN parts : FALSE
    BY DEF Init
  <2> QED
    BY <2>1, EmptyPage DEF Init, ExtractionInit, SeenRows
<1>2. Seen
  BY <1>1 DEF Seen
<1>3. Parts
  <2>1. parts = <<>> /\ \A n \in DOMAIN parts : FALSE
    BY DEF Init
  <2>2. left = <<>> /\ \A n \in DOMAIN left : FALSE
    BY DEF Init
  <2>3. <<>> \in Seq(PartOf(stored))
    BY EmptySeq
  <2> QED
    BY <2>1, <2>2, <2>3, EmptyPage, FS_EmptySet DEF Init, Parts
<1> QED
  BY <1>2, <1>3, TypesInit DEF Reading

LEMMA ReadingHolds == Spec => []Reading
<1>1. Reading /\ [Next]_vars => Reading'
  BY TypesNext, SeenNext, PartsNext DEF Reading
<1> QED
  BY <1>1, ReadingInit, PTL DEF Spec

\* _apply_dept_normalisation: for any invoices, addresses and departments, and whatever the
\* worker stores between the two queries, a page has an item where its invoice is, and no
\* invoice is under "Other" whose customer has a department on it.
THEOREM PagesAgreeOnDepartments == Spec => []DepartmentsAgree
<1>1. Reading => DepartmentsAgree
  BY DEF Reading, Parts, PageOK, Agreed, DepartmentsAgree, SupplierOf
<1> QED
  BY <1>1, ReadingHolds, PTL

-----------------------------------------------------------------------------
(* Sums *)

\* What the sum of each subset of S is.
AddsUp(h, w, S) ==
    /\ h \in [SUBSET S -> Int]
    /\ h[{}] = 0
    /\ \A s \in SUBSET S : \A x \in s : h[s] = w[x] + h[s \ {x}]

Weighs(w, S) == \A x \in S : w[x] \in Int

Sum(w, S) == (CHOOSE h : AddsUp(h, w, S))[S]

LEMMA SumsExist ==
    ASSUME NEW S, IsFiniteSet(S), NEW w, Weighs(w, S)
    PROVE  \E h : AddsUp(h, w, S)
<1> DEFINE T == {s \in SUBSET S : \E h : AddsUp(h, w, s)}
<1>1. {} \in T
  <2>1. AddsUp([s \in SUBSET {} |-> 0], w, {})
    BY DEF AddsUp
  <2> QED
    BY <2>1
<1>2. ASSUME NEW s \in SUBSET S, NEW x \in S \ s, s \in T
      PROVE  s \cup {x} \in T
  <2>1. PICK h : AddsUp(h, w, s)
    BY <1>2
  <2> DEFINE S1 == s \cup {x}
             g == [t \in SUBSET S1 |-> IF x \in t THEN w[x] + h[t \ {x}] ELSE h[t]]
  <2>2. /\ h \in [SUBSET s -> Int] /\ h[{}] = 0
        /\ \A t \in SUBSET s : \A y \in t : h[t] = w[y] + h[t \ {y}]
    BY <2>1 DEF AddsUp
  <2>3. \A y \in S : w[y] \in Int
    BY DEF Weighs
  <2>4. ASSUME NEW t \in SUBSET S1 PROVE t \ {x} \in SUBSET s
    OBVIOUS
  <2>5. \A t \in SUBSET S1 : /\ x \in t => g[t] = w[x] + h[t \ {x}]
                             /\ x \notin t => g[t] = h[t] /\ t \in SUBSET s
    OBVIOUS
  <2>6. g \in [SUBSET S1 -> Int]
    <3>1. ASSUME NEW t \in SUBSET S1 PROVE g[t] \in Int
      BY <2>2, <2>3, <2>4, <2>5
    <3> QED
      BY <3>1
  <2>7. g[{}] = 0
    BY <2>2, <2>5
  <2> HIDE DEF g
  <2>8. ASSUME NEW t \in SUBSET S1, NEW y \in t
        PROVE  g[t] = w[y] + g[t \ {y}]
    <3>1. t \ {y} \in SUBSET S1 /\ y \in S
      BY <1>2
    <3>2. CASE x \notin t
      <4>1. t \in SUBSET s /\ x \notin t \ {y}
        BY <3>2
      <4>2. g[t] = h[t] /\ g[t \ {y}] = h[t \ {y}]
        BY <2>5, <3>1, <3>2, <4>1
      <4> QED
        BY <2>2, <4>1, <4>2
    <3>3. CASE y = x
      BY <2>5, <3>1, <3>3
    <3>4. CASE x \in t /\ y # x
      <4>1. g[t] = w[x] + h[t \ {x}]
        BY <2>5, <3>4
      <4>2. h[t \ {x}] = w[y] + h[(t \ {x}) \ {y}]
        <5>1. t \ {x} \in SUBSET s /\ y \in t \ {x}
          BY <3>4
        <5> QED
          BY <2>2, <5>1
      <4>3. g[t \ {y}] = w[x] + h[(t \ {y}) \ {x}]
        BY <2>5, <3>1, <3>4
      <4>4. (t \ {x}) \ {y} = (t \ {y}) \ {x} /\ (t \ {x}) \ {y} \in SUBSET s
        OBVIOUS
      <4> DEFINE v == h[(t \ {x}) \ {y}]
      <4>5. v \in Int /\ w[x] \in Int /\ w[y] \in Int
        BY <2>2, <2>3, <3>1, <4>4
      <4>6. g[t] = w[x] + (w[y] + v)
        BY <4>1, <4>2
      <4>7. g[t \ {y}] = w[x] + v
        BY <4>3, <4>4
      <4> HIDE DEF v
      <4>8. w[x] + (w[y] + v) = w[y] + (w[x] + v)
        BY <4>5
      <4> QED
        BY <4>6, <4>7, <4>8
    <3> QED
      BY <3>2, <3>3, <3>4
  <2>9. AddsUp(g, w, S1)
    BY <2>6, <2>7, <2>8 DEF AddsUp
  <2> QED
    BY <1>2, <2>9
<1>3. S \in T
  <2> HIDE DEF T
  <2> QED
    BY <1>1, <1>2, FiniteInductionOverSet
<1> QED
  BY <1>3

First(s) == CHOOSE x \in s : TRUE

\* MapThenFoldSet, with a function in place of the operator.
FoldOf(h, w, S) == [s \in SUBSET S |-> IF s = {} THEN 0 ELSE w[First(s)] + h[s \ {First(s)}]]

\* The order in which a fold takes the elements does not matter.
LEMMA FoldsAddUp ==
    ASSUME NEW S, IsFiniteSet(S), NEW w, Weighs(w, S)
    PROVE  /\ \E h : h = FoldOf(h, w, S)
           /\ \A g, h : g = FoldOf(g, w, S) /\ AddsUp(h, w, S) => g = h
<1>0. \A s : s # {} => First(s) \in s
  BY DEF First
<1>1. ASSUME NEW h, AddsUp(h, w, S) PROVE h = FoldOf(h, w, S)
  <2>1. \A s \in SUBSET S : h[s] = FoldOf(h, w, S)[s]
    BY <1>0, <1>1 DEF AddsUp, FoldOf
  <2> QED
    BY <1>1, <2>1 DEF AddsUp, FoldOf
<1>2. ASSUME NEW g, NEW h, g = FoldOf(g, w, S), AddsUp(h, w, S) PROVE g = h
  <2> DEFINE U == {s \in SUBSET S : g[s] # h[s]}
             R == StrictSubsetOrdering(S)
  <2>1. U = {}
    <3>1. SUFFICES ASSUME U # {} PROVE FALSE
      OBVIOUS
    <3>2. \E s \in U : \A t \in U : <<t, s>> \notin R
      <4>1. IsWellFoundedOn(R, SUBSET S)
        BY FS_StrictSubsetOrderingWellFounded, FS_FiniteSubsetsOfFinite
      <4>2. U \subseteq SUBSET S
        OBVIOUS
      <4> HIDE DEF U, R
      <4> QED
        BY <3>1, <4>1, <4>2, WFMin
    <3>3. PICK s \in U : \A t \in U : <<t, s>> \notin R
      BY <3>2
    <3>4. g[s] = IF s = {} THEN 0 ELSE w[First(s)] + g[s \ {First(s)}]
      BY <1>2 DEF FoldOf
    <3>5. s # {}
      BY <1>2, <3>4 DEF AddsUp
    <3>6. First(s) \in s /\ <<s \ {First(s)}, s>> \in R
      BY <1>0, <3>5 DEF StrictSubsetOrdering
    <3>7. g[s \ {First(s)}] = h[s \ {First(s)}]
      BY <3>3, <3>6
    <3>8. h[s] = w[First(s)] + h[s \ {First(s)}]
      BY <1>2, <3>6 DEF AddsUp
    <3> QED
      BY <3>4, <3>5, <3>7, <3>8
  <2>2. DOMAIN g = SUBSET S /\ g = [s \in SUBSET S |-> g[s]]
    BY <1>2 DEF FoldOf
  <2>3. h = [s \in SUBSET S |-> h[s]]
    BY <1>2 DEF AddsUp
  <2> QED
    BY <2>1, <2>2, <2>3
<1> QED
  BY <1>1, <1>2, SumsExist

\* One function has the sum of every part.
LEMMA SumsOfParts ==
    ASSUME NEW S, IsFiniteSet(S), NEW w, Weighs(w, S)
    PROVE  \E h : AddsUp(h, w, S) /\ \A T \in SUBSET S : h[T] = Sum(w, T)
<1>1. PICK h : AddsUp(h, w, S)
  BY SumsExist
<1>2. ASSUME NEW T \in SUBSET S PROVE h[T] = Sum(w, T)
  <2> DEFINE g == [s \in SUBSET T |-> h[s]]
             m == CHOOSE k : AddsUp(k, w, T)
  <2>1. AddsUp(g, w, T)
    <3>1. /\ h \in [SUBSET S -> Int] /\ h[{}] = 0
          /\ \A s \in SUBSET S : \A x \in s : h[s] = w[x] + h[s \ {x}]
      BY <1>1 DEF AddsUp
    <3>2. \A s \in SUBSET T : s \in SUBSET S /\ g[s] = h[s] /\ \A x \in s : g[s \ {x}] = h[s \ {x}]
      OBVIOUS
    <3>3. g \in [SUBSET T -> Int]
      BY <3>1
    <3> HIDE DEF g
    <3> QED
      BY <3>1, <3>2, <3>3 DEF AddsUp
  <2>2. AddsUp(m, w, T)
    BY <2>1
  <2>3. IsFiniteSet(T) /\ Weighs(w, T)
    BY FS_Subset DEF Weighs
  <2>4. PICK f : f = FoldOf(f, w, T)
    BY <2>3, FoldsAddUp
  <2> HIDE DEF g, m
  <2>5. g = f /\ m = f
    BY <2>1, <2>2, <2>3, <2>4, FoldsAddUp
  <2>6. m[T] = g[T]
    BY <2>5
  <2> QED
    BY <2>6 DEF g, m, Sum
<1> QED
  BY <1>1, <1>2

LEMMA FoldIsSum ==
    ASSUME NEW S, IsFiniteSet(S), NEW w, Weighs(w, S), NEW g, g = FoldOf(g, w, S)
    PROVE  g[S] = Sum(w, S)
<1>1. PICK h : AddsUp(h, w, S) /\ \A T \in SUBSET S : h[T] = Sum(w, T)
  BY SumsOfParts
<1>2. g = h
  BY <1>1, FoldsAddUp
<1> QED
  BY <1>1, <1>2

LEMMA SumType ==
    ASSUME NEW S, IsFiniteSet(S), NEW w, Weighs(w, S)
    PROVE  /\ Sum(w, S) \in Int
           /\ Sum(w, {}) = 0
           /\ \A x \in S : Sum(w, {x}) = w[x]
<1>1. PICK h : AddsUp(h, w, S) /\ \A T \in SUBSET S : h[T] = Sum(w, T)
  BY SumsOfParts
<1>2. h \in [SUBSET S -> Int] /\ h[{}] = 0 /\ S \in SUBSET S /\ {} \in SUBSET S
  BY <1>1 DEF AddsUp
<1>3. ASSUME NEW x \in S PROVE Sum(w, {x}) = w[x]
  <2>1. {x} \in SUBSET S /\ {x} \ {x} = {} /\ x \in {x} /\ w[x] \in Int
    BY DEF Weighs
  <2>2. h[{x}] = w[x] + h[{x} \ {x}]
    BY <1>1, <2>1 DEF AddsUp
  <2>3. h[{x}] = w[x] + 0
    BY <1>2, <2>1, <2>2
  <2>4. h[{x}] = Sum(w, {x})
    BY <1>1, <2>1
  <2> QED
    BY <2>1, <2>3, <2>4
<1> QED
  BY <1>1, <1>2, <1>3

LEMMA SumOfBoth ==
    ASSUME NEW S, IsFiniteSet(S), NEW w, Weighs(w, S),
           NEW a \in SUBSET S, NEW b \in SUBSET S, a \cap b = {}
    PROVE  Sum(w, a \cup b) = Sum(w, a) + Sum(w, b)
<1>1. PICK h : AddsUp(h, w, S) /\ \A T \in SUBSET S : h[T] = Sum(w, T)
  BY SumsOfParts
<1>2. /\ h \in [SUBSET S -> Int] /\ h[{}] = 0
      /\ \A s \in SUBSET S : \A x \in s : h[s] = w[x] + h[s \ {x}]
  BY <1>1 DEF AddsUp
<1> DEFINE T == {t \in SUBSET b : h[a \cup t] = h[a] + h[t]}
<1>3. {} \in T
  <2>1. a \cup {} = a /\ h[a] \in Int
    BY <1>2
  <2>2. h[a \cup {}] = h[a] + h[{}]
    BY <1>2, <2>1
  <2> QED
    BY <2>2
<1>4. ASSUME NEW t \in SUBSET b, NEW x \in b \ t, t \in T
      PROVE  t \cup {x} \in T
  <2> DEFINE u == t \cup {x}
  <2>1. /\ u \in SUBSET S /\ x \in u /\ u \ {x} = t /\ t \in SUBSET S
        /\ a \cup u \in SUBSET S /\ x \in a \cup u /\ (a \cup u) \ {x} = a \cup t
        /\ x \in S /\ a \cup t \in SUBSET S
    OBVIOUS
  <2> HIDE DEF u
  <2>2. h[u] = w[x] + h[t] /\ h[a \cup u] = w[x] + h[a \cup t]
    BY <1>2, <2>1
  <2>3. h[a \cup t] = h[a] + h[t]
    BY <1>4
  <2>4. w[x] \in Int /\ h[t] \in Int /\ h[a] \in Int
    BY <1>2, <2>1 DEF Weighs
  <2>5. h[a \cup u] = h[a] + h[u]
    <3> DEFINE A == h[a]
               B == h[t]
               C == w[x]
    <3>1. h[u] = C + B /\ h[a \cup u] = C + (A + B) /\ A \in Int /\ B \in Int /\ C \in Int
      BY <2>2, <2>3, <2>4
    <3> HIDE DEF A, B, C
    <3>2. C + (A + B) = A + (C + B)
      BY <3>1
    <3> QED
      BY <3>1, <3>2 DEF A
  <2>6. u \in SUBSET b
    BY <1>4 DEF u
  <2> QED
    BY <2>5, <2>6 DEF u
<1>5. b \in T
  <2>1. IsFiniteSet(b)
    BY FS_Subset
  <2> HIDE DEF T
  <2> QED
    BY <1>3, <1>4, <2>1, FiniteInductionOverSet
<1>6. a \cup b \in SUBSET S
  OBVIOUS
<1> QED
  BY <1>1, <1>5, <1>6

GroupSums(v, B, w, A, key) ==
    /\ \A x \in A : key[x] \in B
    /\ \A y \in B : v[y] = Sum(w, {x \in A : key[x] = y})

\* A sum is the sum of the sums of its groups.
LEMMA SumOfGroups ==
    ASSUME NEW A, IsFiniteSet(A), NEW w, Weighs(w, A),
           NEW B, IsFiniteSet(B), NEW key, NEW v, GroupSums(v, B, w, A, key)
    PROVE  /\ Weighs(v, B)
           /\ Sum(v, B) = Sum(w, A)
<1> USE DEF GroupSums
<1> DEFINE In(t) == {x \in A : key[x] \in t}
<1>1. Weighs(v, B)
  <2>1. ASSUME NEW y \in B PROVE v[y] \in Int
    <3> DEFINE G == {x \in A : key[x] = y}
    <3>1. IsFiniteSet(G) /\ Weighs(w, G) /\ v[y] = Sum(w, G)
      BY FS_Subset DEF Weighs
    <3> HIDE DEF G
    <3> QED
      BY <3>1, SumType
  <2> QED
    BY <2>1 DEF Weighs
<1> DEFINE T == {t \in SUBSET B : Sum(v, t) = Sum(w, In(t))}
<1>2. {} \in T
  <2>1. Sum(v, {}) = 0 /\ Sum(w, {}) = 0
    BY <1>1, SumType
  <2>2. In({}) = {}
    OBVIOUS
  <2> HIDE DEF In
  <2>3. Sum(v, {}) = Sum(w, In({}))
    BY <2>1, <2>2
  <2> QED
    BY <2>3
<1>3. ASSUME NEW t \in SUBSET B, NEW y \in B \ t, t \in T
      PROVE  t \cup {y} \in T
  <2>1. Sum(v, t \cup {y}) = Sum(v, t) + Sum(v, {y})
    <3>1. t \in SUBSET B /\ {y} \in SUBSET B /\ t \cap {y} = {}
      OBVIOUS
    <3> QED
      BY <1>1, <3>1, SumOfBoth
  <2>2. Sum(v, {y}) = v[y]
    BY <1>1, SumType
  <2>3. v[y] = Sum(w, In({y}))
    <3>1. In({y}) = {x \in A : key[x] = y}
      OBVIOUS
    <3> HIDE DEF In
    <3> QED
      BY <3>1
  <2>4. Sum(w, In(t \cup {y})) = Sum(w, In(t)) + Sum(w, In({y}))
    <3> DEFINE a == In(t)
               b == In({y})
    <3>1. a \in SUBSET A /\ b \in SUBSET A /\ a \cap b = {} /\ In(t \cup {y}) = a \cup b
      OBVIOUS
    <3> HIDE DEF In, a, b
    <3>2. Sum(w, a \cup b) = Sum(w, a) + Sum(w, b)
      BY <3>1, SumOfBoth
    <3> QED
      BY <3>1, <3>2 DEF a, b
  <2> HIDE DEF In
  <2>5. Sum(v, t) = Sum(w, In(t))
    BY <1>3
  <2>6. Sum(v, t \cup {y}) = Sum(w, In(t \cup {y}))
    BY <2>1, <2>2, <2>3, <2>4, <2>5
  <2>7. t \cup {y} \in SUBSET B
    BY <1>3
  <2> QED
    BY <2>6, <2>7
<1>4. B \in T
  <2> HIDE DEF T
  <2> QED
    BY <1>2, <1>3, FiniteInductionOverSet
<1>5. In(B) = A
  OBVIOUS
<1> QED
  BY <1>1, <1>4, <1>5

\* Sums of the same weights.
LEMMA SameSums ==
    ASSUME NEW S, IsFiniteSet(S), NEW w, Weighs(w, S), NEW v, \A x \in S : v[x] = w[x]
    PROVE  Sum(v, S) = Sum(w, S)
<1>1. Weighs(v, S)
  BY DEF Weighs
<1> DEFINE key == [x \in S |-> x]
<1>2. \A x \in S : v[x] = Sum(w, {z \in S : key[z] = x})
  <2>1. ASSUME NEW x \in S PROVE v[x] = Sum(w, {z \in S : key[z] = x})
    <3>1. {z \in S : key[z] = x} = {x}
      OBVIOUS
    <3>2. Sum(w, {x}) = w[x]
      BY SumType
    <3> QED
      BY <3>1, <3>2
  <2> QED
    BY <2>1
<1>3. GroupSums(v, S, w, S, key)
  BY <1>2 DEF GroupSums
<1> HIDE DEF key
<1> QED
  BY <1>3, SumOfGroups

-----------------------------------------------------------------------------
(* The sums of the pages *)

LEMMA SumOfPrices ==
    ASSUME NEW S, IsFiniteSet(S), \A x \in S : Price(x) \in Int
    PROVE  SumOver(Price, S) = Sum([x \in S |-> Price(x)], S)
<1> DEFINE w == [x \in S |-> Price(x)]
           E(h) == [s \in SUBSET S |-> IF s = {} THEN 0
                                       ELSE LET x == CHOOSE y \in s : TRUE
                                            IN  Price(x) + h[s \ {x}]]
           m == CHOOSE h : h = E(h)
<1>1. \A s : s # {} => First(s) \in s
  BY DEF First
<1>2. ASSUME NEW h PROVE E(h) = FoldOf(h, w, S)
  <2>1. \A s \in SUBSET S : s # {} => w[First(s)] = Price(First(s))
    BY <1>1
  <2>2. \A s \in SUBSET S : E(h)[s] = FoldOf(h, w, S)[s]
    BY <2>1 DEF FoldOf, First
  <2> QED
    BY <2>2 DEF FoldOf
<1>3. Weighs(w, S)
  BY DEF Weighs
<1>4. SumOver(Price, S) = m[S]
  BY DEF SumOver, MapThenFoldSet
<1> HIDE DEF E, w
<1>5. PICK h : h = E(h)
  <2>1. PICK h : h = FoldOf(h, w, S)
    BY <1>3, FoldsAddUp
  <2> QED
    BY <1>2, <2>1
<1>6. m = E(m)
  BY <1>5
<1> HIDE DEF m
<1>7. m = FoldOf(m, w, S)
  BY <1>2, <1>6
<1>8. m[S] = Sum(w, S)
  BY <1>3, <1>7, FoldIsSum
<1> QED
  BY <1>4, <1>8 DEF w

LEMMA SumOfTotals ==
    ASSUME NEW S, IsFiniteSet(S), \A x \in S : Total(x) \in Int
    PROVE  SumOver(Total, S) = Sum([x \in S |-> Total(x)], S)
<1> DEFINE w == [x \in S |-> Total(x)]
           E(h) == [s \in SUBSET S |-> IF s = {} THEN 0
                                       ELSE LET x == CHOOSE y \in s : TRUE
                                            IN  Total(x) + h[s \ {x}]]
           m == CHOOSE h : h = E(h)
<1>1. \A s : s # {} => First(s) \in s
  BY DEF First
<1>2. ASSUME NEW h PROVE E(h) = FoldOf(h, w, S)
  <2>1. \A s \in SUBSET S : s # {} => w[First(s)] = Total(First(s))
    BY <1>1
  <2>2. \A s \in SUBSET S : E(h)[s] = FoldOf(h, w, S)[s]
    BY <2>1 DEF FoldOf, First
  <2> QED
    BY <2>2 DEF FoldOf
<1>3. Weighs(w, S)
  BY DEF Weighs
<1>4. SumOver(Total, S) = m[S]
  BY DEF SumOver, MapThenFoldSet
<1> HIDE DEF E, w
<1>5. PICK h : h = E(h)
  <2>1. PICK h : h = FoldOf(h, w, S)
    BY <1>3, FoldsAddUp
  <2> QED
    BY <1>2, <2>1
<1>6. m = E(m)
  BY <1>5
<1> HIDE DEF m
<1>7. m = FoldOf(m, w, S)
  BY <1>2, <1>6
<1>8. m[S] = Sum(w, S)
  BY <1>3, <1>7, FoldIsSum
<1> QED
  BY <1>4, <1>8 DEF w

LEMMA SumOfLines ==
    ASSUME NEW lines \in Seq(LineItem)
    PROVE  LineSum(lines) = Sum([n \in DOMAIN lines |-> OrZero(lines[n].price)], DOMAIN lines)
<1> DEFINE S == DOMAIN lines
           w == [n \in S |-> OrZero(lines[n].price)]
           E(h) == [s \in SUBSET S |-> IF s = {} THEN 0
                                       ELSE LET n == CHOOSE y \in s : TRUE
                                            IN  OrZero(lines[n].price) + h[s \ {n}]]
           m == CHOOSE h : h = E(h)
<1>1. \A s : s # {} => First(s) \in s
  BY DEF First
<1>2. ASSUME NEW h PROVE E(h) = FoldOf(h, w, S)
  <2>1. \A s \in SUBSET S : s # {} => w[First(s)] = OrZero(lines[First(s)].price)
    BY <1>1
  <2>2. \A s \in SUBSET S : E(h)[s] = FoldOf(h, w, S)[s]
    BY <2>1 DEF FoldOf, First
  <2> QED
    BY <2>2 DEF FoldOf
<1>3. Weighs(w, S) /\ IsFiniteSet(S)
  <2>1. Len(lines) \in Nat /\ S = 1..Len(lines)
    BY LenProperties
  <2>2. ASSUME NEW n \in S PROVE OrZero(lines[n].price) \in Int
    <3>1. lines[n] \in LineItem
      BY <2>1, <2>2, ElementOfSeq
    <3> QED
      BY <3>1 DEF LineItem, Amount, OrZero, IsNumber
  <2>3. IsFiniteSet(S)
    BY <2>1, FS_Interval
  <2> QED
    BY <2>2, <2>3 DEF Weighs
<1>4. LineSum(lines) = m[S]
  BY DEF LineSum, MapThenFoldSet
<1> HIDE DEF E, w, S
<1>5. PICK h : h = E(h)
  <2>1. PICK h : h = FoldOf(h, w, S)
    BY <1>3, FoldsAddUp
  <2> QED
    BY <1>2, <2>1
<1>6. m = E(m)
  BY <1>5
<1> HIDE DEF m
<1>7. m = FoldOf(m, w, S)
  BY <1>2, <1>6
<1>8. m[S] = Sum(w, S)
  BY <1>3, <1>7, FoldIsSum
<1> QED
  BY <1>4, <1>8 DEF w, S

All(f) == SumOver(LAMBDA k : f[k], DOMAIN f)

LEMMA SumOfAll ==
    ASSUME NEW f, IsFiniteSet(DOMAIN f), Weighs(f, DOMAIN f)
    PROVE  All(f) = Sum(f, DOMAIN f)
<1> DEFINE S == DOMAIN f
           E(h) == [s \in SUBSET S |-> IF s = {} THEN 0
                                       ELSE LET x == CHOOSE y \in s : TRUE
                                            IN  f[x] + h[s \ {x}]]
           m == CHOOSE h : h = E(h)
<1>1. ASSUME NEW h PROVE E(h) = FoldOf(h, f, S)
  BY DEF FoldOf, First
<1>2. All(f) = m[S]
  BY DEF All, SumOver, MapThenFoldSet
<1> HIDE DEF E
<1>3. PICK h : h = E(h)
  <2>1. PICK h : h = FoldOf(h, f, S)
    BY FoldsAddUp
  <2> QED
    BY <1>1, <2>1
<1>4. m = E(m)
  BY <1>3
<1> HIDE DEF m
<1>5. m = FoldOf(m, f, S)
  BY <1>1, <1>4
<1>6. m[S] = Sum(f, S)
  BY <1>5, FoldIsSum
<1> QED
  BY <1>2, <1>6

PricesGrouped(f, key, A) ==
    /\ DOMAIN f = {key[x] : x \in A}
    /\ \A k \in DOMAIN f : f[k] = SumOver(Price, {x \in A : key[x] = k})

TotalsGrouped(f, key, A) ==
    /\ IsFiniteSet(DOMAIN f)
    /\ \A x \in A : key[x] \in DOMAIN f
    /\ \A k \in DOMAIN f : f[k] = SumOver(Total, {x \in A : key[x] = k})

\* A view that sums by a key shows all that is summed, once.
LEMMA PricesByKey ==
    ASSUME NEW A, IsFiniteSet(A), \A x \in A : Price(x) \in Int, NEW key,
           NEW f, PricesGrouped(f, key, A)
    PROVE  All(f) = SumOver(Price, A)
<1> USE DEF PricesGrouped
<1> DEFINE w == [x \in A |-> Price(x)]
           B == DOMAIN f
<1>1. Weighs(w, A)
  BY DEF Weighs
<1>2. IsFiniteSet(B)
  <2> DEFINE g == [x \in A |-> key[x]]
  <2>1. g \in Surjection(A, B)
    BY DEF Surjection
  <2> QED
    BY <2>1, FS_Surjection
<1>3. ASSUME NEW k \in B PROVE f[k] = Sum(w, {x \in A : key[x] = k})
  <2> DEFINE G == {x \in A : key[x] = k}
             u == [x \in G |-> Price(x)]
  <2>1. IsFiniteSet(G) /\ \A x \in G : Price(x) \in Int /\ w[x] = Price(x) /\ u[x] = Price(x)
    BY FS_Subset
  <2>2. f[k] = SumOver(Price, G)
    OBVIOUS
  <2> HIDE DEF G
  <2>3. SumOver(Price, G) = Sum(u, G)
    BY <2>1, SumOfPrices
  <2> HIDE DEF u, w
  <2>4. Weighs(w, G)
    BY <2>1 DEF Weighs
  <2>5. Sum(u, G) = Sum(w, G)
    BY <2>1, <2>4, SameSums
  <2> QED
    BY <2>2, <2>3, <2>5 DEF G
<1>4. SumOver(Price, A) = Sum(w, A)
  BY SumOfPrices
<1>5. \A x \in A : key[x] \in B
  OBVIOUS
<1> HIDE DEF w
<1>6. Weighs(f, B) /\ Sum(f, B) = Sum(w, A)
  <2>1. GroupSums(f, B, w, A, key)
    BY <1>3, <1>5 DEF GroupSums
  <2> HIDE DEF B
  <2> QED
    BY <1>1, <1>2, <2>1, SumOfGroups
<1> QED
  BY <1>2, <1>4, <1>6, SumOfAll

LEMMA TotalsByKey ==
    ASSUME NEW A, IsFiniteSet(A), \A x \in A : Total(x) \in Int, NEW key,
           NEW f, TotalsGrouped(f, key, A)
    PROVE  All(f) = SumOver(Total, A)
<1> USE DEF TotalsGrouped
<1> DEFINE w == [x \in A |-> Total(x)]
           B == DOMAIN f
<1>1. Weighs(w, A)
  BY DEF Weighs
<1>3. ASSUME NEW k \in B PROVE f[k] = Sum(w, {x \in A : key[x] = k})
  <2> DEFINE G == {x \in A : key[x] = k}
             u == [x \in G |-> Total(x)]
  <2>1. IsFiniteSet(G) /\ \A x \in G : Total(x) \in Int /\ w[x] = Total(x) /\ u[x] = Total(x)
    BY FS_Subset
  <2>2. f[k] = SumOver(Total, G)
    OBVIOUS
  <2> HIDE DEF G
  <2>3. SumOver(Total, G) = Sum(u, G)
    BY <2>1, SumOfTotals
  <2> HIDE DEF u, w
  <2>4. Weighs(w, G)
    BY <2>1 DEF Weighs
  <2>5. Sum(u, G) = Sum(w, G)
    BY <2>1, <2>4, SameSums
  <2> QED
    BY <2>2, <2>3, <2>5 DEF G
<1>4. SumOver(Total, A) = Sum(w, A)
  BY SumOfTotals
<1> HIDE DEF w
<1>6. Weighs(f, B) /\ Sum(f, B) = Sum(w, A)
  <2>1. IsFiniteSet(B) /\ GroupSums(f, B, w, A, key)
    BY <1>3 DEF GroupSums
  <2> HIDE DEF B
  <2> QED
    BY <1>1, <2>1, SumOfGroups
<1> QED
  BY <1>4, <1>6, SumOfAll

LEMMA SplitPrices ==
    ASSUME NEW A, IsFiniteSet(A), \A x \in A : Price(x) \in Int,
           NEW a \in SUBSET A, NEW b \in SUBSET A, a \cap b = {}, a \cup b = A
    PROVE  SumOver(Price, a) + SumOver(Price, b) = SumOver(Price, A)
<1> DEFINE w(s) == [x \in s |-> Price(x)]
<1>1. IsFiniteSet(a) /\ IsFiniteSet(b)
  BY FS_Subset
<1>2. \A s \in SUBSET A : Weighs(w(A), s) /\ \A x \in s : w(s)[x] = w(A)[x]
  BY DEF Weighs
<1>3. SumOver(Price, a) = Sum(w(a), a) /\ SumOver(Price, b) = Sum(w(b), b)
      /\ SumOver(Price, A) = Sum(w(A), A)
  BY <1>1, SumOfPrices
<1> HIDE DEF w
<1>4. Sum(w(a), a) = Sum(w(A), a) /\ Sum(w(b), b) = Sum(w(A), b)
  BY <1>1, <1>2, SameSums
<1>5. Sum(w(A), a \cup b) = Sum(w(A), a) + Sum(w(A), b)
  BY <1>2, SumOfBoth
<1> QED
  BY <1>3, <1>4, <1>5

LEMMA SplitTotals ==
    ASSUME NEW A, IsFiniteSet(A), \A x \in A : Total(x) \in Int,
           NEW a \in SUBSET A, NEW b \in SUBSET A, a \cap b = {}, a \cup b = A
    PROVE  SumOver(Total, a) + SumOver(Total, b) = SumOver(Total, A)
<1> DEFINE w(s) == [x \in s |-> Total(x)]
<1>1. IsFiniteSet(a) /\ IsFiniteSet(b)
  BY FS_Subset
<1>2. \A s \in SUBSET A : Weighs(w(A), s) /\ \A x \in s : w(s)[x] = w(A)[x]
  BY DEF Weighs
<1>3. SumOver(Total, a) = Sum(w(a), a) /\ SumOver(Total, b) = Sum(w(b), b)
      /\ SumOver(Total, A) = Sum(w(A), A)
  BY <1>1, SumOfTotals
<1> HIDE DEF w
<1>4. Sum(w(a), a) = Sum(w(A), a) /\ Sum(w(b), b) = Sum(w(A), b)
  BY <1>1, <1>2, SameSums
<1>5. Sum(w(A), a \cup b) = Sum(w(A), a) + Sum(w(A), b)
  BY <1>2, SumOfBoth
<1> QED
  BY <1>3, <1>4, <1>5

\* The amounts that are summed are there.
LEMMA PageAmounts ==
    ASSUME Reading
    PROVE  /\ IsFiniteSet(Priced(shown.items)) /\ \A x \in Priced(shown.items) : Price(x) \in Int
           /\ IsFiniteSet(Totalled(shown.invoices))
           /\ \A i \in Totalled(shown.invoices) : Total(i) \in Int
<1>1. shown \in PartOf(stored) /\ PageOK(shown)
  BY DEF Reading, Parts
<1>2. IsFiniteSet(Priced(shown.items)) /\ IsFiniteSet(Totalled(shown.invoices))
  BY <1>1, FS_Subset DEF PageOK, Priced, Totalled
<1>3. ASSUME NEW x \in Priced(shown.items) PROVE Price(x) \in Int
  <2>1. x.row \in RowOf(stored) /\ x.n \in DOMAIN x.row.data.lines /\ IsNumber(Price(x))
    BY <1>1 DEF Priced, PartOf, PageOK, Itemised
  <2>2. x.row.data.lines[x.n] \in LineItem
    BY <2>1, LinesOfARow, ElementOfSeq
  <2> QED
    BY <2>1, <2>2 DEF Price, LineItem, Amount, IsNumber
<1>4. ASSUME NEW i \in Totalled(shown.invoices) PROVE Total(i) \in Int
  <2>1. i.row \in RowOf(stored) /\ IsNumber(Total(i))
    BY <1>1 DEF Totalled, PartOf
  <2>2. i.row.data \in Record
    BY <2>1, RowFields
  <2>3. Total(i) \in Amount
    BY <2>2 DEF Total, Record, TotalKey
  <2> QED
    BY <2>1, <2>3 DEF Amount, IsNumber
<1> QED
  BY <1>2, <1>3, <1>4

\* The sum of all prices on the page, by each key that there is.
LEMMA ItemViews ==
    ASSUME Reading
    PROVE  LET items == Priced(shown.items)
           IN  /\ All(CatTotals(shown)) = SumOver(Price, items)
               /\ All(CatDept(shown)) = SumOver(Price, items)
               /\ All(CatSupplier(shown)) = SumOver(Price, items)
               /\ All(MonthlyCat(shown)) = SumOver(Price, Dated(items))
<1> DEFINE A == Priced(shown.items)
           D == Dated(A)
<1>1. IsFiniteSet(A) /\ \A x \in A : Price(x) \in Int
  BY PageAmounts
<1>2. IsFiniteSet(D) /\ \A x \in D : Price(x) \in Int
  BY <1>1, FS_Subset DEF Dated
<1>3. /\ CatTotals(shown) = SumBy(Category, Price, A)
      /\ CatDept(shown) = SumBy(LAMBDA i : <<Category(i), i.dept>>, Price, A)
      /\ CatSupplier(shown) = SumBy(LAMBDA i : <<Category(i), Name(i)>>, Price, A)
      /\ MonthlyCat(shown) = SumBy(LAMBDA i : <<Month(i), Category(i)>>, Price, D)
  BY DEF CatTotals, CatDept, CatSupplier, MonthlyCat
<1> HIDE DEF A, D
<1>4. All(CatTotals(shown)) = SumOver(Price, A)
  <2> DEFINE f == CatTotals(shown)
             key == [x \in A |-> Category(x)]
  <2>1. f = [k \in {Category(i) : i \in A} |-> SumOver(Price, {i \in A : Category(i) = k})]
    BY <1>3 DEF SumBy
  <2>2. \A k : {i \in A : Category(i) = k} = {i \in A : key[i] = k}
    OBVIOUS
  <2>3. DOMAIN f = {key[x] : x \in A}
    BY <2>1
  <2>4. \A k \in DOMAIN f : f[k] = SumOver(Price, {x \in A : key[x] = k})
    BY <2>1, <2>2
  <2>5. PricesGrouped(f, key, A)
    BY <2>3, <2>4 DEF PricesGrouped
  <2> HIDE DEF f, key
  <2>6. All(f) = SumOver(Price, A)
    BY <1>1, <2>5, PricesByKey
  <2> QED
    BY <2>6 DEF f
<1>5. All(CatDept(shown)) = SumOver(Price, A)
  <2> DEFINE f == CatDept(shown)
             key == [x \in A |-> <<Category(x), x.dept>>]
  <2>1. f = [k \in {<<Category(i), i.dept>> : i \in A} |->
                SumOver(Price, {i \in A : <<Category(i), i.dept>> = k})]
    BY <1>3 DEF SumBy
  <2>2. \A k : {i \in A : <<Category(i), i.dept>> = k} = {i \in A : key[i] = k}
    OBVIOUS
  <2>3. DOMAIN f = {key[x] : x \in A}
    BY <2>1
  <2>4. \A k \in DOMAIN f : f[k] = SumOver(Price, {x \in A : key[x] = k})
    BY <2>1, <2>2
  <2>5. PricesGrouped(f, key, A)
    BY <2>3, <2>4 DEF PricesGrouped
  <2> HIDE DEF f, key
  <2>6. All(f) = SumOver(Price, A)
    BY <1>1, <2>5, PricesByKey
  <2> QED
    BY <2>6 DEF f
<1>6. All(CatSupplier(shown)) = SumOver(Price, A)
  <2> DEFINE f == CatSupplier(shown)
             key == [x \in A |-> <<Category(x), Name(x)>>]
  <2>1. f = [k \in {<<Category(i), Name(i)>> : i \in A} |->
                SumOver(Price, {i \in A : <<Category(i), Name(i)>> = k})]
    BY <1>3 DEF SumBy
  <2>2. \A k : {i \in A : <<Category(i), Name(i)>> = k} = {i \in A : key[i] = k}
    OBVIOUS
  <2>3. DOMAIN f = {key[x] : x \in A}
    BY <2>1
  <2>4. \A k \in DOMAIN f : f[k] = SumOver(Price, {x \in A : key[x] = k})
    BY <2>1, <2>2
  <2>5. PricesGrouped(f, key, A)
    BY <2>3, <2>4 DEF PricesGrouped
  <2> HIDE DEF f, key
  <2>6. All(f) = SumOver(Price, A)
    BY <1>1, <2>5, PricesByKey
  <2> QED
    BY <2>6 DEF f
<1>7. All(MonthlyCat(shown)) = SumOver(Price, D)
  <2> DEFINE f == MonthlyCat(shown)
             key == [x \in D |-> <<Month(x), Category(x)>>]
  <2>1. f = [k \in {<<Month(i), Category(i)>> : i \in D} |->
                SumOver(Price, {i \in D : <<Month(i), Category(i)>> = k})]
    BY <1>3 DEF SumBy
  <2>2. \A k : {i \in D : <<Month(i), Category(i)>> = k} = {i \in D : key[i] = k}
    OBVIOUS
  <2>3. DOMAIN f = {key[x] : x \in D}
    BY <2>1
  <2>4. \A k \in DOMAIN f : f[k] = SumOver(Price, {x \in D : key[x] = k})
    BY <2>1, <2>2
  <2>5. PricesGrouped(f, key, D)
    BY <2>3, <2>4 DEF PricesGrouped
  <2> HIDE DEF f, key
  <2>6. All(f) = SumOver(Price, D)
    BY <1>2, <2>5, PricesByKey
  <2> QED
    BY <2>6 DEF f
<1> QED
  BY <1>4, <1>5, <1>6, <1>7 DEF A, D

\* DisplayName tells the suppliers apart.
OwnNames == \A s, t \in Supplier : DisplayName[s] = DisplayName[t] => s = t

LEMMA InvoiceViews ==
    ASSUME Reading, OwnNames
    PROVE  LET invs == Totalled(shown.invoices)
           IN  /\ All(DeptTotals(shown)) = SumOver(Total, invs)
               /\ GrandTotal(shown, suppliers) = SumOver(Total, invs)
               /\ All(MonthlySup(shown)) = SumOver(Total, Dated(invs))
<1> DEFINE A == Totalled(shown.invoices)
           D == Dated(A)
<1>1. IsFiniteSet(A) /\ \A x \in A : Total(x) \in Int
  BY PageAmounts
<1>2. IsFiniteSet(D) /\ \A x \in D : Total(x) \in Int
  BY <1>1, FS_Subset DEF Dated
<1>3. /\ DeptTotals(shown) = SumBy(LAMBDA i : i.dept, Total, A)
      /\ MonthlySup(shown) = SumBy(LAMBDA i : <<Month(i), Name(i)>>, Total, D)
      /\ SupTotals(shown, suppliers)
           = [s \in suppliers |-> SumOver(Total, {i \in A : Name(i) = DisplayName[s]})]
  BY DEF DeptTotals, MonthlySup, SupTotals
<1>4. \A i \in A : /\ SupplierOf(i.row) \in suppliers
                   /\ \A s \in suppliers : Name(i) = DisplayName[s] <=> SupplierOf(i.row) = s
  <2>1. ASSUME NEW i \in A PROVE SupplierOf(i.row) \in suppliers
    BY DEF Reading, Parts, PageRows, Totalled
  <2>2. suppliers \subseteq Supplier
    BY DEF Reading, Types, ReaderOK
  <2> HIDE DEF A
  <2> QED
    BY <2>1, <2>2 DEF OwnNames, Name, SupplierOf
<1> HIDE DEF A, D
<1>5. All(DeptTotals(shown)) = SumOver(Total, A)
  <2> DEFINE f == DeptTotals(shown)
             key == [x \in A |-> x.dept]
  <2>1. f = [k \in {i.dept : i \in A} |-> SumOver(Total, {i \in A : i.dept = k})]
    BY <1>3 DEF SumBy
  <2>2. \A k : {i \in A : i.dept = k} = {i \in A : key[i] = k}
    OBVIOUS
  <2>3. DOMAIN f = {key[x] : x \in A}
    BY <2>1
  <2>4. \A k \in DOMAIN f : f[k] = SumOver(Total, {x \in A : key[x] = k})
    BY <2>1, <2>2
  <2>5. IsFiniteSet(DOMAIN f)
    <3>1. key \in Surjection(A, DOMAIN f)
      BY <2>3 DEF Surjection
    <3> QED
      BY <1>1, <3>1, FS_Surjection
  <2>6. TotalsGrouped(f, key, A)
    BY <2>3, <2>4, <2>5 DEF TotalsGrouped
  <2> HIDE DEF f, key
  <2>7. All(f) = SumOver(Total, A)
    BY <1>1, <2>6, TotalsByKey
  <2> QED
    BY <2>7 DEF f
<1>6. All(MonthlySup(shown)) = SumOver(Total, D)
  <2> DEFINE f == MonthlySup(shown)
             key == [x \in D |-> <<Month(x), Name(x)>>]
  <2>1. f = [k \in {<<Month(i), Name(i)>> : i \in D} |->
                SumOver(Total, {i \in D : <<Month(i), Name(i)>> = k})]
    BY <1>3 DEF SumBy
  <2>2. \A k : {i \in D : <<Month(i), Name(i)>> = k} = {i \in D : key[i] = k}
    OBVIOUS
  <2>3. DOMAIN f = {key[x] : x \in D}
    BY <2>1
  <2>4. \A k \in DOMAIN f : f[k] = SumOver(Total, {x \in D : key[x] = k})
    BY <2>1, <2>2
  <2>5. IsFiniteSet(DOMAIN f)
    <3>1. key \in Surjection(D, DOMAIN f)
      BY <2>3 DEF Surjection
    <3> QED
      BY <1>2, <3>1, FS_Surjection
  <2>6. TotalsGrouped(f, key, D)
    BY <2>3, <2>4, <2>5 DEF TotalsGrouped
  <2> HIDE DEF f, key
  <2>7. All(f) = SumOver(Total, D)
    BY <1>2, <2>6, TotalsByKey
  <2> QED
    BY <2>7 DEF f
<1>7. GrandTotal(shown, suppliers) = SumOver(Total, A)
  <2> DEFINE f == SupTotals(shown, suppliers)
             key == [x \in A |-> SupplierOf(x.row)]
  <2>1. DOMAIN f = suppliers /\ \A x \in A : key[x] \in DOMAIN f
    BY <1>3, <1>4
  <2>2. \A s \in suppliers : {i \in A : Name(i) = DisplayName[s]} = {x \in A : key[x] = s}
    BY <1>4
  <2>3. \A s \in suppliers : f[s] = SumOver(Total, {x \in A : key[x] = s})
    BY <1>3, <2>2
  <2>4. IsFiniteSet(suppliers)
    BY DEF Reading, Parts
  <2>5. TotalsGrouped(f, key, A)
    BY <2>1, <2>3, <2>4 DEF TotalsGrouped
  <2>6. GrandTotal(shown, suppliers) = All(f)
    BY <2>1 DEF GrandTotal, All
  <2> HIDE DEF f, key
  <2>7. All(f) = SumOver(Total, A)
    BY <1>1, <2>5, TotalsByKey
  <2> QED
    BY <2>6, <2>7
<1> QED
  BY <1>5, <1>6, <1>7 DEF A, D

\* get_multi_dashboard_data: on a page of any suppliers, whatever invoices, items, categories,
\* departments and dates there are, each view shows the same money, as long as no two
\* suppliers are displayed under one name.
THEOREM EveryViewAgrees ==
    ASSUME OwnNames
    PROVE  Spec => []ViewsAgree
<1>1. ASSUME Reading PROVE ViewsAgree
  <2> DEFINE items == Priced(shown.items)
             invs == Totalled(shown.invoices)
  <2>1. /\ All(CatTotals(shown)) = SumOver(Price, items)
        /\ All(CatDept(shown)) = SumOver(Price, items)
        /\ All(CatSupplier(shown)) = SumOver(Price, items)
        /\ All(MonthlyCat(shown)) = SumOver(Price, Dated(items))
    BY <1>1, ItemViews
  <2>2. /\ All(DeptTotals(shown)) = SumOver(Total, invs)
        /\ GrandTotal(shown, suppliers) = SumOver(Total, invs)
        /\ All(MonthlySup(shown)) = SumOver(Total, Dated(invs))
    BY <1>1, InvoiceViews
  <2>3. SumOver(Price, Dated(items)) + SumOver(Price, items \ Dated(shown.items))
          = SumOver(Price, items)
    <3> DEFINE a == Dated(items)
               b == items \ Dated(shown.items)
    <3>1. /\ a \in SUBSET items /\ b \in SUBSET items /\ a \cap b = {} /\ a \cup b = items
      BY DEF Dated, Priced
    <3>2. IsFiniteSet(items) /\ \A x \in items : Price(x) \in Int
      BY <1>1, PageAmounts
    <3> HIDE DEF a, b, items
    <3>3. SumOver(Price, a) + SumOver(Price, b) = SumOver(Price, items)
      BY <3>1, <3>2, SplitPrices
    <3> QED
      BY <3>3 DEF a, b
  <2>4. SumOver(Total, Dated(invs)) + SumOver(Total, invs \ Dated(shown.invoices))
          = SumOver(Total, invs)
    <3> DEFINE a == Dated(invs)
               b == invs \ Dated(shown.invoices)
    <3>1. /\ a \in SUBSET invs /\ b \in SUBSET invs /\ a \cap b = {} /\ a \cup b = invs
      BY DEF Dated, Totalled
    <3>2. IsFiniteSet(invs) /\ \A x \in invs : Total(x) \in Int
      BY <1>1, PageAmounts
    <3> HIDE DEF a, b, invs
    <3>3. SumOver(Total, a) + SumOver(Total, b) = SumOver(Total, invs)
      BY <3>1, <3>2, SplitTotals
    <3> QED
      BY <3>3 DEF a, b
  <2>5. /\ All(CatDept(shown)) = All(CatTotals(shown))
        /\ All(CatSupplier(shown)) = All(CatTotals(shown))
        /\ All(MonthlyCat(shown)) + SumOver(Price, items \ Dated(shown.items))
             = All(CatTotals(shown))
        /\ All(DeptTotals(shown)) = GrandTotal(shown, suppliers)
        /\ All(MonthlySup(shown)) + SumOver(Total, invs \ Dated(shown.invoices))
             = GrandTotal(shown, suppliers)
    BY <2>1, <2>2, <2>3, <2>4
  <2> QED
    BY <2>5 DEF ViewsAgree, All
<1> QED
  BY <1>1, ReadingHolds, PTL

\* The prices of an invoice's items on a page are those of its lines.
LEMMA PricesOfARow ==
    ASSUME NEW k, NEW p \in PartOf(k), PageOK(p), NEW r \in RowOf(k), NEW items,
           items = {x \in p.items : x.row.id = r.id}, items # {},
           \A x \in p.items : x.row.id = r.id => x.row.data = r.data
    PROVE  SumOver(Price, Priced(items)) = LineSum(r.data.lines) /\ r.data.lines # <<>>
<1> DEFINE lines == r.data.lines
           B == DOMAIN lines
           A == Priced(items)
           w == [x \in A |-> Price(x)]
           v == [n \in B |-> OrZero(lines[n].price)]
           key == [x \in A |-> x.n]
<1>1. lines \in Seq(LineItem) /\ Len(lines) \in Nat /\ B = 1..Len(lines)
  BY LinesOfARow
<1>2. /\ \A x \in items : x \in p.items /\ x.n \in B /\ Price(x) = lines[x.n].price
      /\ \A x, y \in items : x.n = y.n => x = y
      /\ \A n \in B : \E x \in items : x.n = n
  <2>1. \A x \in items : x \in p.items /\ x.row.id = r.id /\ x.row.data = r.data
    OBVIOUS
  <2>2. PICK z \in items : TRUE
    OBVIOUS
  <2>3. \A x, y \in items : x.row = y.row /\ (x.n = y.n => x = y)
    BY <2>1 DEF PageOK, Itemised
  <2>4. \A x \in items : x.n \in B
    BY <2>1 DEF PageOK, Itemised
  <2>5. ASSUME NEW n \in B PROVE \E x \in items : x.n = n
    <3>1. PICK y \in p.items : y.row = z.row /\ y.n = n
      BY <2>1 DEF PageOK, Itemised
    <3> QED
      BY <2>1, <3>1
  <2>6. \A x \in items : Price(x) = lines[x.n].price
    BY <2>1 DEF Price
  <2> QED
    BY <2>1, <2>3, <2>4, <2>5, <2>6
<1>3. lines # <<>>
  <2>1. PICK z \in items : TRUE
    OBVIOUS
  <2>2. z.n \in 1..Len(lines)
    BY <1>1, <1>2
  <2>3. Len(<<>>) = 0
    OBVIOUS
  <2> QED
    BY <1>1, <2>2, <2>3
<1>4. ASSUME NEW n \in B PROVE lines[n].price \in Int \cup {None}
  <2>1. lines[n] \in LineItem
    BY <1>1, ElementOfSeq
  <2> QED
    BY <2>1 DEF LineItem, Amount
<1> HIDE DEF lines, B
<1>5. \A x \in A : x \in items /\ Price(x) \in Int /\ Price(x) # None
  BY <1>2, <1>4 DEF Priced, IsNumber
<1>6. IsFiniteSet(A) /\ IsFiniteSet(B) /\ Weighs(w, A)
  <2>1. IsFiniteSet(A)
    BY <1>2, <1>5, FS_Subset DEF PageOK
  <2>2. IsFiniteSet(B)
    BY <1>1, FS_Interval
  <2> QED
    BY <1>5, <2>1, <2>2 DEF Weighs
<1>7. ASSUME NEW n \in B PROVE v[n] = Sum(w, {x \in A : key[x] = n})
  <2>1. PICK x \in items : x.n = n
    BY <1>2
  <2>2. CASE x \in A
    <3>1. {y \in A : key[y] = n} = {x}
      BY <1>2, <1>5, <2>1, <2>2
    <3>2. w[x] = Price(x) /\ Price(x) = lines[n].price /\ v[n] = Price(x)
      BY <1>2, <1>5, <2>1, <2>2 DEF OrZero, IsNumber
    <3> HIDE DEF w, v, key, A
    <3>3. Sum(w, {x}) = w[x]
      BY <1>6, <2>2, SumType
    <3> QED
      BY <3>1, <3>2, <3>3
  <2>3. CASE x \notin A
    <3>1. {y \in A : key[y] = n} = {}
      BY <1>2, <1>5, <2>1, <2>3
    <3>2. Price(x) = None
      BY <2>3 DEF Priced, IsNumber
    <3>3. v[n] = 0
      BY <1>2, <2>1, <3>2 DEF OrZero, IsNumber
    <3> HIDE DEF w, v, key, A
    <3>4. Sum(w, {}) = 0
      BY <1>6, SumType
    <3> QED
      BY <3>1, <3>3, <3>4
  <2> QED
    BY <2>2, <2>3
<1>8. \A x \in A : key[x] \in B
  BY <1>2, <1>5
<1>9. SumOver(Price, A) = Sum(w, A)
  BY <1>5, <1>6, SumOfPrices
<1>10. LineSum(lines) = Sum(v, B)
  BY <1>1, SumOfLines DEF B
<1>11. GroupSums(v, B, w, A, key)
  BY <1>7, <1>8 DEF GroupSums
<1> HIDE DEF w, v, key, A
<1>12. Sum(v, B) = Sum(w, A)
  BY <1>6, <1>11, SumOfGroups
<1> QED
  BY <1>3, <1>9, <1>10, <1>12 DEF lines, A

\* Without a warning, the lines and the total differ by the charges only; of a credit
\* note the lines are within rounding of the subtotal, or else of the total.
LEMMA GapsAreCharges ==
    ASSUME NEW rec \in Record, Reconciled(rec), ~rec.warned, rec.lines # <<>>,
           rec.totals["total"] # None
    PROVE  LET sum == LineSum(rec.lines)
               total == rec.totals["total"]
               subtotal == rec.totals["subtotal"]
           IN  \/ Within(sum, total, 2)
               \/ ~rec.credit /\ Within(total - sum, Charges(rec.totals), 4)
               \/ rec.credit /\ IsNumber(subtotal) /\ Within(sum, subtotal, 2)
<1> DEFINE total == rec.totals["total"]
           subtotal == rec.totals["subtotal"]
           sum == LineSum(rec.lines)
           charges == Charges(rec.totals)
<1>1. /\ total \in Int /\ subtotal \in Int \cup {None} /\ charges \in Int
  <2>1. \A k \in TotalKey : rec.totals[k] \in Int \cup {None}
    BY DEF Record, Amount
  <2>2. \A k \in TotalKey : OrZero(rec.totals[k]) \in Int
    BY <2>1 DEF OrZero, IsNumber
  <2>3. {"total", "subtotal", "freight", "handling_charges", "vat_amount", "discount_amount",
         "discount_2"} \subseteq TotalKey
    BY DEF TotalKey
  <2>4. charges \in Int
    BY <2>2, <2>3 DEF Charges
  <2> QED
    BY <2>1, <2>3, <2>4
<1>2. sum \in Int
  <2> DEFINE lines == rec.lines
             w == [n \in DOMAIN lines |-> OrZero(lines[n].price)]
  <2>1. lines \in Seq(LineItem) /\ Len(lines) \in Nat /\ DOMAIN lines = 1..Len(lines)
    BY LenProperties DEF Record
  <2>2. ASSUME NEW n \in DOMAIN lines PROVE OrZero(lines[n].price) \in Int
    <3>1. lines[n] \in LineItem
      BY <2>1, ElementOfSeq
    <3> QED
      BY <3>1 DEF LineItem, Amount, OrZero, IsNumber
  <2>3. Weighs(w, DOMAIN lines)
    BY <2>2 DEF Weighs
  <2>4. IsFiniteSet(DOMAIN lines)
    BY <2>1, FS_Interval
  <2>5. LineSum(lines) = Sum(w, DOMAIN lines)
    BY <2>1, SumOfLines
  <2> HIDE DEF w, lines
  <2>6. Sum(w, DOMAIN lines) \in Int
    BY <2>3, <2>4, SumType
  <2> QED
    BY <2>5, <2>6 DEF lines
<1>3. \/ LinesSettle(rec.lines, sum, rec.totals)
      \/ ~LinesOff(rec.lines, sum, rec.totals) /\ ~TotalOff(rec.credit, rec.totals)
  BY DEF Reconciled
<1>4. CASE ~Off(sum, total)
  <2> HIDE DEF total, sum
  <2> QED
    BY <1>1, <1>2, <1>4 DEF Off, Within, total, sum
<1>5. CASE subtotal # None /\ ~Off(sum, subtotal) /\ rec.credit
  <2>1. subtotal \in Int
    BY <1>1, <1>5
  <2> HIDE DEF total, sum, subtotal, charges
  <2>2. Within(sum, subtotal, 2)
    BY <1>2, <1>5, <2>1 DEF Off, Within
  <2> QED
    BY <1>5, <2>2 DEF total, sum, subtotal, IsNumber
<1>6. CASE /\ subtotal # None /\ ~Off(sum, subtotal) /\ ~rec.credit
           /\ ~Off(subtotal + charges, total)
  <2>1. subtotal \in Int
    BY <1>1, <1>6
  <2> HIDE DEF total, sum, subtotal, charges
  <2>2. Within(total - sum, charges, 4)
    BY <1>1, <1>2, <1>6, <2>1 DEF Off, Within
  <2> QED
    BY <1>6, <2>2 DEF total, sum, charges
<1>7. \/ ~Off(sum, total)
      \/ /\ subtotal # None /\ ~Off(sum, subtotal)
         /\ rec.credit \/ ~Off(subtotal + charges, total)
  BY <1>3 DEF LinesSettle, LinesOff, TotalOff, IsNumber
<1> QED
  BY <1>4, <1>5, <1>6, <1>7

\* _reconcile_totals: for any records, an invoice without a warning that has its items on a
\* page shows the money they sum to, but for the charges and the discounts that it states;
\* a credit note's subtotal, if not its total, is what they sum to.
THEOREM GapsAreWarnedOf == Spec => []NoSilentGap
<1>1. ASSUME Reading, NEW i \in Totalled(shown.invoices),
             {x \in shown.items : x.row.id = i.row.id} # {}, ~i.row.data.warned
      PROVE  LET items == {x \in shown.items : x.row.id = i.row.id}
                 sum == SumOver(Price, Priced(items))
                 totals == i.row.data.totals
                 credit == i.row.data.credit
             IN  \/ Within(sum, Total(i), 2)
                 \/ ~credit /\ Within(Total(i) - sum, Charges(totals), 4)
                 \/ credit /\ IsNumber(totals["subtotal"]) /\ Within(sum, totals["subtotal"], 2)
  <2> DEFINE r == i.row
             items == {x \in shown.items : x.row.id = r.id}
  <2>1. shown \in PartOf(stored) /\ PageOK(shown)
    BY <1>1 DEF Reading, Parts
  <2>2. i \in shown.invoices /\ r \in RowOf(stored) /\ r \in PageRows(shown)
    BY <2>1 DEF Totalled, PartOf, PageRows
  <2>3. \A x \in shown.items : x.row.id = r.id => x.row.data = r.data
    BY <1>1, <2>2 DEF Reading, Seen, SeenRows, PageRows, SameRecord
  <2>4. Reconciled(r.data)
    BY <1>1, <2>2 DEF Reading, Seen, SeenRows
  <2>5. r.data \in Record /\ r.data.totals["total"] # None /\ Total(i) = r.data.totals["total"]
    BY <2>2, RowFields DEF Totalled, Total, IsNumber
  <2>6. items = {x \in shown.items : x.row.id = r.id} /\ items # {} /\ ~r.data.warned
    BY <1>1
  <2> HIDE DEF items, r
  <2>7. SumOver(Price, Priced(items)) = LineSum(r.data.lines) /\ r.data.lines # <<>>
    BY <2>1, <2>2, <2>3, <2>6, PricesOfARow
  <2>8. LET sum == LineSum(r.data.lines)
            total == r.data.totals["total"]
            subtotal == r.data.totals["subtotal"]
        IN  \/ Within(sum, total, 2)
            \/ ~r.data.credit /\ Within(total - sum, Charges(r.data.totals), 4)
            \/ r.data.credit /\ IsNumber(subtotal) /\ Within(sum, subtotal, 2)
    BY <2>4, <2>5, <2>6, <2>7, GapsAreCharges
  <2> QED
    BY <2>5, <2>7, <2>8 DEF items, r
<1>2. Reading => NoSilentGap
  BY <1>1 DEF NoSilentGap
<1> QED
  BY <1>2, ReadingHolds, PTL

-----------------------------------------------------------------------------
(* The rows of a document *)

\* A line of the record comes from a printed one, and keeps what that says.
From(d, l, x) ==
    LET p == LineAt(d, x)
    IN  /\ l.rows = p.rows /\ l.position = p.position
        /\ p.article # None => l.article = p.article
        /\ p.description # None => l.description = p.description

\* What it says comes from printed lines of the same row and position.
Backed(d, S, l) ==
    LET same(y) == LineAt(d, y).rows = l.rows /\ LineAt(d, y).position = l.position
    IN  /\ l.article # None => \E y \in S : same(y) /\ LineAt(d, y).article = l.article
        /\ l.description # None => \E y \in S : same(y) /\ LineAt(d, y).description = l.description

Own(d, row) == row \in Printed(d) /\ Alone(d, row)

\* The lines of the record when the places S are read, the last of them on page q: known
\* lines are from before this page, the others from it.
RowsRead(d, S, known, q, lines) ==
    /\ \A m \in DOMAIN lines :
         /\ Backed(d, S, lines[m])
         /\ \E x \in S : From(d, lines[m], x) /\ (IF m <= known THEN x[1] < q ELSE x[1] = q)
    /\ \A y \in S : \E m \in DOMAIN lines : lines[m].rows = LineAt(d, y).rows
    /\ \A j, m \in DOMAIN lines :
         (lines[j].rows = lines[m].rows /\ \E row \in lines[j].rows : Own(d, row)) => j = m

LEMMA PlacesOfADocument ==
    ASSUME NEW d \in Doc
    PROVE  /\ \A x \in Places(d) : x[1] \in 1..Len(Pages(d)) /\ LineAt(d, x) \in LineItem
           /\ \A n \in 1..Len(Pages(d)) :
                /\ Pages(d)[n].answer.lines \in Seq(LineItem)
                /\ \A k \in 1..Len(Pages(d)[n].answer.lines) :
                     /\ <<n, k>> \in Places(d)
                     /\ LineAt(d, <<n, k>>) = Pages(d)[n].answer.lines[k]
           /\ \A x \in Places(d) : x[2] \in 1..Len(Pages(d)[x[1]].answer.lines)
                                   /\ x = <<x[1], x[2]>>
<1>1. ASSUME NEW n \in 1..Len(Pages(d))
      PROVE  /\ Pages(d)[n].answer.lines \in Seq(LineItem)
             /\ DOMAIN Pages(d)[n].answer.lines = 1..Len(Pages(d)[n].answer.lines)
  <2>1. Pages(d)[n].answer \in Record
    BY PagesOfADocument
  <2> QED
    BY <2>1, LenProperties DEF Record
<1>2. \A x : x \in Places(d) <=> \E n \in 1..Len(Pages(d)) :
                                   x \in {n} \X (1..Len(Pages(d)[n].answer.lines))
  BY <1>1, PagesOfADocument DEF Places
<1>3. ASSUME NEW x \in Places(d)
      PROVE  /\ x[1] \in 1..Len(Pages(d)) /\ LineAt(d, x) \in LineItem
             /\ x[2] \in 1..Len(Pages(d)[x[1]].answer.lines) /\ x = <<x[1], x[2]>>
  <2>1. x[1] \in 1..Len(Pages(d)) /\ x[2] \in 1..Len(Pages(d)[x[1]].answer.lines)
        /\ x = <<x[1], x[2]>>
    BY <1>2
  <2>2. Pages(d)[x[1]].answer.lines[x[2]] \in LineItem
    BY <1>1, <2>1, ElementOfSeq
  <2> QED
    BY <2>1, <2>2 DEF LineAt
<1>4. \A n \in 1..Len(Pages(d)) : \A k \in 1..Len(Pages(d)[n].answer.lines) :
        <<n, k>> \in Places(d) /\ LineAt(d, <<n, k>>) = Pages(d)[n].answer.lines[k]
  BY <1>2 DEF LineAt
<1> QED
  BY <1>1, <1>3, <1>4

\* What a reader takes for the same line is what _merge_continuation takes for it: the
\* position in common, and the article or the description.
LEMMA AlikeIsSame ==
    ASSUME NEW l, NEW k
    PROVE  Alike(l, k) <=> /\ l.position # None /\ l.position = k.position
                           /\ SameLine(l, k)
<1>1. (\E field \in {"article", "description"} : l[field] # None /\ l[field] = k[field])
      <=> \/ l["article"] # None /\ l["article"] = k["article"]
          \/ l["description"] # None /\ l["description"] = k["description"]
  OBVIOUS
<1> QED
  BY <1>1 DEF Alike, SameLine

\* Legible, said of two lines of the document, in the words of _merge_continuation.
LEMMA LegiblePlaces ==
    ASSUME NEW d \in Doc, Legible(d), NEW x \in Places(d), NEW y \in Places(d)
    PROVE  LET l == LineAt(d, x)
               k == LineAt(d, y)
               alike == l.position # None /\ l.position = k.position /\ SameLine(l, k)
           IN  /\ \E row \in l.rows : l.rows = {row}
               /\ alike => l.rows = k.rows
               /\ l.rows = k.rows => (Customs(d, x) <=> Customs(d, y))
               /\ (l.rows = k.rows /\ x # y /\ ~Customs(d, x) /\ \A row \in l.rows : Alone(d, row))
                    => /\ alike /\ x[1] # y[1]
                       /\ \A z \in Places(d) :
                            (Customs(d, z) /\ LineAt(d, z).position = l.position)
                               => z[1] >= x[1] /\ z[1] >= y[1]
  BY AlikeIsSame DEF Legible

\* A printed row stands in the lines that have it, and they are no customs summary.
LEMMA LinesOfARowPrinted ==
    ASSUME NEW d \in Doc, Legible(d), NEW x \in Places(d), NEW row \in LineAt(d, x).rows
    PROVE  /\ LineAt(d, x).rows = {row}
           /\ row \in Printed(d) <=> ~Customs(d, x)
<1>1. LineAt(d, x).rows = {row}
  BY LegiblePlaces
<1>2. ~Customs(d, x) => row \in Printed(d)
  BY DEF Printed
<1>3. ASSUME row \in Printed(d) PROVE ~Customs(d, x)
  <2>1. PICK z \in Places(d) : ~Customs(d, z) /\ row \in LineAt(d, z).rows
    BY <1>3 DEF Printed
  <2>2. LineAt(d, z).rows = {row}
    BY <2>1, LegiblePlaces
  <2> QED
    BY <1>1, <2>1, <2>2, LegiblePlaces
<1> QED
  BY <1>1, <1>2, <1>3

\* A new line of a row that has its positions for itself finds the line of that row.
LEMMA RowFoundAgain ==
    ASSUME NEW d \in Doc, Legible(d), NEW y \in Places(d), NEW S \in SUBSET Places(d), y \notin S,
           NEW lines \in Seq(LineItem), NEW known \in 0..Len(lines),
           RowsRead(d, S, known, y[1], lines),
           NEW j \in DOMAIN lines, lines[j].rows = LineAt(d, y).rows,
           \E row \in lines[j].rows : Own(d, row)
    PROVE  LET new == LineAt(d, y)
           IN  /\ j \in 1..known
               /\ lines[j].position = new.position /\ new.position # None
               /\ \A m \in 1..known : lines[m].position = new.position => m <= j
               /\ SameLine(lines[j], new)
<1> DEFINE new == LineAt(d, y)
<1>1. DOMAIN lines = 1..Len(lines) /\ Len(lines) \in Nat
  BY LenProperties
<1>2. PICK row \in lines[j].rows : Own(d, row)
  OBVIOUS
<1>3. PICK x \in S : From(d, lines[j], x) /\ (IF j <= known THEN x[1] < y[1] ELSE x[1] = y[1])
  BY DEF RowsRead
<1>4. /\ LineAt(d, x).rows = {row} /\ new.rows = {row}
      /\ ~Customs(d, x)
      /\ x # y
  <2>1. LineAt(d, x).rows = lines[j].rows
    BY <1>3 DEF From
  <2> QED
    BY <1>2, <1>3, <2>1, LinesOfARowPrinted DEF Own
<1>5. /\ LineAt(d, x).position # None /\ LineAt(d, x).position = new.position
      /\ SameLine(LineAt(d, x), new)
      /\ x[1] # y[1]
      /\ \A z \in Places(d) : (Customs(d, z) /\ LineAt(d, z).position = new.position)
                                 => z[1] >= y[1]
  <2>1. /\ x \in Places(d) /\ LineAt(d, x).rows = LineAt(d, y).rows /\ x # y
        /\ ~Customs(d, x) /\ \A r \in LineAt(d, x).rows : Alone(d, r)
    BY <1>2, <1>4 DEF Own
  <2>2. LET l == LineAt(d, x)
            k == LineAt(d, y)
        IN  /\ l.position # None /\ l.position = k.position /\ SameLine(l, k)
            /\ x[1] # y[1]
            /\ \A z \in Places(d) : (Customs(d, z) /\ LineAt(d, z).position = l.position)
                                        => z[1] >= x[1] /\ z[1] >= y[1]
    BY <2>1, LegiblePlaces
  <2> HIDE DEF new
  <2>3. LineAt(d, y) = new
    BY DEF new
  <2> QED
    BY <2>2, <2>3
<1>6. j \in 1..known
  BY <1>1, <1>3, <1>5
<1>7. lines[j].position = new.position /\ SameLine(lines[j], new)
  BY <1>3, <1>5 DEF From, SameLine
<1>8. ASSUME NEW m \in 1..known, lines[m].position = new.position PROVE m = j
  <2>1. m \in DOMAIN lines
    BY <1>1
  <2>2. PICK z \in S : From(d, lines[m], z) /\ (IF m <= known THEN z[1] < y[1] ELSE z[1] = y[1])
    BY <2>1 DEF RowsRead
  <2>3. z \in Places(d) /\ z[1] < y[1] /\ LineAt(d, z).position = new.position
        /\ LineAt(d, z).rows = lines[m].rows
    BY <1>8, <2>2 DEF From
  <2>4. y[1] \in Int /\ z[1] \in Int
    BY <2>3, PlacesOfADocument
  <2>5. ~Customs(d, z)
    BY <1>5, <2>3, <2>4
  <2>6. PICK other \in LineAt(d, z).rows : LineAt(d, z).rows = {other}
    BY <2>3, LegiblePlaces
  <2>7. other \in Printed(d)
    BY <2>3, <2>5, <2>6, LinesOfARowPrinted
  <2>8. new.position \in Positions(d, row) /\ new.position \in Positions(d, other)
    BY <1>4, <2>3, <2>6 DEF Positions
  <2>9. other = row
    BY <1>2, <2>7, <2>8 DEF Own, Alone
  <2>10. lines[m].rows = lines[j].rows
    BY <1>4, <2>3, <2>6, <2>9
  <2> QED
    BY <1>2, <2>1, <2>10 DEF RowsRead
<1> QED
  BY <1>5, <1>6, <1>7, <1>8

\* One more line: the rows that were read are, and its own.
LEMMA LineRead ==
    ASSUME NEW d \in Doc, Legible(d), NEW y \in Places(d), NEW S \in SUBSET Places(d), y \notin S,
           NEW lines \in Seq(LineItem), NEW known \in 0..Len(lines),
           RowsRead(d, S, known, y[1], lines)
    PROVE  RowsRead(d, S \cup {y}, known, y[1], WithLine(lines, LineAt(d, y), known))
<1> DEFINE new == LineAt(d, y)
           w == WithLine(lines, new, known)
           last(n) == /\ lines[n].position = new.position /\ new.position # None
                      /\ \A m \in 1..known : lines[m].position = new.position => m <= n
           S1 == S \cup {y}
<1>1. DOMAIN lines = 1..Len(lines) /\ Len(lines) \in Nat /\ new \in LineItem
  BY LenProperties, PlacesOfADocument
<1>2. /\ \A m \in DOMAIN lines : \E x \in S : /\ From(d, lines[m], x)
                                              /\ IF m <= known THEN x[1] < y[1] ELSE x[1] = y[1]
      /\ \A m \in DOMAIN lines : Backed(d, S, lines[m])
      /\ \A z \in S : \E m \in DOMAIN lines : lines[m].rows = LineAt(d, z).rows
      /\ \A j, m \in DOMAIN lines :
           (lines[j].rows = lines[m].rows /\ \E row \in lines[j].rows : Own(d, row)) => j = m
  BY DEF RowsRead
<1>3. \A m \in DOMAIN lines : Backed(d, S1, lines[m])
  BY <1>2 DEF Backed
<1>4. From(d, new, y) /\ Backed(d, S1, new)
  BY DEF From, Backed
<1>5. \/ /\ w = Append(lines, new)
         /\ \A n \in 1..known : last(n) => ~SameLine(lines[n], new)
      \/ \E n \in 1..known : /\ last(n) /\ SameLine(lines[n], new)
                             /\ w = [lines EXCEPT ![n] = MergedLine(lines[n], new)]
  <2> HIDE DEF new
  <2>1. \/ /\ w = Append(lines, new)
           /\ \A n \in 1..known : LastOf(lines, new, known, n) => ~SameLine(lines[n], new)
        \/ \E n \in 1..known : /\ LastOf(lines, new, known, n) /\ SameLine(lines[n], new)
                               /\ w = [lines EXCEPT ![n] = MergedLine(lines[n], new)]
    BY <1>1, WithLineCases, Zenon
  <2> QED
    BY <2>1 DEF LastOf
<1>6. CASE /\ w = Append(lines, new)
           /\ \A n \in 1..known : last(n) => ~SameLine(lines[n], new)
  <2>1. /\ DOMAIN w = 1..(Len(lines) + 1)
        /\ \A m \in 1..Len(lines) : w[m] = lines[m]
        /\ w[Len(lines) + 1] = new
    <3> HIDE DEF new
    <3> QED
      BY <1>1, <1>6, AppendProperties, LenProperties
  <2>2. \A m \in DOMAIN w : m \in DOMAIN lines \/ m = Len(lines) + 1
    BY <1>1, <2>1
  <2>3. ASSUME NEW m \in DOMAIN w
        PROVE  /\ Backed(d, S1, w[m])
               /\ \E x \in S1 : From(d, w[m], x) /\ (IF m <= known THEN x[1] < y[1] ELSE x[1] = y[1])
    <3>1. CASE m \in DOMAIN lines
      <4>1. PICK x \in S : From(d, lines[m], x) /\ (IF m <= known THEN x[1] < y[1] ELSE x[1] = y[1])
        BY <1>2, <3>1
      <4>2. w[m] = lines[m] /\ Backed(d, S1, lines[m]) /\ x \in S1
        BY <1>1, <1>3, <2>1, <3>1
      <4> HIDE DEF w, S1
      <4> QED
        BY <4>1, <4>2
    <3>2. CASE m = Len(lines) + 1
      <4>1. ~(m <= known)
        BY <1>1, <3>2
      <4> QED
        BY <1>4, <2>1, <3>2, <4>1
    <3> QED
      BY <2>2, <3>1, <3>2
  <2>4. \A z \in S1 : \E m \in DOMAIN w : w[m].rows = LineAt(d, z).rows
    BY <1>1, <1>2, <2>1
  <2>5. ASSUME NEW j \in DOMAIN lines, lines[j].rows = new.rows,
               \E row \in lines[j].rows : Own(d, row)
        PROVE  FALSE
    <3>1. j \in 1..known /\ last(j) /\ SameLine(lines[j], new)
      BY <2>5, RowFoundAgain
    <3> QED
      BY <1>6, <3>1
  <2>6. ASSUME NEW j \in DOMAIN w, NEW m \in DOMAIN w, w[j].rows = w[m].rows,
               \E row \in w[j].rows : Own(d, row)
        PROVE  j = m
    <3>1. CASE j \in DOMAIN lines /\ m \in DOMAIN lines
      BY <1>1, <1>2, <2>1, <2>6, <3>1
    <3>2. CASE j \in DOMAIN lines /\ m = Len(lines) + 1
      BY <1>1, <2>1, <2>5, <2>6, <3>2
    <3>3. CASE m \in DOMAIN lines /\ j = Len(lines) + 1
      BY <1>1, <2>1, <2>5, <2>6, <3>3
    <3> QED
      BY <2>2, <3>1, <3>2, <3>3
  <2> HIDE DEF w, S1
  <2> QED
    BY <2>3, <2>4, <2>6 DEF RowsRead, S1, w
<1>7. ASSUME NEW n \in 1..known, last(n), SameLine(lines[n], new),
             w = [lines EXCEPT ![n] = MergedLine(lines[n], new)]
      PROVE  RowsRead(d, S1, known, y[1], w)
  <2>1. n \in DOMAIN lines /\ DOMAIN w = DOMAIN lines
        /\ (\A m \in DOMAIN lines : m # n => w[m] = lines[m])
        /\ w[n] = MergedLine(lines[n], new)
    BY <1>1, <1>7
  <2>2. lines[n] \in LineItem
    BY <1>1, <2>1, ElementOfSeq
  <2>3. lines[n].rows = new.rows
    <3>1. PICK z \in S : /\ LineAt(d, z).rows = lines[n].rows
                         /\ LineAt(d, z).position = lines[n].position
                         /\ SameLine(LineAt(d, z), new)
      <4>1. CASE new.article # None /\ new.article = lines[n].article
        BY <1>2, <2>1, <4>1 DEF Backed, SameLine
      <4>2. CASE new.description # None /\ new.description = lines[n].description
        BY <1>2, <2>1, <4>2 DEF Backed, SameLine
      <4> QED
        BY <1>7, <4>1, <4>2 DEF SameLine
    <3>2. /\ LineAt(d, z).position # None /\ LineAt(d, z).position = LineAt(d, y).position
          /\ SameLine(LineAt(d, z), LineAt(d, y)) /\ z \in Places(d)
      BY <1>7, <3>1
    <3>3. LineAt(d, z).rows = LineAt(d, y).rows
      BY <3>2, LegiblePlaces
    <3> QED
      BY <3>1, <3>3
  <2>4. /\ w[n].rows = lines[n].rows /\ w[n].position = lines[n].position
        /\ w[n].article = IF lines[n].article = None THEN new.article ELSE lines[n].article
        /\ w[n].description = IF lines[n].description = None THEN new.description
                              ELSE lines[n].description
    BY <2>1, <2>3 DEF MergedLine
  <2>5. \A m \in DOMAIN w : w[m].rows = lines[m].rows
    BY <2>1, <2>4
  <2>6. ASSUME NEW m \in DOMAIN w
        PROVE  /\ Backed(d, S1, w[m])
               /\ \E x \in S1 : From(d, w[m], x) /\ (IF m <= known THEN x[1] < y[1] ELSE x[1] = y[1])
    <3>1. PICK x \in S : From(d, lines[m], x) /\ (IF m <= known THEN x[1] < y[1] ELSE x[1] = y[1])
      BY <1>2, <2>1
    <3>2. CASE m # n
      <4>1. w[m] = lines[m] /\ Backed(d, S1, lines[m]) /\ x \in S1
        BY <1>3, <2>1, <3>2
      <4> HIDE DEF w, S1
      <4> QED
        BY <3>1, <4>1
    <3>3. CASE m = n
      <4>1. From(d, w[n], x)
        BY <2>4, <3>1, <3>3 DEF From
      <4>2. Backed(d, S1, w[n])
        <5>1. Backed(d, S1, lines[n])
          BY <1>3, <2>1
        <5>2. LineAt(d, y).rows = w[n].rows /\ LineAt(d, y).position = w[n].position
          BY <1>7, <2>3, <2>4
        <5>3. w[n].article # None => \E z \in S1 : /\ LineAt(d, z).rows = w[n].rows
                                                   /\ LineAt(d, z).position = w[n].position
                                                   /\ LineAt(d, z).article = w[n].article
          BY <2>4, <5>1, <5>2 DEF Backed
        <5>4. w[n].description # None => \E z \in S1 : /\ LineAt(d, z).rows = w[n].rows
                                                       /\ LineAt(d, z).position = w[n].position
                                                       /\ LineAt(d, z).description = w[n].description
          BY <2>4, <5>1, <5>2 DEF Backed
        <5> QED
          BY <5>3, <5>4 DEF Backed
      <4> QED
        BY <3>1, <3>3, <4>1, <4>2
    <3> QED
      BY <3>2, <3>3
  <2>7. \A z \in S1 : \E m \in DOMAIN w : w[m].rows = LineAt(d, z).rows
    BY <1>2, <2>1, <2>3, <2>5
  <2>8. \A j, m \in DOMAIN w :
          (w[j].rows = w[m].rows /\ \E row \in w[j].rows : Own(d, row)) => j = m
    BY <1>2, <2>1, <2>5
  <2> HIDE DEF w, S1
  <2> QED
    BY <2>6, <2>7, <2>8 DEF RowsRead
<1> QED
  BY <1>5, <1>6, <1>7

PlacesTo(d, n) == {x \in Places(d) : x[1] <= n}

\* The lines of the record after page n.
PagesRead(d, n, lines) == RowsRead(d, PlacesTo(d, n), Len(lines), n + 1, lines)

LEMMA FirstPageRead ==
    ASSUME NEW d \in Doc, Legible(d)
    PROVE  PagesRead(d, 1, Pages(d)[1].answer.lines)
<1> DEFINE lines == Pages(d)[1].answer.lines
           S == PlacesTo(d, 1)
           place(m) == <<1, m>>
<1>1. /\ 1 \in 1..Len(Pages(d)) /\ Len(Pages(d)) \in Nat
      /\ lines \in Seq(LineItem) /\ Len(lines) \in Nat /\ DOMAIN lines = 1..Len(lines)
  BY PagesOfADocument, PlacesOfADocument, LenProperties
<1>2. \A m \in DOMAIN lines : place(m) \in S /\ place(m)[1] = 1 /\ LineAt(d, place(m)) = lines[m]
  BY <1>1, PlacesOfADocument DEF PlacesTo
<1>3. \A x \in S : x[2] \in DOMAIN lines /\ x = place(x[2])
  <2>1. ASSUME NEW x \in S PROVE x[2] \in DOMAIN lines /\ x = place(x[2])
    <3>1. x[1] \in 1..Len(Pages(d)) /\ x[1] <= 1 /\ x = <<x[1], x[2]>>
          /\ x[2] \in 1..Len(Pages(d)[x[1]].answer.lines)
      BY PlacesOfADocument DEF PlacesTo
    <3>2. x[1] = 1
      BY <1>1, <3>1
    <3> QED
      BY <1>1, <3>1, <3>2
  <2> QED
    BY <2>1
<1> HIDE DEF lines, S, place
<1>4. ASSUME NEW m \in DOMAIN lines
      PROVE  /\ Backed(d, S, lines[m])
             /\ From(d, lines[m], place(m)) /\ (IF m <= Len(lines) THEN place(m)[1] < 2 ELSE place(m)[1] = 2)
  BY <1>1, <1>2 DEF Backed, From
<1>5. \A x \in S : \E m \in DOMAIN lines : lines[m].rows = LineAt(d, x).rows
  BY <1>2, <1>3
<1>6. ASSUME NEW j \in DOMAIN lines, NEW m \in DOMAIN lines, lines[j].rows = lines[m].rows,
             \E row \in lines[j].rows : Own(d, row), j # m
      PROVE  FALSE
  <2>1. PICK row \in lines[j].rows : Own(d, row)
    BY <1>6
  <2>2. /\ place(j) \in Places(d) /\ place(m) \in Places(d)
        /\ place(j) # place(m) /\ place(j)[1] = place(m)[1]
        /\ LineAt(d, place(j)).rows = LineAt(d, place(m)).rows /\ row \in LineAt(d, place(j)).rows
    BY <1>2, <1>6, <2>1 DEF S, PlacesTo, place
  <2>3. LineAt(d, place(j)).rows = {row} /\ ~Customs(d, place(j))
    BY <2>1, <2>2, LinesOfARowPrinted DEF Own
  <2>4. \A r \in LineAt(d, place(j)).rows : Alone(d, r)
    BY <2>1, <2>3 DEF Own
  <2> QED
    BY <2>2, <2>3, <2>4, LegiblePlaces
<1>7. RowsRead(d, S, Len(lines), 2, lines)
  BY <1>2, <1>4, <1>5, <1>6 DEF RowsRead
<1> QED
  BY <1>7 DEF PagesRead, lines, S

LEMMA PageMerged ==
    ASSUME NEW d \in Doc, Legible(d), NEW n \in Nat, n + 1 \in 1..Len(Pages(d)),
           NEW lines \in Seq(LineItem), PagesRead(d, n, lines)
    PROVE  PagesRead(d, n + 1, MergedLines(lines, Pages(d)[n + 1].answer.lines))
<1> DEFINE extra == Pages(d)[n + 1].answer.lines
           N == Len(extra)
           K == Len(lines)
           S(k) == PlacesTo(d, n) \cup {<<n + 1, j>> : j \in 1..k}
<1>1. extra \in Seq(LineItem) /\ N \in Nat /\ K \in Nat
      /\ \A j \in 1..N : <<n + 1, j>> \in Places(d) /\ LineAt(d, <<n + 1, j>>) = extra[j]
  BY PlacesOfADocument, LenProperties
<1>2. PICK m \in [0..N -> Seq(LineItem)] :
        /\ m[0] = lines
        /\ \A k \in 1..N : m[k] = WithLine(m[k - 1], extra[k], K)
        /\ \A k \in 0..N : Len(m[k]) >= K
        /\ MergedLines(lines, extra) = m[N]
  <2> HIDE DEF extra
  <2> QED
    BY <1>1, MergeRecursion
<1> HIDE DEF N, K
<1> DEFINE T == {k \in Nat : k <= N => RowsRead(d, S(k), K, n + 1, m[k])}
<1>3. 0 \in T
  <2>1. S(0) = PlacesTo(d, n)
    OBVIOUS
  <2>2. RowsRead(d, PlacesTo(d, n), K, n + 1, lines)
    BY DEF PagesRead, K
  <2> HIDE DEF S
  <2> QED
    BY <1>2, <2>1, <2>2
<1>4. ASSUME NEW k \in Nat, k \in T PROVE k + 1 \in T
  <2> SUFFICES ASSUME k + 1 <= N PROVE RowsRead(d, S(k + 1), K, n + 1, m[k + 1])
    OBVIOUS
  <2> DEFINE y == <<n + 1, k + 1>>
             s == S(k)
  <2>1. RowsRead(d, s, K, n + 1, m[k])
    BY <1>1, <1>4
  <2>2. y \in Places(d) /\ LineAt(d, y) = extra[k + 1] /\ y[1] = n + 1
    <3>1. k + 1 \in 1..N
      BY <1>1
    <3> QED
      BY <1>1, <3>1
  <2>3. s \in SUBSET Places(d)
    <3>1. \A j \in 1..k : <<n + 1, j>> \in Places(d)
      BY <1>1
    <3> QED
      BY <3>1 DEF PlacesTo
  <2>4. y \notin s /\ S(k + 1) = s \cup {y}
    <3>1. y \notin PlacesTo(d, n)
      BY <2>2 DEF PlacesTo
    <3>2. y \notin {<<n + 1, j>> : j \in 1..k}
      OBVIOUS
    <3>3. 1..(k + 1) = (1..k) \cup {k + 1}
      OBVIOUS
    <3> QED
      BY <3>1, <3>2, <3>3
  <2>5. m[k] \in Seq(LineItem) /\ K \in 0..Len(m[k]) /\ m[k + 1] = WithLine(m[k], extra[k + 1], K)
    <3>1. k \in 0..N /\ k + 1 \in 1..N
      BY <1>1
    <3>2. m[k] \in Seq(LineItem) /\ Len(m[k]) >= K /\ m[k + 1] = WithLine(m[k], extra[k + 1], K)
      BY <1>2, <3>1
    <3> QED
      BY <1>1, <3>2, LenProperties
  <2> HIDE DEF S, s, y
  <2>6. RowsRead(d, s \cup {y}, K, y[1], WithLine(m[k], LineAt(d, y), K))
    BY <2>1, <2>2, <2>3, <2>4, <2>5, LineRead
  <2> QED
    BY <2>2, <2>4, <2>5, <2>6
<1>5. N \in T
  <2> HIDE DEF T
  <2> QED
    BY <1>1, <1>3, <1>4, NatInductionOverSet
<1>6. S(N) = PlacesTo(d, n + 1)
  <2>1. ASSUME NEW x \in PlacesTo(d, n + 1) PROVE x \in S(N)
    <3>1. x \in Places(d) /\ x[1] \in Nat /\ x[1] <= n + 1 /\ x = <<x[1], x[2]>>
          /\ x[2] \in 1..Len(Pages(d)[x[1]].answer.lines)
      BY PlacesOfADocument DEF PlacesTo
    <3>2. CASE x[1] <= n
      BY <3>1, <3>2 DEF PlacesTo
    <3>3. CASE x[1] = n + 1
      <4>1. x = <<n + 1, x[2]>> /\ x[2] \in 1..N
        BY <3>1, <3>3 DEF N
      <4> QED
        BY <4>1
    <3> QED
      BY <3>1, <3>2, <3>3
  <2>2. ASSUME NEW x \in PlacesTo(d, n) PROVE x \in PlacesTo(d, n + 1)
    <3>1. x \in Places(d) /\ x[1] \in Nat /\ x[1] <= n
      BY PlacesOfADocument DEF PlacesTo
    <3> QED
      BY <3>1 DEF PlacesTo
  <2>3. ASSUME NEW j \in 1..N PROVE <<n + 1, j>> \in PlacesTo(d, n + 1)
    <3>1. <<n + 1, j>> \in Places(d)
      BY <1>1
    <3> QED
      BY <3>1 DEF PlacesTo
  <2> QED
    BY <2>1, <2>2, <2>3
<1> DEFINE lines1 == MergedLines(lines, extra)
           S1 == PlacesTo(d, n + 1)
<1>7. RowsRead(d, S1, K, n + 1, lines1) /\ lines1 \in Seq(LineItem)
  <2>1. N \in 0..N
    BY <1>1
  <2>2. RowsRead(d, S(N), K, n + 1, m[N])
    BY <1>1, <1>5
  <2> HIDE DEF S, S1, lines1
  <2> QED
    BY <1>2, <1>6, <2>1, <2>2 DEF S1, lines1
<1>8. DOMAIN lines1 = 1..Len(lines1)
  BY <1>7, LenProperties
<1> HIDE DEF lines1, S1, K
<1>9. ASSUME NEW k \in DOMAIN lines1
      PROVE  /\ Backed(d, S1, lines1[k])
             /\ \E x \in S1 : /\ From(d, lines1[k], x)
                              /\ IF k <= Len(lines1) THEN x[1] < (n + 1) + 1 ELSE x[1] = (n + 1) + 1
  <2>1. PICK x \in S1 : From(d, lines1[k], x) /\ (IF k <= K THEN x[1] < n + 1 ELSE x[1] = n + 1)
    BY <1>7 DEF RowsRead
  <2>2. x[1] \in Nat
    BY PlacesOfADocument DEF S1, PlacesTo
  <2>3. x[1] < (n + 1) + 1 /\ k <= Len(lines1)
    BY <1>8, <2>1, <2>2
  <2>4. Backed(d, S1, lines1[k])
    BY <1>7 DEF RowsRead
  <2> QED
    BY <2>1, <2>3, <2>4
<1>10. RowsRead(d, S1, Len(lines1), (n + 1) + 1, lines1)
  BY <1>7, <1>9 DEF RowsRead
<1> QED
  BY <1>10 DEF PagesRead, S1, lines1

LEMMA PlacesToAll ==
    ASSUME NEW d \in Doc
    PROVE  PlacesTo(d, Len(Pages(d))) = Places(d)
<1>1. \A x \in Places(d) : x[1] <= Len(Pages(d))
  BY PlacesOfADocument, PagesOfADocument
<1> QED
  BY <1>1 DEF PlacesTo

\* RowsOnce, of any document and lines.
OnceIn(d, lines) ==
    /\ \A n \in DOMAIN lines : \A r, s \in lines[n].rows : r = s
    /\ \A row \in Printed(d) :
         /\ \E n \in DOMAIN lines : row \in lines[n].rows
         /\ Alone(d, row) => \A m, n \in DOMAIN lines :
                               row \in lines[m].rows /\ row \in lines[n].rows => m = n

\* The corrections leave out the customs summaries, and nothing else.
LEMMA RowsAfterRules ==
    ASSUME NEW d \in Doc, Legible(d), NEW rec \in Record,
           PagesRead(d, Len(Pages(d)), rec.lines)
    PROVE  OnceIn(d, ApplyRules(rec).lines)
<1> DEFINE L == rec.lines
           k == Kept(L)
           a == ApplyRules(rec).lines
           S == Places(d)
<1>1. L \in Seq(LineItem) /\ Len(L) \in Nat /\ DOMAIN L = 1..Len(L)
  BY LenProperties DEF Record
<1>2. /\ \A m \in DOMAIN L : Backed(d, S, L[m]) /\ \E x \in S : From(d, L[m], x)
      /\ \A y \in S : \E m \in DOMAIN L : L[m].rows = LineAt(d, y).rows
      /\ \A j, m \in DOMAIN L :
           (L[j].rows = L[m].rows /\ \E row \in L[j].rows : Own(d, row)) => j = m
  BY PlacesToAll DEF PagesRead, RowsRead
<1>3. PICK e \in [1..Len(k) -> 1..Len(L)] :
        /\ \A n \in 1..Len(k) : k[n] = L[e[n]] /\ L[e[n]].description \notin HsCode
        /\ \A j, n \in 1..Len(k) : e[j] = e[n] => j = n
        /\ \A n \in 1..Len(L) : L[n].description \notin HsCode
             => \E j \in 1..Len(k) : e[j] = n
  <2> HIDE DEF L
  <2> QED
    BY <1>1, KeptLines
<1>4. DOMAIN a = 1..Len(k) /\ \A n \in 1..Len(k) : a[n].rows = L[e[n]].rows
  <2>1. ApplyRules(rec) \in Record /\ Len(a) = Len(k) /\ \A n \in 1..Len(a) : a[n].rows = k[n].rows
    BY CorrectedRecord
  <2>2. a \in Seq(LineItem)
    BY <2>1 DEF Record
  <2> HIDE DEF a, k
  <2>3. DOMAIN a = 1..Len(k)
    BY <2>1, <2>2, LenProperties
  <2> QED
    BY <1>3, <2>1, <2>3
<1>5. ASSUME NEW m \in DOMAIN L, NEW row \in L[m].rows
      PROVE  /\ L[m].rows = {row}
             /\ row \in Printed(d) => L[m].description \notin HsCode
  <2>1. PICK x \in S : From(d, L[m], x)
    BY <1>2
  <2>2. LineAt(d, x).rows = L[m].rows
    BY <2>1 DEF From
  <2>3. L[m].rows = {row}
    BY <2>2, LinesOfARowPrinted
  <2>4. ASSUME row \in Printed(d), L[m].description # None PROVE L[m].description \notin HsCode
    <3>1. PICK y \in S : LineAt(d, y).rows = L[m].rows /\ LineAt(d, y).description = L[m].description
      BY <1>2, <2>4 DEF Backed
    <3>2. ~Customs(d, y)
      BY <2>4, <3>1, LinesOfARowPrinted
    <3> QED
      BY <3>1, <3>2 DEF Customs
  <2>5. None \notin HsCode
    BY RulesAssumption
  <2> QED
    BY <2>3, <2>4, <2>5
<1> HIDE DEF L, k, a
<1>6. \A n \in DOMAIN a : e[n] \in DOMAIN L /\ a[n].rows = L[e[n]].rows
  BY <1>1, <1>3, <1>4
<1>7. \A n \in DOMAIN a : \A r, s \in a[n].rows : r = s
  <2>1. ASSUME NEW n \in DOMAIN a, NEW r \in a[n].rows, NEW s \in a[n].rows PROVE r = s
    <3>1. r \in L[e[n]].rows /\ s \in L[e[n]].rows /\ e[n] \in DOMAIN L
      BY <1>6
    <3>2. L[e[n]].rows = {r}
      BY <1>5, <3>1
    <3> QED
      BY <3>1, <3>2
  <2> QED
    BY <2>1
<1>8. ASSUME NEW row \in Printed(d)
      PROVE  \E n \in DOMAIN a : row \in a[n].rows
  <2>1. PICK y \in S : ~Customs(d, y) /\ row \in LineAt(d, y).rows
    BY DEF Printed
  <2>2. PICK m \in DOMAIN L : L[m].rows = LineAt(d, y).rows
    BY <1>2
  <2>3. L[m].description \notin HsCode
    BY <1>5, <2>1, <2>2
  <2>4. PICK j \in 1..Len(k) : e[j] = m
    BY <1>1, <1>3, <2>3
  <2> QED
    BY <1>4, <2>1, <2>2, <2>4
<1>9. ASSUME NEW row \in Printed(d), Alone(d, row), NEW m \in DOMAIN a, NEW n \in DOMAIN a,
             row \in a[m].rows, row \in a[n].rows
      PROVE  m = n
  <2>1. /\ e[m] \in DOMAIN L /\ e[n] \in DOMAIN L
        /\ row \in L[e[m]].rows /\ row \in L[e[n]].rows
    BY <1>6, <1>9
  <2>2. L[e[m]].rows = {row} /\ L[e[n]].rows = {row}
    BY <1>5, <2>1
  <2>3. Own(d, row)
    BY <1>9 DEF Own
  <2>4. e[m] = e[n]
    BY <1>2, <2>1, <2>2, <2>3
  <2> QED
    BY <1>3, <1>4, <2>4
<1> QED
  BY <1>7, <1>8, <1>9 DEF OnceIn, a

\* The pages that were read so far are in the record.
Reads ==
    /\ phase = "pages" /\ page > 1 => PagesRead(doc, page - 1, data.lines)
    /\ phase = "read" => PagesRead(doc, Len(Pages(doc)), data.lines)
    /\ phase = "corrected" => OnceIn(doc, data.lines)

LEMMA PageReadKeepsReads ==
    ASSUME \A d \in Doc : Legible(d), WorkerOK, Reads, PageRead
    PROVE  Reads'
<1>1. phase = "pages" /\ Complete(page) /\ data' = Folded(Answer(page)) /\ doc' = doc
  BY DEF PageRead, files
<1>2. doc \in Doc /\ page \in 1..Len(Pages(doc)) /\ data \in Record /\ Legible(doc)
      /\ Len(Pages(doc)) \in Nat
  BY <1>1, PagesOfADocument DEF WorkerOK
<1>3. Answer(page) = Pages(doc)[page].answer /\ Answer(page) \in Record
  BY <1>1, AnswerOfAPage
<1>4. PagesRead(doc, page, data'.lines)
  <2>1. CASE page = 1
    <3>1. data'.lines = Pages(doc)[1].answer.lines
      BY <1>1, <1>3, <2>1 DEF Folded
    <3>2. PagesRead(doc, 1, Pages(doc)[1].answer.lines)
      BY <1>2, FirstPageRead
    <3> QED
      BY <2>1, <3>1, <3>2
  <2>2. CASE page # 1
    <3>1. data'.lines = MergedLines(data.lines, Pages(doc)[page].answer.lines)
      BY <1>1, <1>2, <1>3, <2>2, MergedRecord DEF Folded
    <3> DEFINE n == page - 1
    <3>2. n \in Nat /\ n + 1 = page /\ page > 1
      BY <1>2, <2>2
    <3>3. PagesRead(doc, n, data.lines) /\ data.lines \in Seq(LineItem)
      BY <1>1, <1>2, <3>2 DEF Reads, Record
    <3> HIDE DEF n
    <3>4. PagesRead(doc, n + 1, MergedLines(data.lines, Pages(doc)[n + 1].answer.lines))
      BY <1>2, <3>2, <3>3, PageMerged
    <3> QED
      BY <3>1, <3>2, <3>4
  <2> QED
    BY <2>1, <2>2
<1>5. CASE page < Len(Pages(doc))
  <2>1. phase' = "pages" /\ page' = page + 1
    BY <1>1, <1>5 DEF PageRead, Asks
  <2>2. page' - 1 = page
    BY <1>2, <2>1
  <2> QED
    BY <1>1, <1>4, <2>1, <2>2 DEF Reads
<1>6. CASE ~(page < Len(Pages(doc)))
  <2>1. phase' = "read" /\ page = Len(Pages(doc))
    BY <1>2, <1>6 DEF PageRead
  <2>2. Pages(doc)' = Pages(doc)
    BY <1>1 DEF Pages
  <2> QED
    BY <1>1, <1>4, <2>1, <2>2 DEF Reads
<1> QED
  BY <1>5, <1>6

LEMMA ReadsNext ==
    ASSUME \A d \in Doc : Legible(d), Types, Reads, [Next]_vars
    PROVE  Reads'
<1>1. WorkerOK
  BY DEF Types
<1>2. CASE phase' \in {"idle", "error"}
  BY <1>2 DEF Reads
<1>3. CASE UNCHANGED <<doc, phase, page, data>>
  BY <1>3 DEF Reads, Pages
<1>4. ASSUME NEW d \in Doc, NEW c \in 0..MaxBegun, Begin(d, c) PROVE Reads'
  <2>1. phase' = "pages" /\ page' = 1
    BY <1>4 DEF Begin
  <2> QED
    BY <2>1 DEF Reads
<1>5. CASE PageRead
  BY <1>1, <1>5, PageReadKeepsReads
<1>6. CASE Correct
  <2>1. /\ phase = "read" /\ phase' = "corrected" /\ data' = ApplyRules(data) /\ doc' = doc
        /\ doc \in Doc /\ data \in Record
    BY <1>1, <1>6 DEF Correct, files, WorkerOK
  <2>2. PagesRead(doc, Len(Pages(doc)), data.lines) /\ Legible(doc)
    BY <2>1 DEF Reads
  <2>3. OnceIn(doc, ApplyRules(data).lines)
    BY <2>1, <2>2, RowsAfterRules
  <2> QED
    BY <2>1, <2>3 DEF Reads
<1>7. CASE CutShort \/ CallFails
  BY <1>2, <1>3, <1>7 DEF CutShort, CallFails, Again, files, call
<1>8. CASE ExtractionNext
  BY <1>2, <1>3, <1>4, <1>5, <1>6, <1>7, <1>8
     DEF ExtractionNext, ExtractionStep, UnwrapFails, GiveUp, Crash, Idle, files, call
<1>9. CASE Store
  BY <1>2, <1>9 DEF Store, Idle
<1> QED
  BY <1>3, <1>8, <1>9
     DEF Next, Label, Ask, ReadInvoices, ReadItems, Close, vars, extraction, files, call

\* _merge_continuation: of a legible document of any length, whose pages repeat lines and
\* start numbering again, and after any calls that fail or are cut short, each printed row
\* is stored, and one that has its positions for itself is stored once.
THEOREM RowsAreReadOnce ==
    ASSUME \A d \in Doc : Legible(d)
    PROVE  Spec => []RowsOnce
<1>1. Init => Types /\ Reads
  BY TypesInit DEF Init, ExtractionInit, Reads
<1>2. (Types /\ Reads) /\ [Next]_vars => (Types /\ Reads)'
  BY TypesNext, ReadsNext
<1>3. Reads => RowsOnce
  BY DEF Reads, OnceIn, RowsOnce
<1> QED
  BY <1>1, <1>2, <1>3, PTL DEF Spec

=============================================================================
