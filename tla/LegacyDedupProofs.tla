------------------------- MODULE LegacyDedupProofs -------------------------
(***************************************************************************)
(* Theorems about LegacyDedup, for any files, rows of the database, number *)
(* of threads, interleaving of them and number of runs.                    *)
(***************************************************************************)
EXTENDS LegacyDedup, FiniteSetTheorems, WellFoundedInduction, TLAPS

-----------------------------------------------------------------------------
(* The invariant *)

Stage == {"queued"} \cup Busy \cup Done

InDb(f, g) ==
    \E r \in Rows : /\ r.success
                   /\ r.file = g
                   /\ r.number = NumberOf[f]
                   /\ Near(r.total, TotalOf[f])

\* The index of the run names the file that is extracted for each key, and every
\* such file; only files with a number are compared.
Indexed ==
    /\ stage \in [File -> Stage]
    /\ original \in [File -> File \cup {r.file : r \in Rows} \cup {NoFile}]
    /\ \A f \in File : stage[f] \in {"check", "ready", "dup"} => NumberOf[f] # NoNumber
    /\ \A k \in DOMAIN seen :
         /\ seen[k] \in File
         /\ stage[seen[k]] = "ready"
         /\ Key(seen[k]) = k
    /\ \A f \in File : stage[f] = "ready" => Key(f) \in DOMAIN seen /\ seen[Key(f)] = f
    /\ \A f \in File : stage[f] = "dup" =>
         \/ InDb(f, original[f])
         \/ Key(f) \in DOMAIN seen /\ seen[Key(f)] = original[f] /\ original[f] # f

\* A file that is not compared moves between the other stages only.
LEMMA Moved ==
    ASSUME Indexed, NEW f \in File, NEW to \in Stage \ {"ready", "dup"}, Moves(f, to),
           stage[f] \notin {"ready", "dup"}, UNCHANGED <<original, seen>>,
           to = "check" => NumberOf[f] # NoNumber
    PROVE  Indexed'
<1>1. /\ stage' \in [File -> Stage] /\ stage'[f] = to
      /\ \A g \in File \ {f} : stage'[g] = stage[g]
    BY DEF Indexed, Moves
<1>2. \A k \in DOMAIN seen : seen[k] # f
    BY DEF Indexed
<1> QED
    BY <1>1, <1>2 DEF Indexed

LEMMA FreshIndexed ==
    ASSUME stage' = Fresh, seen' = <<>>, original' = [f \in File |-> NoFile]
    PROVE  Indexed'
<1>1. stage' \in [File -> Stage] /\ \A f \in File : stage'[f] \in {"known", "queued"}
    BY DEF Fresh, Stage, Done
<1>2. DOMAIN seen' = {}
    OBVIOUS
<1> QED
    BY <1>1, <1>2 DEF Indexed

LEMMA Compared ==
    ASSUME Indexed, NEW f \in File, Compare(f)
    PROVE  Indexed'
<1>1. stage[f] = "check" /\ NumberOf[f] # NoNumber
    BY DEF Compare, Indexed
<1>2. \A k \in DOMAIN seen : seen[k] # f
    BY <1>1 DEF Indexed
<1>3. CASE Repeats(f) = {}
    <2>1. /\ seen' = [k \in DOMAIN seen \cup {Key(f)} |->
                      IF k \in DOMAIN seen THEN seen[k] ELSE f]
          /\ stage' = [stage EXCEPT ![f] = "ready"]
          /\ original' = original
        BY <1>3 DEF Compare, Moves
    <2>2. Key(f) \notin DOMAIN seen
        BY <1>3 DEF Repeats
    <2>3. /\ DOMAIN seen' = DOMAIN seen \cup {Key(f)} /\ seen'[Key(f)] = f
          /\ \A k \in DOMAIN seen : seen'[k] = seen[k]
        BY <2>1, <2>2
    <2>4. /\ stage' \in [File -> Stage] /\ stage'[f] = "ready"
          /\ \A g \in File \ {f} : stage'[g] = stage[g]
        BY <2>1 DEF Indexed, Stage, Done
    <2>5. ASSUME NEW g \in File, stage'[g] = "dup"
          PROVE  \/ InDb(g, original'[g])
                 \/ Key(g) \in DOMAIN seen' /\ seen'[Key(g)] = original'[g] /\ original'[g] # g
        <3>1. stage[g] = "dup"
            BY <2>4, <2>5
        <3> QED BY <2>1, <2>3, <3>1 DEF Indexed
    <2>6. ASSUME NEW k \in DOMAIN seen'
          PROVE  seen'[k] \in File /\ stage'[seen'[k]] = "ready" /\ Key(seen'[k]) = k
        <3>1. CASE k = Key(f)
            BY <2>3, <2>4, <3>1
        <3>2. CASE k \in DOMAIN seen
            BY <1>2, <2>3, <2>4, <3>2 DEF Indexed
        <3> QED BY <2>3, <3>1, <3>2
    <2>7. ASSUME NEW g \in File, stage'[g] = "ready"
          PROVE  Key(g) \in DOMAIN seen' /\ seen'[Key(g)] = g
        BY <2>3, <2>4, <2>7 DEF Indexed
    <2>8. \A g \in File : stage'[g] \in {"check", "ready", "dup"} => NumberOf[g] # NoNumber
        BY <1>1, <2>4 DEF Indexed
    <2>9. original' \in [File -> File \cup {r.file : r \in Rows} \cup {NoFile}]
        BY <2>1 DEF Indexed
    <2> QED BY <2>4, <2>5, <2>6, <2>7, <2>8, <2>9 DEF Indexed, Key
<1>4. CASE Repeats(f) # {}
    <2>1. PICK g \in Repeats(f) : original' = [original EXCEPT ![f] = g]
        BY <1>4 DEF Compare
    <2>2. stage' = [stage EXCEPT ![f] = "dup"] /\ seen' = seen
        BY <1>4 DEF Compare, Moves
    <2>3. \/ InDb(f, g)
          \/ Key(f) \in DOMAIN seen /\ seen[Key(f)] = g /\ g # f
        BY <1>2, <2>1 DEF Repeats, StoredAs, InDb
    <2>4. g \in File \cup {r.file : r \in Rows}
        BY <2>3 DEF Indexed, InDb
    <2>5. /\ original' \in [File -> File \cup {r.file : r \in Rows} \cup {NoFile}]
          /\ original'[f] = g /\ \A h \in File \ {f} : original'[h] = original[h]
        BY <2>1, <2>4 DEF Indexed
    <2>6. /\ stage' \in [File -> Stage] /\ stage'[f] = "dup"
          /\ \A h \in File \ {f} : stage'[h] = stage[h]
        BY <2>2 DEF Indexed, Stage, Done
    <2>7. ASSUME NEW h \in File, stage'[h] = "dup"
          PROVE  \/ InDb(h, original'[h])
                 \/ Key(h) \in DOMAIN seen' /\ seen'[Key(h)] = original'[h] /\ original'[h] # h
        <3>1. CASE h = f
            BY <2>2, <2>3, <2>5, <3>1
        <3>2. CASE h # f
            BY <2>2, <2>5, <2>6, <2>7, <3>2 DEF Indexed
        <3> QED BY <3>1, <3>2
    <2>8. \A h \in File : stage'[h] \in {"check", "ready", "dup"} => NumberOf[h] # NoNumber
        BY <1>1, <2>6 DEF Indexed
    <2>9. \A k \in DOMAIN seen' : seen'[k] \in File /\ stage'[seen'[k]] = "ready"
                                    /\ Key(seen'[k]) = k
        BY <1>2, <2>2, <2>6 DEF Indexed
    <2>10. \A h \in File : stage'[h] = "ready" => Key(h) \in DOMAIN seen' /\ seen'[Key(h)] = h
        BY <2>2, <2>6 DEF Indexed
    <2> QED BY <2>5, <2>6, <2>7, <2>8, <2>9, <2>10 DEF Indexed, Key
<1> QED
    BY <1>3, <1>4

LEMMA IndexedNext == Indexed /\ [Next]_vars => Indexed'
<1> SUFFICES ASSUME Indexed, [Next]_vars PROVE Indexed'
    OBVIOUS
<1>1. ASSUME NEW f \in File, Start(f)
      PROVE  Indexed'
    <2>1. stage[f] = "queued" /\ Moves(f, Scanned(f)) /\ UNCHANGED <<original, seen>>
        BY <1>1 DEF Start, NextUp
    <2>2. Scanned(f) \in {"review", "copy", "ask", "unchecked"}
        BY DEF Scanned, Unstripped
    <2>3. Scanned(f) \in Stage \ {"ready", "dup"} /\ Scanned(f) # "check"
        BY <2>2 DEF Stage, Busy, Done
    <2> QED BY <2>1, <2>3, Moved
<1>2. ASSUME NEW f \in File, CannotOpen(f) \/ CopyAside(f)
      PROVE  Indexed'
    <2>1. PICK to \in {"error", "replace"} : Moves(f, to)
        BY <1>2 DEF CannotOpen, CopyAside
    <2>2. stage[f] \notin {"ready", "dup"} /\ UNCHANGED <<original, seen>>
        BY <1>2 DEF CannotOpen, CopyAside, NextUp
    <2>3. to \in Stage \ {"ready", "dup"} /\ to # "check"
        BY DEF Stage, Busy, Done
    <2> QED BY <2>1, <2>2, <2>3, Moved
<1>3. ASSUME NEW f \in File, Replace(f) \/ StripFails(f)
      PROVE  Indexed'
    <2>1. /\ stage[f] \in {"copy", "replace"} /\ Moves(f, Unstripped)
          /\ UNCHANGED <<original, seen>>
        BY <1>3 DEF Replace, StripFails
    <2>2. Unstripped \in Stage \ {"ready", "dup"} /\ Unstripped # "check"
        BY DEF Unstripped, Stage, Busy, Done
    <2> QED BY <2>1, <2>2, Moved
<1>4. ASSUME NEW f \in File, Ask(f) \/ AskFails(f)
      PROVE  Indexed'
    <2>1. PICK to \in {"unchecked", "check"} :
             Moves(f, to) /\ (to = "check" => NumberOf[f] # NoNumber)
        BY <1>4 DEF Ask, AskFails
    <2>2. stage[f] = "ask" /\ UNCHANGED <<original, seen>>
        BY <1>4 DEF Ask, AskFails
    <2>3. to \in Stage \ {"ready", "dup"}
        BY DEF Stage, Busy, Done
    <2> QED BY <2>1, <2>2, <2>3, Moved
<1>5. ASSUME NEW f \in File, Compare(f)
      PROVE  Indexed'
    BY <1>5, Compared
<1>6. CASE RunAgain
    BY <1>6, FreshIndexed DEF RunAgain
<1>7. CASE EndRun \/ UNCHANGED vars
    BY <1>7 DEF EndRun, vars, Indexed
<1> QED
    BY <1>1, <1>2, <1>3, <1>4, <1>5, <1>6, <1>7 DEF Next, Step

LEMMA Indexing == Spec => []Indexed
<1>1. Init => Indexed
    <2> SUFFICES ASSUME Init PROVE Indexed
        OBVIOUS
    <2>1. stage \in [File -> Stage] /\ \A f \in File : stage[f] \in {"known", "queued"}
        BY DEF Init, Fresh, Stage, Done
    <2>2. DOMAIN seen = {} /\ original = [f \in File |-> NoFile]
        BY DEF Init
    <2> QED BY <2>1, <2>2 DEF Indexed
<1> QED
    BY <1>1, IndexedNext, PTL DEF Spec

-----------------------------------------------------------------------------
(* Pages *)

\* A finite set of numbers has a greatest: of the sets of what is not below one of
\* its members there is a least.
LEMMA Greatest ==
    ASSUME NEW V, V \subseteq Nat, V # {}, IsFiniteSet(V)
    PROVE  \E v \in V : \A w \in V : w <= v
<1> DEFINE Up(v) == {w \in V : v <= w}
           R == StrictSubsetOrdering(V)
           T == {Up(v) : v \in V}
<1>1. IsWellFoundedOn(R, SUBSET V)
    <2>1. FiniteSubsetsOf(V) = SUBSET V
        BY FS_FiniteSubsetsOfFinite
    <2>2. IsWellFoundedOn(R, FiniteSubsetsOf(V))
        BY FS_StrictSubsetOrderingWellFounded
    <2> HIDE DEF R
    <2> QED BY <2>1, <2>2, Zenon
<1>2. T \subseteq SUBSET V /\ T # {}
    OBVIOUS
<1>3. PICK u \in T : \A t \in T : <<t, u>> \notin R
    <2> HIDE DEF R, T
    <2> QED BY <1>1, <1>2, WFMin, Zenon
<1>4. PICK v \in V : u = Up(v)
    BY <1>3
<1>5. SUFFICES ASSUME NEW w \in V, ~(w <= v) PROVE FALSE
    OBVIOUS
<1>6. v \in Nat /\ w \in Nat /\ v < w
    BY <1>5
<1>7. \A x \in V : w <= x => v <= x
    BY <1>6
<1>8. v \in Up(v) /\ v \notin Up(w)
    BY <1>6
<1>9. Up(w) \subseteq Up(v)
    BY <1>7, Zenon
<1>10. <<Up(w), Up(v)>> \in R
    BY <1>8, <1>9 DEF StrictSubsetOrdering
<1> QED
    BY <1>3, <1>4, <1>10

LEMMA LargestIs ==
    ASSUME NEW n \in Nat, NEW s, s \subseteq 1..n, s # {}
    PROVE  Largest(s) \in s /\ \A k \in s : k <= Largest(s)
<1>1. s \in SUBSET Nat /\ \A k \in s : k <= n
    OBVIOUS
<1>2. IsFiniteSet(s)
    BY <1>1, FS_BoundedSetOfNaturals
<1>3. \E m \in s : \A k \in s : k <= m
    BY <1>1, <1>2, Greatest
<1> QED
    BY <1>3 DEF Largest

LEMMA LeastIs ==
    ASSUME NEW n \in Nat, NEW s, s \subseteq 1..n, s # {}
    PROVE  Least(s) \in s /\ \A k \in s : Least(s) <= k
<1> DEFINE mirrored == {n - k : k \in s}
<1>1. mirrored \in SUBSET Nat /\ \A w \in mirrored : w <= n
    <2> SUFFICES ASSUME NEW k \in s PROVE n - k \in Nat /\ n - k <= n
        OBVIOUS
    <2>1. k \in 1..n
        OBVIOUS
    <2> QED BY <2>1
<1>2. mirrored # {}
    OBVIOUS
<1>3. PICK v \in mirrored : \A w \in mirrored : w <= v
    <2>1. IsFiniteSet(mirrored)
        BY <1>1, FS_BoundedSetOfNaturals
    <2> HIDE DEF mirrored
    <2> QED BY <1>1, <1>2, <2>1, Greatest
<1>4. PICK m \in s : v = n - m
    BY <1>3
<1>5. \A k \in s : m <= k
    <2> SUFFICES ASSUME NEW k \in s PROVE m <= k
        OBVIOUS
    <2>1. n - k <= n - m
        BY <1>3, <1>4
    <2>2. k \in Int /\ m \in Int /\ n \in Int
        OBVIOUS
    <2> HIDE DEF mirrored
    <2> QED BY <2>1, <2>2
<1> QED
    BY <1>5 DEF Least

\* What is left of a document has all its financial pages, and no garbage.
LEMMA Stripped ==
    ASSUME NEW pages \in Seq(Page), Garbage(pages) # {}
    PROVE  /\ \E n \in 0..Len(pages) : /\ Kept(pages) = SubSeq(pages, 1, n)
                                       /\ \A k \in Financial(pages) : k <= n
           /\ Kept(pages) \in Seq(Page)
           /\ Garbage(Kept(pages)) = {}
<1> DEFINE m == Least(Garbage(pages))
           last == Largest(Financial(pages))
           rest == Kept(pages)
<1>1. Financial(pages) # {} /\ Financial(pages) \subseteq 1..Len(pages)
    <2>1. Financial(pages) # {}
        BY DEF Garbage
    <2>2. DOMAIN pages = 1..Len(pages)
        OBVIOUS
    <2> QED BY <2>1, <2>2 DEF Financial
<1>2. last \in Financial(pages) /\ \A k \in Financial(pages) : k <= last
    BY <1>1, LargestIs
<1>3. Garbage(pages) = {k \in 1..Len(pages) : k > last /\ pages[k].mime}
    BY <1>1 DEF Garbage
<1>4. m \in Garbage(pages) /\ \A k \in Garbage(pages) : m <= k
    <2>1. Garbage(pages) \subseteq 1..Len(pages) /\ Len(pages) \in Nat
        BY <1>3
    <2> QED BY <2>1, LeastIs
<1>5. m \in 1..Len(pages) /\ m > last /\ last \in 1..Len(pages)
    BY <1>1, <1>2, <1>3, <1>4
<1> HIDE DEF m, last
<1>6. rest = SubSeq(pages, 1, m - 1)
    BY DEF Kept, m
<1>7. rest \in Seq(Page) /\ Len(rest) = m - 1 /\ \A k \in 1..(m - 1) : rest[k] = pages[k]
    BY <1>5, <1>6
<1>8. \A k \in Financial(pages) : k <= m - 1
    BY <1>1, <1>2, <1>5
<1> HIDE DEF rest
<1>9. Financial(rest) = Financial(pages)
    BY <1>1, <1>5, <1>7, <1>8 DEF Financial
<1>10. Garbage(rest) = {k \in 1..(m - 1) : k > last /\ rest[k].mime}
    BY <1>1, <1>7, <1>9 DEF Garbage, last
<1>11. Garbage(rest) = {}
    <2> SUFFICES ASSUME NEW k \in Garbage(rest) PROVE FALSE
        OBVIOUS
    <2>1. k \in 1..(m - 1) /\ k > last /\ pages[k].mime
        BY <1>7, <1>10
    <2>2. k \in Garbage(pages)
        BY <1>3, <1>5, <2>1
    <2> QED BY <1>4, <1>5, <2>1, <2>2
<1>12. m - 1 \in 0..Len(pages)
    BY <1>5
<1> QED
    BY <1>6, <1>7, <1>8, <1>11, <1>12 DEF rest

\* A file is stripped once: what is about to be cut, and copied, is the original.
Whole ==
    /\ disk \in [File -> Seq(Page)]
    /\ backup \in [File -> Seq(Page)]
    /\ \A f \in File :
         /\ stage[f] \in {"copy", "replace"} =>
              disk[f] = Content[f] /\ Garbage(Content[f]) # {}
         /\ stage[f] = "replace" => backup[f] = Content[f]
         /\ disk[f] # Content[f] =>
              /\ Garbage(Content[f]) # {}
              /\ disk[f] = Kept(Content[f])
              /\ backup[f] = Content[f]

\* A file goes on, and neither it nor its copy changes.
LEMMA GoesOn ==
    ASSUME Whole, Indexed, NEW f \in File, NEW to \in Stage, Moves(f, to),
           to = "copy" => Garbage(disk[f]) # {}, to # "replace", UNCHANGED <<disk, backup>>
    PROVE  Whole'
<1>1. stage'[f] = to /\ \A g \in File \ {f} : stage'[g] = stage[g]
    BY DEF Moves, Indexed
<1>2. to = "copy" => disk[f] = Content[f]
    BY Stripped, LegacyDedupAssumption DEF Whole
<1> QED
    BY <1>1, <1>2 DEF Whole

LEMMA WholeNext == Whole /\ Indexed /\ [Next]_vars => Whole'
<1> SUFFICES ASSUME Whole, Indexed, [Next]_vars PROVE Whole'
    OBVIOUS
<1>1. ASSUME NEW f \in File, Start(f)
      PROVE  Whole'
    <2>1. Scanned(f) \in {"review", "copy", "ask", "unchecked"}
        BY DEF Scanned, Unstripped
    <2>2. Scanned(f) = "copy" => Garbage(disk[f]) # {}
        BY DEF Scanned, Unstripped
    <2>3. Scanned(f) \in Stage
        BY <2>1 DEF Stage, Busy, Done
    <2>4. Moves(f, Scanned(f)) /\ UNCHANGED <<disk, backup>>
        BY <1>1 DEF Start
    <2> QED BY <2>1, <2>2, <2>3, <2>4, GoesOn
<1>2. ASSUME NEW f \in File,
             CannotOpen(f) \/ StripFails(f) \/ Ask(f) \/ AskFails(f) \/ Compare(f)
      PROVE  Whole'
    <2>1. PICK to \in {"error", "ask", "unchecked", "check", "ready", "dup"} : Moves(f, to)
        BY <1>2 DEF CannotOpen, StripFails, Ask, AskFails, Compare, Unstripped
    <2>2. UNCHANGED <<disk, backup>>
        BY <1>2 DEF CannotOpen, StripFails, Ask, AskFails, Compare
    <2>3. to \in Stage /\ to \notin {"copy", "replace"}
        BY DEF Stage, Busy, Done
    <2> QED BY <2>1, <2>2, <2>3, GoesOn
<1>3. ASSUME NEW f \in File, CopyAside(f)
      PROVE  Whole'
    <2>1. disk[f] = Content[f] /\ Garbage(Content[f]) # {}
        BY <1>3 DEF CopyAside, Whole
    <2>2. backup' \in [File -> Seq(Page)] /\ backup'[f] = Content[f]
          /\ \A g \in File \ {f} : backup'[g] = backup[g]
        BY <1>3, <2>1 DEF CopyAside, Aside, Whole
    <2>3. stage'[f] = "replace" /\ \A g \in File \ {f} : stage'[g] = stage[g]
        BY <1>3 DEF CopyAside, Moves, Indexed
    <2>4. disk' = disk
        BY <1>3 DEF CopyAside
    <2> QED BY <2>1, <2>2, <2>3, <2>4 DEF Whole
<1>4. ASSUME NEW f \in File, Replace(f)
      PROVE  Whole'
    <2>1. disk[f] = Content[f] /\ Garbage(Content[f]) # {} /\ backup[f] = Content[f]
        BY <1>4 DEF Replace, Whole
    <2>2. Kept(Content[f]) \in Seq(Page)
        BY <2>1, Stripped, LegacyDedupAssumption
    <2>3. disk' \in [File -> Seq(Page)] /\ disk'[f] = Kept(Content[f])
          /\ \A g \in File \ {f} : disk'[g] = disk[g]
        BY <1>4, <2>1, <2>2 DEF Replace, Whole
    <2>4. stage'[f] \in {"ask", "unchecked"} /\ \A g \in File \ {f} : stage'[g] = stage[g]
        BY <1>4 DEF Replace, Moves, Indexed, Unstripped
    <2>5. backup' = backup
        BY <1>4 DEF Replace
    <2> QED BY <2>1, <2>3, <2>4, <2>5 DEF Whole
<1>5. CASE RunAgain
    <2>1. \A f \in File : stage'[f] \in {"known", "queued"}
        BY <1>5 DEF RunAgain, Fresh
    <2>2. UNCHANGED <<disk, backup>>
        BY <1>5 DEF RunAgain
    <2> QED BY <2>1, <2>2 DEF Whole
<1>6. CASE EndRun \/ UNCHANGED vars
    BY <1>6 DEF EndRun, vars, Whole
<1> QED
    BY <1>1, <1>2, <1>3, <1>4, <1>5, <1>6 DEF Next, Step

LEMMA WholeInit == Init => Whole
<1> SUFFICES ASSUME Init PROVE Whole
    OBVIOUS
<1>1. \A f \in File : stage[f] \in {"known", "queued"}
    BY DEF Init, Fresh
<1>2. disk = Content /\ Content \in [File -> Seq(Page)]
    BY LegacyDedupAssumption DEF Init
<1>3. backup \in [File -> Seq(Page)]
    BY DEF Init
<1> QED
    BY <1>1, <1>2, <1>3 DEF Whole

-----------------------------------------------------------------------------
(* The pool *)

\* No more threads run than there are: only Start sets one to work, on a file that
\* waited, and every other step leaves it on its file or frees it.
Pooled == IsFiniteSet(Running) /\ Cardinality(Running) <= Workers

LEMMA FewerRun ==
    ASSUME Pooled, Running' \subseteq Running
    PROVE  Pooled'
<1>1. /\ IsFiniteSet(Running') /\ Cardinality(Running') <= Cardinality(Running)
      /\ Cardinality(Running) \in Nat /\ Cardinality(Running') \in Nat
    BY FS_Subset, FS_CardinalityType DEF Pooled
<1> QED
    BY <1>1, LegacyDedupAssumption DEF Pooled

LEMMA PooledNext == Pooled /\ Indexed /\ [Next]_vars => Pooled'
<1> SUFFICES ASSUME Pooled, Indexed, [Next]_vars PROVE Pooled'
    OBVIOUS
<1>1. ASSUME NEW f \in File, Start(f)
      PROVE  Pooled'
    <2>1. Moves(f, Scanned(f)) /\ stage[f] = "queued" /\ Cardinality(Running) < Workers
        BY <1>1 DEF Start, NextUp
    <2>2. f \notin Running /\ Running' \subseteq Running \cup {f}
        BY <2>1 DEF Running, Busy, Moves, Indexed
    <2>3. /\ IsFiniteSet(Running \cup {f})
          /\ Cardinality(Running \cup {f}) = Cardinality(Running) + 1
        BY <2>2, FS_AddElement DEF Pooled
    <2>4. IsFiniteSet(Running') /\ Cardinality(Running') <= Cardinality(Running \cup {f})
        BY <2>2, <2>3, FS_Subset
    <2>5. Cardinality(Running) \in Nat /\ Cardinality(Running') \in Nat
        BY <2>4, FS_CardinalityType DEF Pooled
    <2> QED BY <2>1, <2>3, <2>4, <2>5, LegacyDedupAssumption DEF Pooled
<1>2. ASSUME NEW f \in File, NEW to, Moves(f, to), stage[f] \in Busy \/ to \notin Busy
      PROVE  Pooled'
    <2>1. Running' \subseteq Running
        BY <1>2 DEF Running, Moves, Indexed
    <2> QED BY <2>1, FewerRun
<1>3. ASSUME NEW f \in File, CannotOpen(f)
      PROVE  Pooled'
    <2>1. Moves(f, "error") /\ "error" \notin Busy
        BY <1>3 DEF CannotOpen, Busy
    <2> QED BY <1>2, <2>1
<1>4. ASSUME NEW f \in File, CopyAside(f) \/ Replace(f) \/ StripFails(f)
      PROVE  Pooled'
    <2>1. stage[f] \in Busy /\ \E to : Moves(f, to)
        BY <1>4 DEF CopyAside, Replace, StripFails, Busy
    <2> QED BY <1>2, <2>1
<1>5. ASSUME NEW f \in File, Ask(f) \/ AskFails(f) \/ Compare(f)
      PROVE  Pooled'
    <2>1. stage[f] \in Busy /\ \E to : Moves(f, to)
        BY <1>5 DEF Ask, AskFails, Compare, Busy
    <2> QED BY <1>2, <2>1
<1>6. CASE RunAgain
    <2>1. Running' \subseteq Running
        BY <1>6 DEF RunAgain, Fresh, Running, Busy
    <2> QED BY <2>1, FewerRun
<1>7. CASE EndRun \/ UNCHANGED vars
    <2>1. Running' \subseteq Running
        BY <1>7 DEF EndRun, vars, Running
    <2> QED BY <2>1, FewerRun
<1> QED
    BY <1>1, <1>3, <1>4, <1>5, <1>6, <1>7 DEF Next, Step

-----------------------------------------------------------------------------
(* What is left of the types *)

Typed ==
    /\ DOMAIN seen \subseteq {KeyOf[n] : n \in DOMAIN KeyOf}
    /\ skip \subseteq File
    /\ ended \in BOOLEAN
    /\ faults \in 0..MaxFaults

LEMMA TypedNext == Typed /\ Indexed /\ [Next]_vars => Typed'
<1> SUFFICES ASSUME Typed, Indexed, [Next]_vars PROVE Typed'
    OBVIOUS
<1>1. MaxFaults \in Nat
    BY LegacyDedupAssumption
<1>2. ASSUME NEW f \in File, Start(f) \/ CopyAside(f) \/ Replace(f) \/ Ask(f)
      PROVE  Typed'
    BY <1>2 DEF Start, CopyAside, Replace, Ask, Typed
<1>3. ASSUME NEW f \in File, Compare(f)
      PROVE  Typed'
    <2>1. NumberOf[f] # NoNumber
        BY <1>3 DEF Compare, Indexed
    <2>2. Key(f) \in {KeyOf[n] : n \in DOMAIN KeyOf}
        BY <2>1, LegacyDedupAssumption DEF Key
    <2>3. DOMAIN seen' \subseteq DOMAIN seen \cup {Key(f)}
        <3>1. CASE Repeats(f) = {}
            BY <1>3, <3>1 DEF Compare
        <3>2. CASE Repeats(f) # {}
            BY <1>3, <3>2 DEF Compare
        <3> QED BY <3>1, <3>2
    <2>4. UNCHANGED <<skip, ended, faults>>
        BY <1>3 DEF Compare
    <2> QED BY <2>2, <2>3, <2>4 DEF Typed
<1>4. ASSUME NEW f \in File, CannotOpen(f) \/ StripFails(f) \/ AskFails(f)
      PROVE  Typed'
    BY <1>1, <1>4 DEF CannotOpen, StripFails, AskFails, Fault, Typed
<1>5. CASE EndRun
    BY <1>5 DEF EndRun, Typed
<1>6. CASE RunAgain
    <2>1. DOMAIN seen' = {}
        BY <1>6 DEF RunAgain
    <2>2. skip' = skip /\ ended' = FALSE /\ faults' \in 0..MaxFaults
        BY <1>1, <1>6 DEF RunAgain, Fault, Typed
    <2> QED BY <2>1, <2>2 DEF Typed
<1>7. CASE UNCHANGED vars
    BY <1>7 DEF vars, Typed
<1> QED
    BY <1>2, <1>3, <1>4, <1>5, <1>6, <1>7 DEF Next, Step

-----------------------------------------------------------------------------
(* Theorems *)

\* Every variable keeps its type, and however files are handed out no more threads
\* are at work than the pool has (main, process).
THEOREM TypeCorrect == Spec => []TypeOK
<1>1. Init => Typed /\ Pooled
    <2> SUFFICES ASSUME Init PROVE Typed /\ Pooled
        OBVIOUS
    <2>1. Running = {}
        BY DEF Init, Fresh, Running, Busy
    <2>2. Pooled
        BY <2>1, FS_EmptySet, LegacyDedupAssumption DEF Pooled
    <2>3. DOMAIN seen = {}
        BY DEF Init
    <2>4. skip = {} /\ ended = FALSE /\ faults = 0 /\ MaxFaults \in Nat
        BY LegacyDedupAssumption DEF Init
    <2>5. skip \subseteq File /\ faults \in 0..MaxFaults
        BY <2>4
    <2>6. ended \in BOOLEAN
        BY Zenon DEF Init
    <2>7. Typed
        BY <2>3, <2>5, <2>6 DEF Typed
    <2> QED BY <2>2, <2>7
<1>2. Typed /\ Pooled /\ Indexed /\ Whole => TypeOK
    <2> SUFFICES ASSUME Typed, Pooled, Indexed, Whole PROVE TypeOK
        OBVIOUS
    <2>1. Cardinality({f \in File : stage[f] \in Busy}) <= Workers
        BY DEF Pooled, Running
    <2>2. stage \in [File -> {"queued"} \cup Busy \cup Done]
        BY DEF Indexed, Stage
    <2> QED BY <2>1, <2>2 DEF TypeOK, Typed, Indexed, Whole
<1> QED
    BY <1>1, <1>2, TypedNext, PooledNext, WholeInit, WholeNext, Indexing, PTL DEF Spec

\* However often the run is killed between the copy and the cutting, no page with
\* financial words is lost and the copy is the original (strip_pages).
THEOREM PagesAreKept == Spec => []PagesKept
<1>1. Whole => PagesKept
    <2> SUFFICES ASSUME Whole, NEW f \in File
                 PROVE  /\ \E n \in 0..Len(Content[f]) :
                             /\ disk[f] = SubSeq(Content[f], 1, n)
                             /\ \A k \in Financial(Content[f]) : k <= n
                        /\ disk[f] # Content[f] => backup[f] = Content[f]
        BY DEF PagesKept
    <2>1. Content[f] \in Seq(Page) /\ Len(Content[f]) \in Nat
        BY LegacyDedupAssumption
    <2>2. CASE disk[f] = Content[f]
        <3>1. Content[f] = SubSeq(Content[f], 1, Len(Content[f]))
            BY <2>1
        <3>2. \A k \in Financial(Content[f]) : k <= Len(Content[f])
            BY <2>1 DEF Financial
        <3> QED BY <2>1, <2>2, <3>1, <3>2
    <2>3. CASE disk[f] # Content[f]
        BY <2>1, <2>3, Stripped DEF Whole
    <2> QED BY <2>2, <2>3
<1> QED
    BY <1>1, WholeInit, WholeNext, Indexing, PTL DEF Spec

\* However many threads compare, and in whatever order, at most one file of each
\* number is extracted (process, under the lock).
THEOREM OneIsExtracted == Spec => []OneOfEachNumber
<1>1. Indexed => OneOfEachNumber
    BY DEF Indexed, OneOfEachNumber, Key
<1> QED
    BY <1>1, Indexing, PTL

\* What is skipped as a duplicate is in the database under its number and its total,
\* or another file of its number is extracted (process, is_duplicate).
THEOREM DuplicatesHaveOriginals == Spec => []DuplicateHasOriginal
<1>1. Indexed => DuplicateHasOriginal
    <2> SUFFICES ASSUME Indexed, NEW f \in File, stage[f] = "dup"
                 PROVE  \/ \E r \in Rows : /\ r.success
                                          /\ r.file = original[f]
                                          /\ r.number = NumberOf[f]
                                          /\ Near(r.total, TotalOf[f])
                        \/ /\ original[f] \in File \ {f}
                           /\ stage[original[f]] = "ready"
                           /\ KeyOf[NumberOf[original[f]]] = KeyOf[NumberOf[f]]
        BY DEF DuplicateHasOriginal
    <2>1. CASE InDb(f, original[f])
        BY <2>1 DEF InDb
    <2>2. CASE Key(f) \in DOMAIN seen /\ seen[Key(f)] = original[f] /\ original[f] # f
        BY <2>2 DEF Indexed, Key
    <2> QED BY <2>1, <2>2 DEF Indexed
<1> QED
    BY <1>1, Indexing, PTL
=============================================================================
