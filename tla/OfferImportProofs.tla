------------------------- MODULE OfferImportProofs -------------------------
(***************************************************************************)
(* Theorems about OfferImport, for any names, EANs, costs and bounds.      *)
(***************************************************************************)
EXTENDS OfferImport, FiniteSetTheorems, WellFoundedInduction, TLAPS

-----------------------------------------------------------------------------
(* The invariant *)

\* Ids drawn by the imports so far: each row of an offer draws at most one.
Drawn == IF pc = "ready" THEN (nextBatch - 1) * MaxRows
                         ELSE (nextBatch - 2) * MaxRows + RowsDone(tx.tally)

TallyBound(t) == RowsDone(t) <= MaxRows /\ t.costed <= t.created + t.updated

\* The ids, the batches and the tallies stay within their bounds.
Counters ==
    /\ nextId \in 1..(1 + edits + Drawn)
    /\ nextBatch \in 1..(MaxImports + 1)
    /\ pc = "import" => nextBatch > 1
    /\ TallyBound(tx.tally)
    /\ TallyBound(preview.tally)
    /\ RowsDone(preview.tally) = RowsDone(tx.tally)

Typed == TypeOK /\ Counters

\* What is true of the committed tables, and of those an import sees: `next` is
\* the next id, `t` the history of versions.
Keyed(ps, next) ==
    /\ \A p \in ps : p.id < next
    /\ \A p, q \in ps : p.id = q.id => p = q
    /\ \A p, q \in ps : p.ean = q.ean /\ p.ean # NoEan => p = q

Versioned(cs, next) ==
    /\ IsFiniteSet(cs)
    /\ \A c \in cs : c.product < next
    /\ \A c, d \in cs : c.product = d.product /\ c.version = d.version => c = d

Newest(cs, i, t) == Higher(LastVersion(cs, i), t[i])

\* An import's price on a product is the one of its newest costing.
Followed(ps, cs, t) ==
    \A p \in ps, c \in cs :
        /\ p.origin = "auto" /\ p.price # NoPrice
        /\ c.product = p.id /\ c.version = Newest(cs, p.id, t) /\ c.offer # 0
        => c.price = p.price

Catalogue(ps, cs) == Keyed(ps, nextId) /\ Versioned(cs, nextId) /\ Followed(ps, cs, top)

\* What an import may do to the products it found committed.
Kept(p, q) ==
    /\ q.id = p.id
    /\ p.ean # NoEan => q.ean # NoEan
    /\ p.origin = "human" => q.price = p.price /\ q.origin = "human"

KeptSoFar == pc = "import" => \A p \in products : \E q \in tx.products : Kept(p, q)

Inv ==
    /\ Typed
    /\ Catalogue(products, costings)
    /\ Catalogue(tx.products, tx.costings)
    /\ \A i \in Id : LastVersion(costings, i) <= top[i]
    /\ KeptSoFar

-----------------------------------------------------------------------------
(* Versions *)

\* A finite set of numbers has a greatest: among the sets of what is not below
\* one of its members there is a least.
LEMMA Greatest ==
    ASSUME NEW V, V \subseteq Nat, V # {}, IsFiniteSet(V)
    PROVE  \E v \in V : \A w \in V : w <= v
<1> DEFINE Up(v) == {w \in V : v <= w}
           R == StrictSubsetOrdering(V)
           T == {Up(v) : v \in V}
<1>1. IsWellFoundedOn(R, SUBSET V)
    <2>1. FiniteSubsetsOf(V) = SUBSET V
        BY FS_FiniteSubsetsOfFinite
    <2>2. IsWellFoundedOn(R, FiniteSubsetsOf(V))
        BY FS_StrictSubsetOrderingWellFounded
    <2> HIDE DEF R
    <2> QED BY <2>1, <2>2, Zenon
<1>2. T \subseteq SUBSET V /\ T # {}
    OBVIOUS
<1>3. PICK u \in T : \A t \in T : <<t, u>> \notin R
    <2> HIDE DEF R, T
    <2> QED BY <1>1, <1>2, WFMin, Zenon
<1>4. PICK v \in V : u = Up(v)
    BY <1>3
<1>5. SUFFICES ASSUME NEW w \in V, ~(w <= v) PROVE FALSE
    OBVIOUS
<1>6. v \in Nat /\ w \in Nat /\ v < w
    BY <1>5
<1>7. \A x \in V : w <= x => v <= x
    BY <1>6
<1>8. v \in Up(v)
    BY <1>6
<1>9. v \notin Up(w)
    BY <1>6
<1>10. Up(w) \subseteq Up(v)
    BY <1>7, Zenon
<1>11. <<Up(w), Up(v)>> \in R
    BY <1>8, <1>9, <1>10 DEF StrictSubsetOrdering
<1> QED
    BY <1>3, <1>4, <1>11

Versions(cs, i) == {c.version : c \in {d \in cs : d.product = i}} \cup {0}

\* The last version is the greatest there is, and 0 where there is none.
LEMMA LastIsGreatest ==
    ASSUME NEW cs, cs \subseteq Costing, IsFiniteSet(cs), NEW i
    PROVE  /\ LastVersion(cs, i) \in Nat
           /\ LastVersion(cs, i) \in Versions(cs, i)
           /\ \A c \in cs : c.product = i => c.version <= LastVersion(cs, i)
<1> DEFINE D == {d \in cs : d.product = i}
           V == {c.version : c \in D}
           f == [c \in D |-> c.version]
<1>1. IsFiniteSet(D)
    BY FS_Subset
<1>2. f \in Surjection(D, V)
    BY DEF Surjection
<1>3. IsFiniteSet(V)
    <2> HIDE DEF f, D, V
    <2> QED BY <1>1, <1>2, FS_Surjection, Zenon
<1>4. IsFiniteSet(V \cup {0})
    <2> HIDE DEF V
    <2> QED BY <1>3, FS_AddElement
<1>5. V \cup {0} \subseteq Nat
    BY DEF Costing
<1>6. \E v \in V \cup {0} : \A w \in V \cup {0} : w <= v
    <2> HIDE DEF V
    <2> QED BY <1>4, <1>5, Greatest
<1>7. LastVersion(cs, i) \in V \cup {0} /\ \A w \in V \cup {0} : w <= LastVersion(cs, i)
    BY <1>6 DEF LastVersion
<1> QED
    BY <1>5, <1>7 DEF Versions


LEMMA LastIs ==
    ASSUME NEW cs, cs \subseteq Costing, IsFiniteSet(cs), NEW i, NEW v \in Versions(cs, i),
           \A c \in cs : c.product = i => c.version <= v
    PROVE  LastVersion(cs, i) = v
<1>1. v \in Nat
    BY DEF Versions, Costing
<1>2. LastVersion(cs, i) \in Nat /\ LastVersion(cs, i) \in Versions(cs, i)
    BY LastIsGreatest
<1>3. v <= LastVersion(cs, i)
    BY <1>2, LastIsGreatest DEF Versions
<1>4. LastVersion(cs, i) <= v
    BY <1>1, <1>2 DEF Versions
<1> QED
    BY <1>1, <1>2, <1>3, <1>4

\* A costing added under the next version is the newest of its product, and
\* changes nothing for the others.
LEMMA VersionAdded ==
    ASSUME NEW cs, cs \subseteq Costing, NEW next, Versioned(cs, next), NEW c \in Costing,
           c.version = NextVersion(cs, c.product)
    PROVE  /\ IsFiniteSet(cs \cup {c})
           /\ LastVersion(cs \cup {c}, c.product) = c.version
           /\ \A i : i # c.product => LastVersion(cs \cup {c}, i) = LastVersion(cs, i)
           /\ \A d \in cs : d.product = c.product => d.version < c.version
<1>1. IsFiniteSet(cs)
    BY DEF Versioned
<1>2. IsFiniteSet(cs \cup {c}) /\ cs \cup {c} \subseteq Costing
    BY <1>1, FS_AddElement
<1>3. LastVersion(cs, c.product) \in Nat
    BY <1>1, LastIsGreatest
<1>4. \A d \in cs : d.product = c.product => d.version < c.version
    <2> SUFFICES ASSUME NEW d \in cs, d.product = c.product PROVE d.version < c.version
        OBVIOUS
    <2>1. d.version <= LastVersion(cs, c.product)
        BY <1>1, LastIsGreatest
    <2>2. d.version \in Nat
        BY DEF Costing
    <2> QED BY <1>3, <2>1, <2>2 DEF NextVersion
<1>5. LastVersion(cs \cup {c}, c.product) = c.version
    <2>1. c.version \in Versions(cs \cup {c}, c.product)
        BY DEF Versions
    <2>2. \A d \in cs \cup {c} : d.product = c.product => d.version <= c.version
        BY <1>2, <1>4 DEF Costing
    <2> QED BY <1>2, <2>1, <2>2, LastIs
<1>6. ASSUME NEW i, i # c.product
      PROVE  LastVersion(cs \cup {c}, i) = LastVersion(cs, i)
    <2>1. LastVersion(cs, i) \in Versions(cs \cup {c}, i)
        BY <1>1, LastIsGreatest DEF Versions
    <2>2. \A d \in cs \cup {c} : d.product = i => d.version <= LastVersion(cs, i)
        BY <1>1, <1>6, LastIsGreatest
    <2> QED BY <1>2, <2>1, <2>2, LastIs
<1> QED
    BY <1>2, <1>4, <1>5, <1>6

-----------------------------------------------------------------------------
(* A row of an import *)

LEMMA FoundIsOne ==
    ASSUME NEW ps, ps \subseteq Product, Keyed(ps, nextId), NEW n, NEW e
    PROVE  \/ FindByKey(ps, n, e) = {} /\ WithEan(ps, e) = {}
           \/ \E p \in ps : /\ FindByKey(ps, n, e) = {p}
                            /\ WithEan(ps, e) \subseteq {p}
<1>1. \A p \in ps : p.id \in Nat
    BY DEF Product, Id
<1>2. CASE WithEan(ps, e) # {}
    <2> PICK p \in WithEan(ps, e) : TRUE
        BY <1>2
    <2> WithEan(ps, e) = {p} /\ p \in ps
        BY DEF WithEan, Keyed
    <2> QED BY <1>2 DEF FindByKey
<1>3. CASE WithEan(ps, e) = {} /\ FirstNamed(ps, n) # {}
    <2> PICK p \in FirstNamed(ps, n) : TRUE
        BY <1>3
    <2>1. ASSUME NEW q \in FirstNamed(ps, n) PROVE q = p
        <3>1. p.id <= q.id /\ q.id <= p.id /\ p \in ps /\ q \in ps
            BY DEF FirstNamed
        <3> QED BY <1>1, <3>1 DEF Keyed
    <2> FirstNamed(ps, n) = {p} /\ p \in ps
        BY <2>1 DEF FirstNamed
    <2> QED BY <1>3 DEF FindByKey
<1> QED
    BY <1>2, <1>3 DEF FindByKey

\* What an import makes of a row: product `s` in the place of `old`, and maybe
\* a costing.
RowStored(ps, row, old, s, price) ==
    \/ /\ old = {}
       /\ WithEan(ps, row.ean) = {}
       /\ s = [id |-> nextId, name |-> row.name, ean |-> row.ean, price |-> price,
               origin |-> "auto"]
       /\ nextId' = nextId + 1
    \/ \E p \in ps :
          /\ old = {p}
          /\ WithEan(ps, row.ean) \subseteq {p}
          /\ s = [id |-> p.id, name |-> row.name,
                  ean |-> IF row.ean = NoEan THEN p.ean ELSE row.ean,
                  price |-> IF p.origin = "human" THEN p.price ELSE price,
                  origin |-> p.origin]
          /\ nextId' = nextId

RowCosted(cs, row, s, price) ==
    [product |-> s.id, version |-> NextVersion(cs, s.id), offer |-> nextBatch - 1,
     price |-> price]

\* EXCEPT on several fields of a product, written out.
LEMMA RowRewritten ==
    ASSUME NEW p \in Product, NEW n, NEW e, NEW x
    PROVE  [p EXCEPT !.name = n, !.ean = e, !.price = x]
             = [id |-> p.id, name |-> n, ean |-> e, price |-> x, origin |-> p.origin]
<1> DEFINE r == [id |-> p.id, name |-> n, ean |-> p.ean, price |-> p.price,
                 origin |-> p.origin]
           s == [id |-> p.id, name |-> n, ean |-> e, price |-> p.price,
                 origin |-> p.origin]
<1>1. [p EXCEPT !.name = n] = r
    BY DEF Product
<1>2. [r EXCEPT !.ean = e] = s
    OBVIOUS
<1>3. [s EXCEPT !.price = x]
        = [id |-> p.id, name |-> n, ean |-> e, price |-> x, origin |-> p.origin]
    OBVIOUS
<1>4. [p EXCEPT !.name = n, !.ean = e, !.price = x]
        = [[[p EXCEPT !.name = n] EXCEPT !.ean = e] EXCEPT !.price = x]
    BY DEF Product
<1> HIDE DEF r, s
<1> QED
    BY <1>1, <1>2, <1>3, <1>4, Zenon

LEMMA PriceTyped ==
    ASSUME NEW row \in OfferRow, NEW found, found \subseteq Product
    PROVE  SellingPrice(row, found) \in Price \cup {NoPrice}
<1>1. CASE row.cost = NoCost
    BY <1>1 DEF SellingPrice
<1>2. CASE row.cost # NoCost
    <2>1. TargetOf[row.cost] \in Price
        BY <1>2 DEF OfferRow, Price
    <2>2. \A p \in found : p.price \in Price \cup {NoPrice}
        BY DEF Product
    <2>3. CASE \E p \in found : p.origin = "human" /\ p.price # NoPrice
        <3>1. (CHOOSE p \in found : TRUE) \in found
            BY <2>3
        <3> QED BY <1>2, <2>2, <2>3, <3>1 DEF SellingPrice
    <2>4. CASE ~ \E p \in found : p.origin = "human" /\ p.price # NoPrice
        BY <1>2, <2>1, <2>4 DEF SellingPrice
    <2> QED BY <2>3, <2>4
<1> QED BY <1>1, <1>2

LEMMA RowImported ==
    ASSUME Typed, Keyed(tx.products, nextId), NEW row \in OfferRow, ImportRow(row)
    PROVE  \E old, s : \E price \in Price \cup {NoPrice} :
              /\ RowStored(tx.products, row, old, s, price)
              /\ old = FindByKey(tx.products, row.name, row.ean)
              /\ \/ s.origin = "human"
                 \/ price = s.price
              /\ price = SellingPrice(row, old)
              /\ row.cost = NoCost => price = NoPrice
              /\ tx' = [products |-> (tx.products \ old) \cup {s},
                        costings |-> tx.costings \cup
                           (IF row.cost # NoCost
                              THEN {RowCosted(tx.costings, row, s, price)} ELSE {}),
                        tally |-> Counted(tx.tally, old = {}, row.cost # NoCost),
                        report |-> Reported(old = {}, price)]
<1> DEFINE old == FindByKey(tx.products, row.name, row.ean)
           price == SellingPrice(row, old)
           stored == Upserted(row, old, price)
           id == (CHOOSE p \in stored : TRUE).id
<1>1. tx.products \subseteq Product
    BY DEF Typed, TypeOK, Transaction, Preview
<1>2. \/ old = {} /\ WithEan(tx.products, row.ean) = {}
      \/ \E p \in tx.products : old = {p} /\ WithEan(tx.products, row.ean) \subseteq {p}
    BY <1>1, FoundIsOne
<1>3. price \in Price \cup {NoPrice}
    <2>1. old \subseteq Product
        BY <1>1 DEF FindByKey, WithEan, FirstNamed
    <2> HIDE DEF old
    <2> QED BY <2>1, PriceTyped
<1>4. \E s : /\ RowStored(tx.products, row, old, s, price)
             /\ stored = {s}
             /\ s.origin = "human" \/ price = s.price
    <2>1. CASE old = {}
        <3> DEFINE s == [id |-> nextId, name |-> row.name, ean |-> row.ean,
                         price |-> price, origin |-> "auto"]
        <3>1. stored = {s}
            <4> HIDE DEF old, price
            <4> QED BY <2>1 DEF Upserted
        <3>2. nextId' = nextId + 1
            BY <2>1 DEF ImportRow
        <3>3. WithEan(tx.products, row.ean) = {}
            BY <1>2, <2>1
        <3>4. s.price = price
            OBVIOUS
        <3> HIDE DEF old, price, stored
        <3> QED BY <2>1, <3>1, <3>2, <3>3, <3>4 DEF RowStored
    <2>2. CASE \E p \in tx.products : old = {p} /\ WithEan(tx.products, row.ean) \subseteq {p}
        <3> PICK p \in tx.products : old = {p} /\ WithEan(tx.products, row.ean) \subseteq {p}
            BY <2>2
        <3> DEFINE ean == IF row.ean = NoEan THEN p.ean ELSE row.ean
                   paid == IF p.origin = "human" THEN p.price ELSE price
                   s == [id |-> p.id, name |-> row.name, ean |-> ean, price |-> paid,
                         origin |-> p.origin]
                   t == [p EXCEPT !.name = row.name, !.ean = ean, !.price = paid]
        <3>1. stored = {s}
            <4>1. p \in Product
                BY <1>1
            <4>2. t = s
                <5> HIDE DEF ean, paid
                <5> QED BY <4>1, RowRewritten, Zenon
            <4>3. stored = {t}
                <5> HIDE DEF old, price
                <5> QED BY <2>2, Zenon DEF Upserted
            <4> QED BY <4>2, <4>3
        <3>2. nextId' = nextId
            BY <2>2 DEF ImportRow
        <3>3. s.origin = "human" \/ s.price = price
            OBVIOUS
        <3>4. RowStored(tx.products, row, old, s, price)
            <4> HIDE DEF old, price, stored
            <4> QED BY <2>2, <3>2 DEF RowStored
        <3> HIDE DEF old, price, stored, s
        <3> QED BY <3>1, <3>3, <3>4
    <2> QED BY <1>2, <2>1, <2>2
<1>5. PICK s : /\ RowStored(tx.products, row, old, s, price)
               /\ stored = {s}
               /\ s.origin = "human" \/ price = s.price
    BY <1>4
<1>6. id = s.id
    BY <1>5
<1>7. tx' = [products |-> (tx.products \ old) \cup stored,
             costings |-> tx.costings \cup
                (IF row.cost # NoCost
                   THEN {[product |-> id, version |-> NextVersion(tx.costings, id),
                          offer |-> nextBatch - 1, price |-> price]} ELSE {}),
             tally |-> Counted(tx.tally, old = {}, row.cost # NoCost),
             report |-> Reported(old = {}, price)]
    BY DEF ImportRow
<1>8. row.cost = NoCost => price = NoPrice
    BY DEF SellingPrice
<1>10. price = SellingPrice(row, old)
    OBVIOUS
<1> HIDE DEF old, price, stored, id
<1>9. old = FindByKey(tx.products, row.name, row.ean)
    BY DEF old
<1>11. tx' = [products |-> (tx.products \ old) \cup {s},
              costings |-> tx.costings \cup
                 (IF row.cost # NoCost
                    THEN {RowCosted(tx.costings, row, s, price)} ELSE {}),
              tally |-> Counted(tx.tally, old = {}, row.cost # NoCost),
              report |-> Reported(old = {}, price)]
    BY <1>5, <1>6, <1>7, Zenon DEF RowCosted
<1> QED
    BY <1>3, <1>5, <1>8, <1>9, <1>10, <1>11, Zenon

-----------------------------------------------------------------------------
(* Types and counters *)

LEMMA Batches ==
    ASSUME NEW b \in 1..(MaxImports + 1)
    PROVE  /\ (b - 1) * MaxRows \in Nat
           /\ (b - 1) * MaxRows <= MaxImports * MaxRows
           /\ b > 1 => /\ (b - 2) * MaxRows \in Nat
                       /\ (b - 1) * MaxRows = (b - 2) * MaxRows + MaxRows
<1> MaxImports \in Nat /\ MaxRows \in Nat
    BY OfferImportAssumption
<1>1. (b - 1) * MaxRows \in Nat /\ (b - 1) * MaxRows <= MaxImports * MaxRows
    <2>1. \A x, y \in Nat : x * y \in Nat
        OBVIOUS
    <2>2. \A x, y, z \in Nat : (x + z) * y = x * y + z * y
        OBVIOUS
    <2>3. b - 1 \in Nat /\ MaxImports - (b - 1) \in Nat
            /\ (b - 1) + (MaxImports - (b - 1)) = MaxImports
        OBVIOUS
    <2>4. MaxImports * MaxRows
            = (b - 1) * MaxRows + (MaxImports - (b - 1)) * MaxRows
        BY <2>2, <2>3
    <2>5. (b - 1) * MaxRows \in Nat /\ (MaxImports - (b - 1)) * MaxRows \in Nat
        BY <2>1, <2>3
    <2>6. \A k, m, n \in Nat : k = m + n => m <= k
        OBVIOUS
    <2>7. MaxImports * MaxRows \in Nat
        BY <2>1
    <2> QED BY <2>4, <2>5, <2>6, <2>7
<1>2. ASSUME b > 1 PROVE (b - 2) * MaxRows \in Nat
                         /\ (b - 1) * MaxRows = (b - 2) * MaxRows + MaxRows
    <2>1. PICK k \in Nat : b = k + 2
        <3> b - 2 \in Nat /\ b = (b - 2) + 2
            BY <1>2
        <3> QED OBVIOUS
    <2>2. b - 1 = k + 1 /\ b - 2 = k
        BY <2>1
    <2>3. (k + 1) * MaxRows = k * MaxRows + MaxRows /\ k * MaxRows \in Nat
        OBVIOUS
    <2> QED BY <2>2, <2>3
<1> QED
    BY <1>1, <1>2

\* There is an id left for every product that may still be created.
LEMMA IdLeft ==
    ASSUME Typed, \/ pc = "ready" /\ edits < MaxEdits
                  \/ pc = "import" /\ RowsDone(tx.tally) < MaxRows
    PROVE  nextId \in Id
<1> MaxImports \in Nat /\ MaxRows \in Nat /\ MaxEdits \in Nat
    BY OfferImportAssumption
<1> DEFINE full == MaxImports * MaxRows
           before == (nextBatch - 1) * MaxRows
           earlier == (nextBatch - 2) * MaxRows
<1>1. nextBatch \in 1..(MaxImports + 1) /\ (pc = "import" => nextBatch > 1)
    BY DEF Typed, Counters
<1>2. before \in Nat /\ before <= full /\ full \in Nat
    BY <1>1, Batches
<1>3. nextBatch > 1 => earlier \in Nat /\ before = earlier + MaxRows
    BY <1>1, Batches
<1>4. RowsDone(tx.tally) \in Nat
    BY DEF Typed, TypeOK, Transaction, Preview, Tallies, Tally, RowsDone
<1>5. edits \in 0..MaxEdits
    BY DEF Typed, TypeOK
<1>6. nextId \in 1..(1 + edits + IF pc = "ready" THEN before ELSE earlier + RowsDone(tx.tally))
    BY DEF Typed, Counters, Drawn
<1>7. Id = 1..(full + MaxEdits)
    BY DEF Id
<1> HIDE DEF full, before, earlier
<1> QED
    BY <1>1, <1>2, <1>3, <1>4, <1>5, <1>6, <1>7

LEMMA SkippedTyped == SkippedRow \in Report
BY DEF SkippedRow, Report

LEMMA InitTyped == Init => Typed
<1> SUFFICES ASSUME Init PROVE Typed
    OBVIOUS
<1> MaxImports \in Nat /\ MaxRows \in Nat /\ MaxEdits \in Nat
    BY OfferImportAssumption
<1>1. NoTallies \in Tallies /\ RowsDone(NoTallies) = 0 /\ TallyBound(NoTallies)
    BY DEF NoTallies, Tallies, Tally, RowsDone, TallyBound
<1>2. NoTx \in Transaction
    BY <1>1, SkippedTyped DEF NoTx, Transaction
<1>3. NoPreview \in Preview
    BY <1>1, SkippedTyped DEF NoPreview, Preview
<1>4. TypeOK
    BY <1>2, <1>3 DEF Init, TypeOK
<1>5. NoTx.tally = NoTallies /\ NoPreview.tally = NoTallies
    BY DEF NoTx, NoPreview
<1>6. Drawn = 0
    <2>1. (1 - 1) * MaxRows = 0
        OBVIOUS
    <2> QED BY <2>1 DEF Init, Drawn
<1>7. Counters
    BY <1>1, <1>5, <1>6 DEF Init, Counters
<1> QED
    BY <1>4, <1>7 DEF Typed

\* The ids and the batches stay in bounds whatever the step does to the rows.
LEMMA DrawnKept ==
    ASSUME Typed, UNCHANGED <<nextBatch, pc>>, RowsDone(tx.tally)' \in Nat,
           edits' \in Nat, nextId' \in Nat, nextId <= nextId',
           \/ pc = "ready" /\ nextId' + edits <= nextId + edits'
           \/ /\ pc = "import"
              /\ nextId' + RowsDone(tx.tally) <= nextId + RowsDone(tx.tally)'
              /\ edits' = edits
    PROVE  nextId' \in 1..(1 + edits' + Drawn')
<1> MaxImports \in Nat /\ MaxRows \in Nat /\ MaxEdits \in Nat
    BY OfferImportAssumption
<1> DEFINE before == (nextBatch - 1) * MaxRows
           earlier == (nextBatch - 2) * MaxRows
           done == RowsDone(tx.tally)
<1>1. nextBatch \in 1..(MaxImports + 1) /\ (pc = "import" => nextBatch > 1)
    BY DEF Typed, Counters
<1>2. before \in Nat
    BY <1>1, Batches
<1>3. pc = "import" => earlier \in Nat
    BY <1>1, Batches
<1>4. done \in Nat
    BY DEF Typed, TypeOK, Transaction, Preview, Tallies, Tally, RowsDone
<1>5. edits \in 0..MaxEdits /\ pc \in {"ready", "import"}
    BY DEF Typed, TypeOK
<1>6. Drawn = IF pc = "ready" THEN before ELSE earlier + done
    BY DEF Drawn
<1>7. Drawn' = IF pc = "ready" THEN before ELSE earlier + RowsDone(tx.tally)'
    BY DEF Drawn
<1>8. nextId \in 1..(1 + edits + Drawn) /\ MaxEdits \in Nat
    BY DEF Typed, Counters
<1> HIDE DEF before, earlier, done
<1>9. CASE pc = "ready"
    <2>1. nextId' + edits <= nextId + edits' /\ edits \in Nat
        BY <1>5, <1>9
    <2>2. Drawn = before /\ Drawn' = before
        BY <1>6, <1>7, <1>9
    <2>3. nextId \in 1..(1 + edits + before)
        BY <1>8, <2>2
    <2>4. nextId' \in 1..(1 + edits' + before)
        <3>1. \A i, j, x, y, b \in Nat :
                i \in 1..(1 + x + b) /\ i <= j /\ j + x <= i + y => j \in 1..(1 + y + b)
            OBVIOUS
        <3>2. nextId \in Nat
            BY <1>8
        <3> QED BY <1>2, <2>1, <2>3, <3>1, <3>2
    <2> QED BY <2>2, <2>4
<1>10. CASE pc = "import"
    <2>1. nextId' + done <= nextId + RowsDone(tx.tally)' /\ edits \in Nat /\ edits' = edits
        BY <1>5, <1>10 DEF done
    <2>2. Drawn = earlier + done /\ Drawn' = earlier + RowsDone(tx.tally)'
        BY <1>6, <1>7, <1>10
    <2>3. nextId \in 1..(1 + edits + (earlier + done))
        BY <1>8, <2>2
    <2>4. \A i, j, x, k, d, e \in Nat :
            i \in 1..(1 + x + (k + d)) /\ i <= j /\ j + d <= i + e => j \in 1..(1 + x + (k + e))
        OBVIOUS
    <2>5. nextId \in Nat /\ earlier \in Nat
        BY <1>3, <1>8, <1>10
    <2>6. nextId' \in 1..(1 + edits + (earlier + RowsDone(tx.tally)'))
        BY <1>4, <2>1, <2>3, <2>4, <2>5
    <2> QED BY <2>1, <2>2, <2>6
<1> QED
    BY <1>5, <1>9, <1>10


LEMMA TypedEdit ==
    ASSUME Typed, Edit, UNCHANGED <<imports, nextBatch, pc, tx, preview>>,
           products' \in SUBSET Product, costings' \in SUBSET Costing, top' \in [Id -> Nat],
           nextId' \in Nat, nextId <= nextId', nextId' <= nextId + 1
    PROVE  Typed'
<1>1. edits \in 0..MaxEdits /\ MaxEdits \in Nat /\ edits' \in 0..MaxEdits /\ edits' = edits + 1
    BY OfferImportAssumption DEF Typed, TypeOK, Edit
<1>2. TypeOK'
    BY <1>1 DEF Typed, TypeOK
<1>3. nextId' \in 1..(1 + edits' + Drawn')
    <2>1. RowsDone(tx.tally)' \in Nat
        BY DEF Typed, TypeOK, Transaction, Preview, Tallies, Tally, RowsDone
    <2>2. nextId \in Nat
        BY DEF Typed, TypeOK
    <2>3. pc = "ready" /\ nextId' + edits <= nextId + edits'
        <3>1. \A i, j, x \in Nat : j <= i + 1 => j + x <= i + (x + 1)
            OBVIOUS
        <3>2. edits \in Nat
            BY <1>1
        <3>3. nextId' + edits <= nextId + (edits + 1)
            BY <2>2, <3>1, <3>2
        <3> QED BY <1>1, <3>3 DEF Edit
    <2>4. edits' \in Nat
        BY <1>1
    <2> QED BY <2>1, <2>3, <2>4, DrawnKept
<1>4. Counters'
    BY <1>3 DEF Typed, Counters, TallyBound, RowsDone
<1> QED
    BY <1>2, <1>4 DEF Typed

LEMMA SaveProductTyped ==
    ASSUME Typed, NEW n \in Name, NEW e \in Ean \cup {NoEan}, NEW price \in Price \cup {NoPrice},
           NEW target, target = {} \/ \E p \in products : target = {p},
           SaveProduct(n, e, price, target)
    PROVE  Typed'
<1>1. products \in SUBSET Product /\ costings \in SUBSET Costing /\ top \in [Id -> Nat]
        /\ nextId \in Nat
    BY DEF Typed, TypeOK
<1>2. Edit /\ UNCHANGED <<imports, nextBatch, pc, tx, preview, costings, top>>
        /\ nextId' = IF target = {} THEN nextId + 1 ELSE nextId
    BY DEF SaveProduct
<1>3. nextId \in Id
    BY <1>2, IdLeft DEF Edit
<1>4. (IF target = {} THEN nextId ELSE (CHOOSE p \in target : TRUE).id) \in Id
    BY <1>1, <1>3 DEF Product
<1>5. products' \in SUBSET Product
    BY <1>1, <1>4 DEF SaveProduct, Product
<1> QED
    BY <1>1, <1>2, <1>5, TypedEdit

LEMMA SaveCostingTyped ==
    ASSUME Typed, IsFiniteSet(costings), NEW p \in products, NEW price \in AdminPrice,
           SaveCosting(p, price)
    PROVE  /\ Typed'
           /\ \E c \in Costing :
                 /\ c = [product |-> p.id, version |-> NextVersion(costings, p.id),
                         offer |-> 0, price |-> price]
                 /\ costings' = costings \cup {c}
                 /\ top' = [top EXCEPT ![p.id] = Higher(c.version, @)]
<1>1. p \in Product /\ costings \in SUBSET Costing /\ top \in [Id -> Nat]
        /\ nextId \in Nat /\ products \in SUBSET Product
    BY DEF Typed, TypeOK
<1>2. Edit /\ UNCHANGED <<imports, nextBatch, pc, tx, preview, products, nextId>>
    BY DEF SaveCosting
<1>3. NextVersion(costings, p.id) \in Nat
    BY <1>1, LastIsGreatest DEF NextVersion
<1> DEFINE c == [product |-> p.id, version |-> NextVersion(costings, p.id), offer |-> 0,
                 price |-> price]
<1>4. c \in Costing
    BY <1>1, <1>3 DEF Costing, Product, Price
<1>5. costings' = costings \cup {c} /\ top' = [top EXCEPT ![p.id] = Higher(c.version, @)]
    BY DEF SaveCosting
<1>6. top' \in [Id -> Nat]
    BY <1>1, <1>3, <1>5 DEF Higher, Product
<1>7. Typed'
    BY <1>1, <1>2, <1>4, <1>5, <1>6, TypedEdit
<1> HIDE DEF c
<1> QED
    BY <1>4, <1>5, <1>7 DEF c

LEMMA DeleteImportTyped ==
    ASSUME Typed, NEW b \in imports, DeleteImport(b)
    PROVE  Typed'
<1>1. edits \in 0..MaxEdits /\ MaxEdits \in Nat /\ edits' \in 0..MaxEdits /\ edits' = edits + 1
    BY OfferImportAssumption DEF Typed, TypeOK, Edit, DeleteImport
<1>2. TypeOK'
    BY <1>1 DEF Typed, TypeOK, DeleteImport
<1>3. nextId' \in 1..(1 + edits' + Drawn')
    <2>1. RowsDone(tx.tally)' \in Nat
        BY DEF Typed, TypeOK, Transaction, Preview, Tallies, Tally, RowsDone, DeleteImport
    <2>2. nextId \in Nat /\ nextId' = nextId
        BY DEF Typed, TypeOK, DeleteImport
    <2>3. pc = "ready" /\ nextId' + edits <= nextId + edits'
        BY <1>1, <2>2 DEF Edit, DeleteImport
    <2>4. edits' \in Nat
        BY <1>1
    <2>5. UNCHANGED <<nextBatch, pc>> /\ nextId <= nextId'
        BY <2>2 DEF DeleteImport
    <2> QED BY <2>1, <2>2, <2>3, <2>4, <2>5, DrawnKept
<1>4. Counters'
    BY <1>3 DEF Typed, Counters, TallyBound, RowsDone, DeleteImport
<1> QED
    BY <1>2, <1>4 DEF Typed


LEMMA BeginImportTyped ==
    ASSUME Typed, BeginImport
    PROVE  Typed'
<1> MaxImports \in Nat /\ MaxRows \in Nat /\ MaxEdits \in Nat
    BY OfferImportAssumption
<1>1. NoTallies \in Tallies /\ RowsDone(NoTallies) = 0 /\ TallyBound(NoTallies)
    BY DEF NoTallies, Tallies, Tally, RowsDone, TallyBound
<1>2. preview' = NoPreview /\ NoPreview.tally = NoTallies /\ tx'.tally = NoTallies
    BY DEF BeginImport, NoPreview, NoTx
<1>3. NoPreview \in Preview
    BY <1>1, SkippedTyped DEF NoPreview, Preview
<1>4. tx' \in Transaction
    BY <1>1 DEF BeginImport, Typed, TypeOK, Transaction, Preview
<1>5. TypeOK'
    BY <1>2, <1>3, <1>4 DEF BeginImport, Typed, TypeOK
<1>6. nextBatch \in 1..(MaxImports + 1) /\ nextBatch' = nextBatch + 1
        /\ nextBatch' \in 1..(MaxImports + 1) /\ nextBatch' > 1
    BY DEF Typed, Counters, BeginImport
<1>7. Drawn' = Drawn
    <2>1. Drawn = (nextBatch - 1) * MaxRows
        BY DEF BeginImport, Drawn
    <2>2. Drawn' = (nextBatch' - 2) * MaxRows + 0
        BY <1>1, <1>2 DEF BeginImport, Drawn
    <2>3. (nextBatch - 1) * MaxRows \in Nat
        BY <1>6, Batches
    <2>4. nextBatch' - 2 = nextBatch - 1
        BY <1>6
    <2> QED BY <2>1, <2>2, <2>3, <2>4
<1>8. nextId' \in 1..(1 + edits' + Drawn')
    BY <1>7 DEF Typed, Counters, BeginImport
<1>9. Counters'
    BY <1>1, <1>2, <1>6, <1>8 DEF Counters
<1> QED
    BY <1>5, <1>9 DEF Typed

LEMMA EndImportTyped ==
    ASSUME Typed, CommitImport \/ AbortImport,
           top' \in [Id -> Nat]
    PROVE  Typed'
<1> MaxImports \in Nat /\ MaxRows \in Nat /\ MaxEdits \in Nat
    BY OfferImportAssumption
<1>1. NoTallies \in Tallies /\ RowsDone(NoTallies) = 0 /\ TallyBound(NoTallies)
    BY DEF NoTallies, Tallies, Tally, RowsDone, TallyBound
<1>2. /\ pc = "import" /\ pc' = "ready" /\ tx' = NoTx /\ preview' = NoPreview
      /\ UNCHANGED <<nextId, nextBatch, edits>>
    BY DEF CommitImport, AbortImport
<1>3. NoTx \in Transaction
    BY <1>1, SkippedTyped DEF NoTx, Transaction
<1>4. NoPreview \in Preview
    BY <1>1, SkippedTyped DEF NoPreview, Preview
<1>5. NoTx.tally = NoTallies /\ NoPreview.tally = NoTallies
    BY DEF NoTx, NoPreview
<1>6. nextBatch \in 1..(MaxImports + 1) /\ nextBatch > 1
    BY <1>2 DEF Typed, Counters
<1>7. products' \in SUBSET Product /\ costings' \in SUBSET Costing
        /\ imports' \in SUBSET [id: Batch, tally: Tallies]
    <2>1. CASE AbortImport
        BY <2>1 DEF AbortImport, Typed, TypeOK
    <2>2. CASE CommitImport
        <3>1. nextBatch - 1 \in Batch
            BY <1>6 DEF Batch
        <3>2. [id |-> nextBatch - 1, tally |-> tx.tally] \in [id: Batch, tally: Tallies]
            BY <3>1 DEF Typed, TypeOK, Transaction, Preview
        <3> QED BY <2>2, <3>2 DEF CommitImport, Typed, TypeOK, Transaction, Preview
    <2> QED BY <2>1, <2>2
<1>8. TypeOK'
    BY <1>2, <1>3, <1>4, <1>7 DEF Typed, TypeOK
<1>9. nextId' \in 1..(1 + edits' + Drawn')
    <2> DEFINE before == (nextBatch - 1) * MaxRows
               earlier == (nextBatch - 2) * MaxRows
               done == RowsDone(tx.tally)
    <2>1. Drawn = earlier + done /\ Drawn' = before
        BY <1>2 DEF Drawn
    <2>2. earlier \in Nat /\ before = earlier + MaxRows
        BY <1>6, Batches
    <2>3. done \in Nat /\ done <= MaxRows
        BY DEF Typed, TypeOK, Transaction, Preview, Tallies, Tally, RowsDone, Counters, TallyBound
    <2>4. nextId \in 1..(1 + edits + (earlier + done)) /\ edits \in Nat
        BY <2>1 DEF Typed, TypeOK, Counters
    <2>5. \A i, x, k, d, m \in Nat :
            i \in 1..(1 + x + (k + d)) /\ d <= m => i \in 1..(1 + x + (k + m))
        OBVIOUS
    <2>6. nextId \in Nat
        BY DEF Typed, TypeOK
    <2> HIDE DEF before, earlier, done
    <2> QED BY <1>2, <2>1, <2>2, <2>3, <2>4, <2>5, <2>6
<1>10. Counters'
    BY <1>1, <1>2, <1>5, <1>6, <1>9 DEF Counters
<1> QED
    BY <1>8, <1>10 DEF Typed

\* Counting a row keeps the tallies in bounds.
LEMMA CountedOne ==
    ASSUME NEW t \in Tallies, TallyBound(t), RowsDone(t) < MaxRows,
           NEW created \in BOOLEAN, NEW costable \in BOOLEAN
    PROVE  /\ Counted(t, created, costable) \in Tallies
           /\ TallyBound(Counted(t, created, costable))
           /\ RowsDone(Counted(t, created, costable)) = RowsDone(t) + 1
<1> MaxRows \in Nat
    BY OfferImportAssumption
<1> DEFINE a == t.created
           b == t.updated
           c == t.costed
           d == t.skipped
           w(i, j, k) == [created |-> i, updated |-> j, costed |-> k, skipped |-> d]
<1>1. /\ a \in Nat /\ b \in Nat /\ c \in Nat /\ d \in Nat
      /\ a + b + d < MaxRows /\ c <= a + b
    BY DEF Tallies, Tally, RowsDone, TallyBound
<1>2. Counted(t, created, costable) =
         w(a + (IF created THEN 1 ELSE 0), b + (IF created THEN 0 ELSE 1),
           c + (IF costable THEN 1 ELSE 0))
    <2> DEFINE i == IF created THEN 1 ELSE 0
               j == IF created THEN 0 ELSE 1
               k == IF costable THEN 1 ELSE 0
               r == [t EXCEPT !.created = t.created + i]
               s == [r EXCEPT !.updated = t.updated + j]
    <2>1. Counted(t, created, costable)
            = [t EXCEPT !.created = t.created + i, !.updated = t.updated + j,
                        !.costed = t.costed + k]
        BY DEF Counted
    <2> HIDE DEF i, j, k
    <2>2. [t EXCEPT !.created = t.created + i, !.updated = t.updated + j,
                    !.costed = t.costed + k]
            = [s EXCEPT !.costed = t.costed + k]
        BY DEF Tallies
    <2>3. r = w(a + i, b, c)
        BY DEF Tallies
    <2>4. s = w(a + i, b + j, c)
        <3> HIDE DEF r
        <3>1. s = [r EXCEPT !.updated = t.updated + j]
            OBVIOUS
        <3> QED BY <2>3, <3>1
    <2>5. [s EXCEPT !.costed = t.costed + k] = w(a + i, b + j, c + k)
        <3> HIDE DEF s
        <3> QED BY <2>4
    <2>6. Counted(t, created, costable) = w(a + i, b + j, c + k)
        <3> HIDE DEF s, r, w
        <3> QED BY <2>1, <2>2, <2>5
    <2> QED BY <2>6 DEF i, j, k
<1>3. \A i, j, k \in Nat : i + j + d <= MaxRows /\ k <= i + j
        => w(i, j, k) \in Tallies /\ TallyBound(w(i, j, k)) /\ RowsDone(w(i, j, k)) = i + j + d
    <2> SUFFICES ASSUME NEW i \in Nat, NEW j \in Nat, NEW k \in Nat,
                        i + j + d <= MaxRows, k <= i + j
                 PROVE  w(i, j, k) \in Tallies /\ TallyBound(w(i, j, k))
                          /\ RowsDone(w(i, j, k)) = i + j + d
        OBVIOUS
    <2>1. i \in Tally /\ j \in Tally /\ k \in Tally /\ d \in Tally
        BY <1>1 DEF Tally
    <2> QED BY <1>1, <2>1 DEF Tallies, TallyBound, RowsDone
<1>4. RowsDone(t) = a + b + d
    BY DEF RowsDone
<1> HIDE DEF a, b, c, d, w
<1>5. CASE created /\ costable
    BY <1>1, <1>2, <1>3, <1>4, <1>5
<1>6. CASE created /\ ~costable
    BY <1>1, <1>2, <1>3, <1>4, <1>6
<1>7. CASE ~created /\ costable
    BY <1>1, <1>2, <1>3, <1>4, <1>7
<1>8. CASE ~created /\ ~costable
    BY <1>1, <1>2, <1>3, <1>4, <1>8
<1> QED
    BY <1>5, <1>6, <1>7, <1>8


\* A step of the import that counts one row more, on both sides.
LEMMA TypedRow ==
    ASSUME Typed, pc = "import",
           UNCHANGED <<products, costings, imports, nextBatch, pc, top, edits>>,
           tx' \in Transaction,
           preview' \in Preview,
           TallyBound(tx.tally)', TallyBound(preview.tally)',
           RowsDone(tx.tally)' = RowsDone(tx.tally) + 1,
           RowsDone(preview.tally)' = RowsDone(preview.tally) + 1,
           nextId' = nextId \/ nextId' = nextId + 1
    PROVE  Typed'
<1>1. nextId \in Nat /\ RowsDone(tx.tally) \in Nat /\ edits \in Nat
    BY OfferImportAssumption DEF Typed, TypeOK, Transaction, Preview, Tallies, Tally, RowsDone
<1>2. TypeOK'
    BY <1>1 DEF Typed, TypeOK
<1>3. nextId' \in 1..(1 + edits' + Drawn')
    <2>1. \A i, j, d \in Nat : j = i \/ j = i + 1 => i <= j /\ j + d <= i + (d + 1)
        OBVIOUS
    <2>2. nextId' \in Nat
        BY <1>1
    <2>3. nextId <= nextId' /\ nextId' + RowsDone(tx.tally) <= nextId + (RowsDone(tx.tally) + 1)
        BY <1>1, <2>1, <2>2
    <2>4. RowsDone(tx.tally)' \in Nat
        BY <1>1
    <2>5. nextId' + RowsDone(tx.tally) <= nextId + RowsDone(tx.tally)'
        BY <2>3
    <2> QED BY <1>1, <2>2, <2>3, <2>4, <2>5, DrawnKept
<1>4. Counters'
    BY <1>3 DEF Typed, Counters
<1> QED
    BY <1>2, <1>4 DEF Typed

LEMMA SkipRowTyped ==
    ASSUME Typed, SkipRow
    PROVE  Typed'
<1> MaxRows \in Nat
    BY OfferImportAssumption
<1> DEFINE Skip(t) == [t EXCEPT !.skipped = @ + 1]
<1>1. ASSUME NEW t \in Tallies, TallyBound(t), RowsDone(t) < MaxRows
      PROVE  /\ Skip(t) \in Tallies
             /\ TallyBound(Skip(t))
             /\ RowsDone(Skip(t)) = RowsDone(t) + 1
    <2>1. Skip(t) = [created |-> t.created, updated |-> t.updated, costed |-> t.costed,
                        skipped |-> t.skipped + 1]
        BY DEF Tallies
    <2>2. /\ t.created \in Nat /\ t.updated \in Nat /\ t.costed \in Tally /\ t.skipped \in Nat
          /\ t.created \in Tally /\ t.updated \in Tally
          /\ t.created + t.updated + t.skipped < MaxRows /\ t.costed <= t.created + t.updated
        BY <1>1 DEF Tallies, Tally, RowsDone, TallyBound
    <2>3. t.skipped + 1 \in Tally
        BY <2>2 DEF Tally
    <2> HIDE DEF Skip
    <2> QED BY <2>1, <2>2, <2>3 DEF Tallies, TallyBound, RowsDone
<1>2. /\ tx.tally \in Tallies /\ TallyBound(tx.tally) /\ RowsDone(tx.tally) < MaxRows
      /\ preview.tally \in Tallies /\ TallyBound(preview.tally)
      /\ RowsDone(preview.tally) < MaxRows
    BY DEF Typed, TypeOK, Transaction, Preview, Counters, SkipRow
<1>3. tx' = [tx EXCEPT !.tally = Skip(tx.tally), !.report = SkippedRow]
    BY DEF SkipRow, Typed, TypeOK
<1>4. preview' = [preview EXCEPT !.tally = Skip(preview.tally), !.report = SkippedRow, !.again = FALSE]
    BY DEF SkipRow, Typed, TypeOK
<1>5. /\ Skip(tx.tally) \in Tallies /\ Skip(preview.tally) \in Tallies
      /\ TallyBound(Skip(tx.tally)) /\ TallyBound(Skip(preview.tally))
      /\ RowsDone(Skip(tx.tally)) = RowsDone(tx.tally) + 1
      /\ RowsDone(Skip(preview.tally)) = RowsDone(preview.tally) + 1
    BY <1>1, <1>2
<1> HIDE DEF Skip
<1>6. tx' \in Transaction
        /\ tx'.tally = Skip(tx.tally)
    BY <1>3, <1>5, SkippedTyped DEF Typed, TypeOK, Transaction
<1>7. preview' \in Preview
        /\ preview'.tally = Skip(preview.tally)
    BY <1>4, <1>5, SkippedTyped DEF Typed, TypeOK, Preview
<1>8. /\ TallyBound(tx.tally)' /\ TallyBound(preview.tally)'
      /\ RowsDone(tx.tally)' = RowsDone(tx.tally) + 1
      /\ RowsDone(preview.tally)' = RowsDone(preview.tally) + 1
    BY <1>5, <1>6, <1>7 DEF TallyBound, RowsDone
<1> QED
    BY <1>6, <1>7, <1>8, TypedRow DEF SkipRow

\* What RowStored puts in is a product, under an id of its own.
LEMMA StoredTyped ==
    ASSUME Typed, pc = "import", RowsDone(tx.tally) < MaxRows, NEW row \in OfferRow,
           NEW price \in Price \cup {NoPrice}, NEW old, NEW s,
           RowStored(tx.products, row, old, s, price)
    PROVE  /\ s \in Product
           /\ old \subseteq tx.products
           /\ nextId' = IF old = {} THEN nextId + 1 ELSE nextId
           /\ s.id < nextId' \/ s.id \in {p.id : p \in old}
<1>1. nextId \in Id /\ nextId \in Nat /\ tx.products \in SUBSET Product
    BY IdLeft DEF Typed, TypeOK, Transaction, Preview
<1>2. CASE old = {}
    <2>1. /\ s = [id |-> nextId, name |-> row.name, ean |-> row.ean, price |-> price,
                  origin |-> "auto"]
          /\ nextId' = nextId + 1
        BY <1>2 DEF RowStored
    <2>2. s \in Product
        BY <1>1, <2>1 DEF Product, OfferRow
    <2>3. s.id < nextId'
        BY <1>1, <2>1
    <2> QED BY <1>2, <2>1, <2>2, <2>3
<1>3. CASE old # {}
    <2> PICK p \in tx.products :
          /\ old = {p}
          /\ s = [id |-> p.id, name |-> row.name,
                  ean |-> IF row.ean = NoEan THEN p.ean ELSE row.ean,
                  price |-> IF p.origin = "human" THEN p.price ELSE price,
                  origin |-> p.origin]
          /\ nextId' = nextId
        BY <1>3 DEF RowStored
    <2>1. p \in Product
        BY <1>1
    <2>2. (IF row.ean = NoEan THEN p.ean ELSE row.ean) \in Ean \cup {NoEan}
        BY <2>1 DEF OfferRow, Product
    <2>3. (IF p.origin = "human" THEN p.price ELSE price) \in Price \cup {NoPrice}
        BY <2>1 DEF Product
    <2>4. s \in Product
        BY <2>1, <2>2, <2>3 DEF Product, OfferRow
    <2> QED BY <2>4
<1> QED
    BY <1>2, <1>3


LEMMA CostedTyped ==
    ASSUME Typed, pc = "import", IsFiniteSet(tx.costings), NEW row, NEW s \in Product,
           NEW price \in Price \cup {NoPrice}
    PROVE  RowCosted(tx.costings, row, s, price) \in Costing
<1>1. NextVersion(tx.costings, s.id) \in Nat
    BY LastIsGreatest DEF Typed, TypeOK, Transaction, Preview, NextVersion
<1>2. nextBatch - 1 \in Batch
    BY OfferImportAssumption DEF Typed, Counters, Batch
<1> QED
    BY <1>1, <1>2 DEF RowCosted, Costing, Product

LEMMA ImportRowTyped ==
    ASSUME Typed, Catalogue(tx.products, tx.costings), NEW row \in OfferRow, ImportRow(row)
    PROVE  Typed'
<1>1. pc = "import" /\ RowsDone(tx.tally) < MaxRows
        /\ UNCHANGED <<products, costings, imports, nextBatch, pc, top, edits>>
    BY DEF ImportRow
<1>2. PICK old, s : \E price \in Price \cup {NoPrice} :
          /\ RowStored(tx.products, row, old, s, price)
          /\ tx' = [products |-> (tx.products \ old) \cup {s},
                    costings |-> tx.costings \cup
                       (IF row.cost # NoCost
                          THEN {RowCosted(tx.costings, row, s, price)} ELSE {}),
                    tally |-> Counted(tx.tally, old = {}, row.cost # NoCost),
                    report |-> Reported(old = {}, price)]
    BY RowImported DEF Catalogue
<1>3. PICK price \in Price \cup {NoPrice} :
          /\ RowStored(tx.products, row, old, s, price)
          /\ tx' = [products |-> (tx.products \ old) \cup {s},
                    costings |-> tx.costings \cup
                       (IF row.cost # NoCost
                          THEN {RowCosted(tx.costings, row, s, price)} ELSE {}),
                    tally |-> Counted(tx.tally, old = {}, row.cost # NoCost),
                    report |-> Reported(old = {}, price)]
    BY <1>2
<1>4. s \in Product /\ nextId' = IF old = {} THEN nextId + 1 ELSE nextId
    BY <1>1, <1>3, StoredTyped
<1>5. RowCosted(tx.costings, row, s, price) \in Costing
    BY <1>1, <1>4, CostedTyped DEF Catalogue, Versioned
<1>6. /\ tx.tally \in Tallies /\ TallyBound(tx.tally)
      /\ preview.tally \in Tallies /\ TallyBound(preview.tally)
      /\ RowsDone(preview.tally) = RowsDone(tx.tally)
    BY DEF Typed, TypeOK, Transaction, Preview, Counters
<1> DEFINE counted == Counted(tx.tally, old = {}, row.cost # NoCost)
           created == ~SeenBefore(row) /\ FindByKey(products, row.name, row.ean) = {}
           seen == Counted(preview.tally, created, row.cost # NoCost)
           shown == Reported(created, SellingPrice(row,
                      IF SeenBefore(row) THEN {} ELSE FindByKey(products, row.name, row.ean)))
<1>7. counted \in Tallies /\ TallyBound(counted) /\ RowsDone(counted) = RowsDone(tx.tally) + 1
    <2> (old = {}) \in BOOLEAN /\ (row.cost # NoCost) \in BOOLEAN
        OBVIOUS
    <2> QED BY <1>1, <1>6, CountedOne
<1>8. seen \in Tallies /\ TallyBound(seen) /\ RowsDone(seen) = RowsDone(preview.tally) + 1
    <2> created \in BOOLEAN /\ (row.cost # NoCost) \in BOOLEAN
        OBVIOUS
    <2> HIDE DEF created
    <2> QED BY <1>1, <1>6, CountedOne
<1>9. preview' = [rows |-> preview.rows \cup {[name |-> row.name, ean |-> row.ean]},
                  tally |-> seen, report |-> shown, again |-> SeenBefore(row)]
    BY DEF ImportRow, PreviewRow
<1>15. shown \in Report /\ Reported(old = {}, price) \in Report
    <2>1. /\ products \subseteq Product
          /\ FindByKey(products, row.name, row.ean) \subseteq products
        BY DEF Typed, TypeOK, FindByKey, WithEan, FirstNamed
    <2>2. SellingPrice(row, IF SeenBefore(row) THEN {}
                            ELSE FindByKey(products, row.name, row.ean)) \in Price \cup {NoPrice}
        BY <2>1, PriceTyped
    <2> QED BY <2>2 DEF Reported, Report
<1> HIDE DEF counted, seen, shown
<1>10. tx' \in Transaction
    <2>1. (tx.products \ old) \cup {s} \in SUBSET Product
        BY <1>4 DEF Typed, TypeOK, Transaction, Preview
    <2>2. tx.costings \cup (IF row.cost # NoCost
                              THEN {RowCosted(tx.costings, row, s, price)} ELSE {})
            \in SUBSET Costing
        BY <1>5 DEF Typed, TypeOK, Transaction, Preview
    <2> QED BY <1>3, <1>7, <1>15, <2>1, <2>2 DEF counted, Transaction
<1>11. preview' \in Preview
    <2>1. preview.rows \cup {[name |-> row.name, ean |-> row.ean]}
            \in SUBSET [name: Name, ean: Ean \cup {NoEan}]
        BY DEF Typed, TypeOK, Transaction, Preview, OfferRow
    <2> SeenBefore(row) \in BOOLEAN
        BY DEF SeenBefore
    <2> QED BY <1>8, <1>9, <1>15, <2>1 DEF Preview
<1>12. tx'.tally = counted /\ preview'.tally = seen
    BY <1>3, <1>9 DEF counted
<1>13. /\ TallyBound(tx.tally)' /\ TallyBound(preview.tally)'
       /\ RowsDone(tx.tally)' = RowsDone(tx.tally) + 1
       /\ RowsDone(preview.tally)' = RowsDone(preview.tally) + 1
    BY <1>7, <1>8, <1>12 DEF TallyBound, RowsDone
<1>14. nextId' = nextId \/ nextId' = nextId + 1
    BY <1>4
<1> QED
    BY <1>1, <1>10, <1>11, <1>13, <1>14, TypedRow

-----------------------------------------------------------------------------
(* Products and costings *)

\* Product `s` in the place of `old` keeps ids and EANs unique.
LEMMA KeyedStored ==
    ASSUME NEW ps, ps \subseteq Product, Keyed(ps, nextId), NEW row \in OfferRow, NEW old,
           NEW s, NEW price,
           RowStored(ps, row, old, s, price), nextId \in Nat, s \in Product,
           NEW next \in Nat, next = nextId'
    PROVE  Keyed((ps \ old) \cup {s}, next)
<1>1. \A p \in ps \cup {s} : p.id \in Nat
    BY DEF Product, Id
<1>2. /\ \A p \in ps : p.id < nextId
      /\ \A p, q \in ps : p.id = q.id => p = q
      /\ \A p, q \in ps : p.ean = q.ean /\ p.ean # NoEan => p = q
    BY DEF Keyed
<1>3. CASE old = {}
    <2>1. s.id = nextId /\ s.ean = row.ean /\ next = nextId + 1 /\ WithEan(ps, row.ean) = {}
        BY <1>3 DEF RowStored
    <2>2. \A p \in ps : p.ean = s.ean => p.ean = NoEan
        BY <2>1 DEF WithEan
    <2>3. \A p \in ps : p.id # s.id
        BY <1>1, <1>2, <2>1
    <2>4. \A p \in ps \cup {s} : p.id < next
        BY <1>1, <1>2, <2>1
    <2> QED BY <1>2, <1>3, <2>2, <2>3, <2>4 DEF Keyed
<1>4. CASE old # {}
    <2> PICK p \in ps :
          /\ old = {p}
          /\ WithEan(ps, row.ean) \subseteq {p}
          /\ s = [id |-> p.id, name |-> row.name,
                  ean |-> IF row.ean = NoEan THEN p.ean ELSE row.ean,
                  price |-> IF p.origin = "human" THEN p.price ELSE price,
                  origin |-> p.origin]
          /\ next = nextId
        BY <1>4 DEF RowStored
    <2>1. s.id = p.id /\ s.ean = IF row.ean = NoEan THEN p.ean ELSE row.ean
        OBVIOUS
    <2>2. \A q \in ps : q # p => q.id # s.id
        BY <1>2, <2>1
    <2>3. \A q \in ps : q # p /\ q.ean = s.ean => q.ean = NoEan
        <3>1. CASE row.ean = NoEan
            BY <1>2, <2>1, <3>1
        <3>2. CASE row.ean # NoEan
            BY <2>1, <3>2 DEF WithEan
        <3> QED BY <3>1, <3>2
    <2>4. \A q \in ps \cup {s} : q.id < next
        BY <1>2, <2>1
    <2> QED BY <1>2, <2>2, <2>3, <2>4 DEF Keyed
<1> QED
    BY <1>3, <1>4


LEMMA KeyedOn ==
    ASSUME NEW ps, ps \subseteq Product, NEW n \in Nat, NEW m \in Nat, n <= m, Keyed(ps, n)
    PROVE  Keyed(ps, m)
<1> \A p \in ps : p.id \in Nat
    BY DEF Product, Id
<1> QED
    BY DEF Keyed

LEMMA VersionedOn ==
    ASSUME NEW cs, cs \subseteq Costing, NEW n \in Nat, NEW m \in Nat, n <= m, Versioned(cs, n)
    PROVE  Versioned(cs, m)
<1> \A c \in cs : c.product \in Nat
    BY DEF Costing, Id
<1> QED
    BY DEF Versioned

LEMMA VersionedAdded ==
    ASSUME NEW cs, cs \subseteq Costing, NEW n \in Nat, Versioned(cs, n), NEW c \in Costing,
           c.version = NextVersion(cs, c.product), c.product < n
    PROVE  Versioned(cs \cup {c}, n)
<1>1. IsFiniteSet(cs \cup {c})
    BY VersionAdded
<1>2. \A d \in cs : d.product = c.product => d.version # c.version
    <2> SUFFICES ASSUME NEW d \in cs, d.product = c.product PROVE d.version # c.version
        OBVIOUS
    <2>1. d.version < c.version /\ d.version \in Nat /\ c.version \in Nat
        BY VersionAdded DEF Costing
    <2> QED BY <2>1
<1> QED
    BY <1>1, <1>2 DEF Versioned

\* A costing added under the next version, with the price of its product unless
\* that one is an admin's or has none, keeps prices and costings together.
LEMMA FollowedAdded ==
    ASSUME NEW ps, NEW cs, cs \subseteq Costing, NEW n, Versioned(cs, n), NEW c \in Costing,
           c.version = NextVersion(cs, c.product), NEW t \in [Id -> Nat],
           \A p \in ps : p.id \in Id,
           \A p \in ps : p.id # c.product => \A d \in cs :
              /\ p.origin = "auto" /\ p.price # NoPrice
              /\ d.product = p.id /\ d.version = Newest(cs, p.id, t) /\ d.offer # 0
              => d.price = p.price,
           \A p \in ps : /\ p.id = c.product /\ c.offer # 0
                         /\ p.origin = "auto" /\ p.price # NoPrice
                         => c.price = p.price
    PROVE  Followed(ps, cs \cup {c}, t)
<1> SUFFICES ASSUME NEW p \in ps, NEW d \in cs \cup {c},
                    p.origin = "auto", p.price # NoPrice,
                    d.product = p.id, d.version = Newest(cs \cup {c}, p.id, t), d.offer # 0
             PROVE  d.price = p.price
    BY DEF Followed
<1>1. CASE p.id # c.product
    <2>1. LastVersion(cs \cup {c}, p.id) = LastVersion(cs, p.id)
        BY <1>1, VersionAdded
    <2>2. d.version = Newest(cs, p.id, t)
        BY <2>1 DEF Newest
    <2> QED BY <1>1, <2>2
<1>2. CASE p.id = c.product
    <2>1. LastVersion(cs \cup {c}, p.id) = c.version
        BY <1>2, VersionAdded
    <2>2. t[p.id] \in Nat /\ c.version \in Nat
        BY DEF Costing
    <2>3. c.version <= d.version
        BY <2>1, <2>2 DEF Newest, Higher
    <2>4. d = c
        <3> SUFFICES ASSUME d \in cs PROVE FALSE
            OBVIOUS
        <3>1. d.version < c.version /\ d.version \in Nat
            BY <1>2, VersionAdded DEF Costing
        <3> QED BY <2>2, <2>3, <3>1
    <2> QED BY <1>2, <2>4
<1> QED
    BY <1>1, <1>2


-----------------------------------------------------------------------------
(* Every step keeps the invariant *)

LEMMA EmptyCatalogue ==
    /\ Catalogue({}, {}) /\ (Catalogue({}, {}))'
    /\ \A i : LastVersion({}, i) = 0
<1>1. IsFiniteSet({})
    BY FS_EmptySet
<1>2. ASSUME NEW i PROVE LastVersion({}, i) = 0
    <2>1. 0 \in Versions({}, i)
        BY DEF Versions
    <2> QED BY <1>1, <2>1, LastIs
<1> QED
    BY <1>1, <1>2 DEF Catalogue, Keyed, Versioned, Followed

\* Outside an import there is nothing that one could see, or have to keep.
LEMMA ReadyTx ==
    ASSUME Typed', pc' = "ready"
    PROVE  Catalogue(tx.products, tx.costings)' /\ KeptSoFar'
<1>1. tx'.products = {} /\ tx'.costings = {}
    BY DEF Typed, TypeOK, NoTx
<1>2. (Catalogue({}, {}))'
    BY EmptyCatalogue
<1> QED
    BY <1>1, <1>2 DEF Catalogue, KeptSoFar

LEMMA InitInv == Init => Inv
<1> SUFFICES ASSUME Init PROVE Inv
    OBVIOUS
<1>1. Typed
    BY InitTyped
<1>2. products = {} /\ costings = {} /\ tx.products = {} /\ tx.costings = {} /\ pc = "ready"
    BY DEF Init, NoTx
<1>3. \A i \in Id : LastVersion(costings, i) <= top[i]
    BY <1>2, EmptyCatalogue DEF Init
<1> QED
    BY <1>1, <1>2, <1>3, EmptyCatalogue DEF Inv, KeptSoFar

LEMMA SaveProductInv ==
    ASSUME Inv, NEW n \in Name, NEW e \in Ean \cup {NoEan}, NEW price \in Price \cup {NoPrice},
           NEW target, target = {} \/ \E p \in products : target = {p},
           SaveProduct(n, e, price, target)
    PROVE  Inv'
<1>1. Typed'
    BY SaveProductTyped DEF Inv
<1>2. /\ products \subseteq Product /\ products' \subseteq Product /\ costings \subseteq Costing
      /\ nextId \in Nat /\ nextId' \in Nat /\ nextId <= nextId'
    BY <1>1 DEF Inv, Typed, TypeOK, SaveProduct
<1>3. pc' = "ready" /\ costings' = costings /\ top' = top
    BY DEF SaveProduct, Edit
<1> DEFINE id == IF target = {} THEN nextId ELSE (CHOOSE p \in target : TRUE).id
           s == [id |-> id, name |-> n, ean |-> e, price |-> price, origin |-> "human"]
<1>4. products' = (products \ target) \cup {s}
    BY DEF SaveProduct
<1>5. s.id = id /\ s.ean = e /\ s.origin = "human"
    OBVIOUS
<1>6. WithEan(products, e) \subseteq target
    BY DEF SaveProduct
<1>7. \A p \in products \ target : p.ean = e => p.ean = NoEan
    BY <1>6 DEF WithEan
<1>8. id < nextId' /\ \A p \in products \ target : p.id # id
    <2>1. CASE target = {}
        <3>1. id = nextId /\ nextId' = nextId + 1
            BY <2>1 DEF SaveProduct
        <3>2. \A p \in products : p.id < nextId /\ p.id \in Nat
            BY <1>2 DEF Inv, Catalogue, Keyed, Product, Id
        <3> QED BY <1>2, <3>1, <3>2
    <2>2. CASE \E p \in products : target = {p}
        <3> PICK p \in products : target = {p}
            BY <2>2
        <3>1. id = p.id /\ nextId' = nextId
            BY DEF SaveProduct
        <3> QED BY <3>1 DEF Inv, Catalogue, Keyed
    <2> QED BY <2>1, <2>2
<1> HIDE DEF s, id
<1>9. Keyed(products', nextId')
    <2>1. Keyed(products, nextId')
        BY <1>2, KeyedOn DEF Inv, Catalogue
    <2> QED BY <1>4, <1>5, <1>7, <1>8, <2>1 DEF Keyed
<1>10. Versioned(costings', nextId')
    BY <1>2, <1>3, VersionedOn DEF Inv, Catalogue
<1>11. Followed(products', costings', top')
    BY <1>3, <1>4, <1>5 DEF Inv, Catalogue, Followed
<1>12. Catalogue(products, costings)'
    BY <1>9, <1>10, <1>11 DEF Catalogue
<1>13. (\A i \in Id : LastVersion(costings, i) <= top[i])'
    BY <1>3 DEF Inv
<1> QED
    BY <1>1, <1>3, <1>12, <1>13, ReadyTx DEF Inv

LEMMA SaveCostingInv ==
    ASSUME Inv, NEW p \in products, NEW price \in AdminPrice, SaveCosting(p, price)
    PROVE  Inv'
<1>1. IsFiniteSet(costings) /\ Typed
    BY DEF Inv, Catalogue, Versioned
<1>2. Typed'
    BY <1>1, SaveCostingTyped
<1>3. PICK c \in Costing :
         /\ c = [product |-> p.id, version |-> NextVersion(costings, p.id),
                 offer |-> 0, price |-> price]
         /\ costings' = costings \cup {c}
         /\ top' = [top EXCEPT ![p.id] = Higher(c.version, @)]
    BY <1>1, SaveCostingTyped
<1>4. c.product = p.id /\ c.version = NextVersion(costings, c.product) /\ c.offer = 0
    BY <1>3
<1>5. pc' = "ready" /\ UNCHANGED <<products, nextId>>
    BY DEF SaveCosting, Edit
<1>6. /\ products \subseteq Product /\ costings \subseteq Costing /\ nextId \in Nat
      /\ top \in [Id -> Nat] /\ Versioned(costings, nextId) /\ p.id < nextId /\ p.id \in Id
      /\ \A q \in products : q.id \in Id
    BY DEF Inv, Typed, TypeOK, Catalogue, Keyed, Product
<1>7. Versioned(costings', nextId')
    BY <1>3, <1>4, <1>5, <1>6, VersionedAdded
<1>8. Followed(products, costings \cup {c}, top)
    <2>1. Followed(products, costings, top)
        BY DEF Inv, Catalogue
    <2>2. \A q \in products : q.id # c.product => \A d \in costings :
              /\ q.origin = "auto" /\ q.price # NoPrice
              /\ d.product = q.id /\ d.version = Newest(costings, q.id, top) /\ d.offer # 0
              => d.price = q.price
        BY <2>1 DEF Followed
    <2>3. \A q \in products : /\ q.id = c.product /\ c.offer # 0
                              /\ q.origin = "auto" /\ q.price # NoPrice
                              => c.price = q.price
        BY <1>4
    <2> QED BY <1>4, <1>6, <2>2, <2>3, FollowedAdded
<1>9. \A i \in Id : /\ LastVersion(costings', i) <= top'[i]
                    /\ Newest(costings', i, top') = Newest(costings', i, top)
    <2> SUFFICES ASSUME NEW i \in Id
                 PROVE  /\ LastVersion(costings', i) <= top'[i]
                        /\ Newest(costings', i, top') = Newest(costings', i, top)
        OBVIOUS
    <2>1. CASE i = p.id
        <3>1. LastVersion(costings', i) = c.version
            BY <1>3, <1>4, <1>6, <2>1, VersionAdded
        <3>2. top'[i] = Higher(c.version, top[i]) /\ c.version \in Nat /\ top[i] \in Nat
            BY <1>3, <1>6, <2>1 DEF Costing
        <3> QED BY <3>1, <3>2 DEF Higher, Newest
    <2>2. CASE i # p.id
        <3>1. LastVersion(costings', i) = LastVersion(costings, i)
            BY <1>3, <1>4, <1>6, <2>2, VersionAdded
        <3>2. top'[i] = top[i]
            BY <1>3, <1>6, <2>2
        <3> QED BY <3>1, <3>2 DEF Inv, Newest
    <2> QED BY <2>1, <2>2
<1>10. Followed(products', costings', top')
    <2> SUFFICES ASSUME NEW q \in products, NEW d \in costings',
                        q.origin = "auto", q.price # NoPrice, d.product = q.id,
                        d.version = Newest(costings', q.id, top'), d.offer # 0
                 PROVE  d.price = q.price
        BY <1>5 DEF Followed
    <2>1. d.version = Newest(costings', q.id, top)
        BY <1>6, <1>9
    <2>2. Followed(products, costings', top)
        BY <1>3, <1>8
    <2> QED BY <2>1, <2>2 DEF Followed
<1>11. Keyed(products', nextId')
    BY <1>5 DEF Inv, Catalogue
<1>12. Catalogue(products, costings)'
    BY <1>7, <1>10, <1>11 DEF Catalogue
<1> QED
    BY <1>2, <1>5, <1>9, <1>12, ReadyTx DEF Inv

LEMMA DeleteImportInv ==
    ASSUME Inv, NEW b \in imports, DeleteImport(b)
    PROVE  Inv'
<1>1. Typed'
    BY DeleteImportTyped DEF Inv
<1>2. pc' = "ready" /\ UNCHANGED <<products, nextId, top>> /\ costings' \subseteq costings
    BY DEF DeleteImport, Edit
<1>3. /\ IsFiniteSet(costings) /\ costings \subseteq Costing /\ top \in [Id -> Nat]
      /\ \A p \in products : p.id \in Id
    BY DEF Inv, Typed, TypeOK, Catalogue, Versioned, Product
<1>4. IsFiniteSet(costings')
    BY <1>2, <1>3, FS_Subset
<1>5. \A i \in Id : LastVersion(costings', i) \in Nat /\ LastVersion(costings', i) <= top[i]
    <2> SUFFICES ASSUME NEW i \in Id
                 PROVE  LastVersion(costings', i) \in Nat /\ LastVersion(costings', i) <= top[i]
        OBVIOUS
    <2>1. /\ LastVersion(costings', i) \in Nat
          /\ LastVersion(costings', i) \in Versions(costings', i)
        BY <1>2, <1>3, <1>4, LastIsGreatest
    <2>2. LastVersion(costings, i) \in Nat /\ top[i] \in Nat
            /\ LastVersion(costings, i) <= top[i]
        BY <1>3, LastIsGreatest DEF Inv
    <2>3. LastVersion(costings', i) <= LastVersion(costings, i)
        <3>1. CASE LastVersion(costings', i) = 0
            BY <2>2, <3>1
        <3>2. CASE LastVersion(costings', i) # 0
            <4> PICK c \in costings' : c.product = i /\ LastVersion(costings', i) = c.version
                BY <2>1, <3>2 DEF Versions
            <4> QED BY <1>2, <1>3, LastIsGreatest
        <3> QED BY <3>1, <3>2
    <2> QED BY <2>1, <2>2, <2>3
<1>6. \A i \in Id : Newest(costings', i, top) = top[i] /\ Newest(costings, i, top) = top[i]
    <2> SUFFICES ASSUME NEW i \in Id
                 PROVE  Newest(costings', i, top) = top[i] /\ Newest(costings, i, top) = top[i]
        OBVIOUS
    <2>1. LastVersion(costings, i) \in Nat /\ top[i] \in Nat
            /\ LastVersion(costings, i) <= top[i]
        BY <1>3, LastIsGreatest DEF Inv
    <2> QED BY <1>5, <2>1 DEF Newest, Higher
<1>7. Versioned(costings', nextId')
    BY <1>2, <1>4 DEF Inv, Catalogue, Versioned
<1>8. Followed(products', costings', top')
    BY <1>2, <1>3, <1>6 DEF Inv, Catalogue, Followed
<1>9. Keyed(products', nextId')
    BY <1>2 DEF Inv, Catalogue
<1>10. Catalogue(products, costings)'
    BY <1>7, <1>8, <1>9 DEF Catalogue
<1>11. (\A i \in Id : LastVersion(costings, i) <= top[i])'
    BY <1>2, <1>5
<1> QED
    BY <1>1, <1>2, <1>10, <1>11, ReadyTx DEF Inv


LEMMA BeginImportInv ==
    ASSUME Inv, BeginImport
    PROVE  Inv'
<1>1. Typed'
    BY BeginImportTyped DEF Inv
<1>2. /\ tx'.products = products /\ tx'.costings = costings
      /\ UNCHANGED <<products, costings, nextId, top>>
    BY DEF BeginImport, NoTx
<1>3. Catalogue(products, costings)' /\ Catalogue(tx.products, tx.costings)'
    BY <1>2 DEF Inv, Catalogue
<1>4. KeptSoFar'
    BY <1>2 DEF KeptSoFar, Kept
<1>5. (\A i \in Id : LastVersion(costings, i) <= top[i])'
    BY <1>2 DEF Inv
<1> QED
    BY <1>1, <1>3, <1>4, <1>5 DEF Inv

LEMMA SkipRowInv ==
    ASSUME Inv, SkipRow
    PROVE  Inv'
<1>1. Typed'
    BY SkipRowTyped DEF Inv
<1>2. /\ tx'.products = tx.products /\ tx'.costings = tx.costings
      /\ UNCHANGED <<products, costings, nextId, top, pc>>
    BY DEF SkipRow, Inv, Typed, TypeOK
<1>3. Catalogue(products, costings)' /\ Catalogue(tx.products, tx.costings)'
    BY <1>2 DEF Inv, Catalogue
<1>4. KeptSoFar'
    BY <1>2 DEF Inv, KeptSoFar
<1>5. (\A i \in Id : LastVersion(costings, i) <= top[i])'
    BY <1>2 DEF Inv
<1> QED
    BY <1>1, <1>3, <1>4, <1>5 DEF Inv

LEMMA ImportRowInv ==
    ASSUME Inv, NEW row \in OfferRow, ImportRow(row)
    PROVE  Inv'
<1>1. Typed' /\ Typed
    BY ImportRowTyped DEF Inv
<1>2. /\ pc = "import" /\ RowsDone(tx.tally) < MaxRows
      /\ UNCHANGED <<products, costings, imports, nextBatch, pc, top, edits>>
    BY DEF ImportRow
<1>3. /\ products \subseteq Product /\ costings \subseteq Costing
      /\ tx.products \subseteq Product /\ tx.costings \subseteq Costing
      /\ nextId \in Nat /\ nextId' \in Nat /\ top \in [Id -> Nat]
    BY <1>1 DEF Typed, TypeOK, Transaction, Preview
<1>4. Keyed(tx.products, nextId) /\ Versioned(tx.costings, nextId)
        /\ Followed(tx.products, tx.costings, top)
    BY DEF Inv, Catalogue
<1>5. PICK old, s : \E price \in Price \cup {NoPrice} :
          /\ RowStored(tx.products, row, old, s, price)
          /\ s.origin = "human" \/ price = s.price
          /\ row.cost = NoCost => price = NoPrice
          /\ tx' = [products |-> (tx.products \ old) \cup {s},
                    costings |-> tx.costings \cup
                       (IF row.cost # NoCost
                          THEN {RowCosted(tx.costings, row, s, price)} ELSE {}),
                    tally |-> Counted(tx.tally, old = {}, row.cost # NoCost),
                    report |-> Reported(old = {}, price)]
    BY <1>1, <1>4, RowImported
<1>6. PICK price \in Price \cup {NoPrice} :
          /\ RowStored(tx.products, row, old, s, price)
          /\ s.origin = "human" \/ price = s.price
          /\ row.cost = NoCost => price = NoPrice
          /\ tx' = [products |-> (tx.products \ old) \cup {s},
                    costings |-> tx.costings \cup
                       (IF row.cost # NoCost
                          THEN {RowCosted(tx.costings, row, s, price)} ELSE {}),
                    tally |-> Counted(tx.tally, old = {}, row.cost # NoCost),
                    report |-> Reported(old = {}, price)]
    BY <1>5
<1>7. /\ s \in Product /\ old \subseteq tx.products
      /\ nextId' = IF old = {} THEN nextId + 1 ELSE nextId
      /\ s.id < nextId' \/ s.id \in {p.id : p \in old}
    BY <1>1, <1>2, <1>6, StoredTyped
<1>8. nextId <= nextId'
    BY <1>3, <1>7
<1>9. tx'.products = (tx.products \ old) \cup {s}
    BY <1>6
<1>10. Keyed(tx'.products, nextId')
    BY <1>3, <1>4, <1>6, <1>7, <1>9, KeyedStored
<1>11. \A p \in tx.products \ old : p.id # s.id
    <2>1. CASE old = {}
        <3>1. s.id = nextId
            BY <1>6, <2>1 DEF RowStored
        <3>2. \A p \in tx.products : p.id < nextId /\ p.id \in Nat
            BY <1>3, <1>4 DEF Keyed, Product, Id
        <3> QED BY <1>3, <3>1, <3>2
    <2>2. CASE old # {}
        <3>1. PICK q \in tx.products : old = {q} /\ s.id = q.id
            BY <1>6, <2>2 DEF RowStored
        <3> QED BY <1>4, <3>1 DEF Keyed
    <2> QED BY <2>1, <2>2
<1>12. Versioned(tx'.costings, nextId') /\ Followed(tx'.products, tx'.costings, top)
    <2>1. Versioned(tx.costings, nextId')
        BY <1>3, <1>4, <1>8, VersionedOn
    <2>2. s.id < nextId'
        BY <1>9, <1>10 DEF Keyed
    <2>3. \A p \in tx'.products : p.id \in Id
        BY <1>3, <1>7, <1>9 DEF Product
    <2>4. \A p \in tx'.products : p.id # s.id => \A d \in tx.costings :
              /\ p.origin = "auto" /\ p.price # NoPrice
              /\ d.product = p.id /\ d.version = Newest(tx.costings, p.id, top) /\ d.offer # 0
              => d.price = p.price
        BY <1>4, <1>9 DEF Followed
    <2>5. CASE row.cost = NoCost
        <3>1. tx'.costings = tx.costings
            BY <1>6, <2>5
        <3>2. s.origin = "auto" => s.price = NoPrice
            BY <1>6, <2>5
        <3>3. \A p \in tx'.products : p.id = s.id => p = s
            BY <1>9, <1>11
        <3>4. Followed(tx'.products, tx.costings, top)
            BY <2>4, <3>2, <3>3 DEF Followed
        <3> QED BY <2>1, <3>1, <3>4
    <2>6. CASE row.cost # NoCost
        <3> DEFINE c == RowCosted(tx.costings, row, s, price)
        <3>1. c \in Costing
            BY <1>1, <1>2, <1>4, <1>7, CostedTyped DEF Versioned
        <3>2. c.product = s.id /\ c.version = NextVersion(tx.costings, c.product)
                /\ c.price = price
            BY DEF RowCosted
        <3>3. tx'.costings = tx.costings \cup {c}
            BY <1>6, <2>6
        <3>4. \A p \in tx'.products : /\ p.id = c.product /\ c.offer # 0
                                      /\ p.origin = "auto" /\ p.price # NoPrice
                                      => c.price = p.price
            BY <1>6, <1>9, <1>11, <3>2
        <3> HIDE DEF c
        <3>5. Versioned(tx'.costings, nextId')
            BY <1>3, <2>1, <2>2, <3>1, <3>2, <3>3, VersionedAdded
        <3>6. \A p \in tx'.products : p.id # c.product => \A d \in tx.costings :
                  /\ p.origin = "auto" /\ p.price # NoPrice
                  /\ d.product = p.id /\ d.version = Newest(tx.costings, p.id, top)
                  /\ d.offer # 0
                  => d.price = p.price
            BY <2>4, <3>2
        <3>7. Followed(tx'.products, tx.costings \cup {c}, top)
            BY <1>3, <1>4, <2>3, <3>1, <3>2, <3>4, <3>6, FollowedAdded
        <3> QED BY <3>3, <3>5, <3>7
    <2> QED BY <2>5, <2>6
<1>13. Catalogue(tx.products, tx.costings)'
    BY <1>2, <1>10, <1>12 DEF Catalogue
<1>14. Catalogue(products, costings)'
    <2>1. Keyed(products, nextId') /\ Versioned(costings, nextId')
        BY <1>3, <1>8, KeyedOn, VersionedOn DEF Inv, Catalogue
    <2> QED BY <1>2, <2>1 DEF Inv, Catalogue
<1>15. KeptSoFar'
    <2>1. \A q \in old : /\ s.id = q.id
                         /\ q.ean # NoEan => s.ean # NoEan
                         /\ q.origin = "human" => s.price = q.price /\ s.origin = "human"
        BY <1>6 DEF RowStored
    <2> SUFFICES ASSUME NEW p \in products
                 PROVE  \E q \in tx'.products : Kept(p, q)
        BY <1>2 DEF KeptSoFar
    <2>2. PICK q \in tx.products : Kept(p, q)
        BY <1>2 DEF Inv, KeptSoFar
    <2>3. CASE q \in old
        <3>1. Kept(p, s)
            BY <2>1, <2>2, <2>3 DEF Kept
        <3> QED BY <1>9, <3>1
    <2>4. CASE q \notin old
        BY <1>9, <2>2, <2>4
    <2> QED BY <2>3, <2>4
<1>16. (\A i \in Id : LastVersion(costings, i) <= top[i])'
    BY <1>2 DEF Inv
<1> QED
    BY <1>1, <1>13, <1>14, <1>15, <1>16 DEF Inv

LEMMA CommitImportInv ==
    ASSUME Inv, CommitImport
    PROVE  Inv'
<1>1. /\ products' = tx.products /\ costings' = tx.costings
      /\ top' = [i \in Id |-> Higher(LastVersion(tx.costings, i), top[i])]
      /\ pc' = "ready" /\ nextId' = nextId
    BY DEF CommitImport
<1>2. /\ tx.costings \subseteq Costing /\ IsFiniteSet(tx.costings) /\ top \in [Id -> Nat]
      /\ \A p \in tx.products : p.id \in Id
    BY DEF Inv, Typed, TypeOK, Transaction, Preview, Catalogue, Versioned, Product
<1>3. \A i \in Id : LastVersion(tx.costings, i) \in Nat /\ top[i] \in Nat
    BY <1>2, LastIsGreatest
<1>4. top' \in [Id -> Nat]
    BY <1>1, <1>3 DEF Higher
<1>5. Typed'
    BY <1>4, EndImportTyped DEF Inv
<1>6. \A i \in Id : /\ LastVersion(costings', i) <= top'[i]
                    /\ Newest(costings', i, top') = Newest(tx.costings, i, top)
    BY <1>1, <1>3 DEF Newest, Higher
<1>7. Followed(products', costings', top')
    BY <1>1, <1>2, <1>6 DEF Inv, Catalogue, Followed
<1>8. Catalogue(products, costings)'
    BY <1>1, <1>7 DEF Inv, Catalogue
<1> QED
    BY <1>1, <1>5, <1>6, <1>8, ReadyTx DEF Inv

LEMMA AbortImportInv ==
    ASSUME Inv, AbortImport
    PROVE  Inv'
<1>1. pc' = "ready" /\ UNCHANGED <<products, costings, top, nextId>>
    BY DEF AbortImport
<1>2. Typed'
    <2>1. top' \in [Id -> Nat]
        BY <1>1 DEF Inv, Typed, TypeOK
    <2> QED BY <2>1, EndImportTyped DEF Inv
<1>3. Catalogue(products, costings)'
    BY <1>1 DEF Inv, Catalogue
<1>4. (\A i \in Id : LastVersion(costings, i) <= top[i])'
    BY <1>1 DEF Inv
<1> QED
    BY <1>1, <1>2, <1>3, <1>4, ReadyTx DEF Inv


LEMMA NextInv == Inv /\ [Next]_vars => Inv'
<1> SUFFICES ASSUME Inv, [Next]_vars PROVE Inv'
    OBVIOUS
<1>1. CASE SaveByHand
    <2>1. CASE \E n \in Name, e \in Ean \cup {NoEan}, price \in AdminPrice \cup {NoPrice} :
                 \/ SaveProduct(n, e, price, {})
                 \/ \E p \in products : SaveProduct(n, e, price, {p})
        <3> PICK n \in Name, e \in Ean \cup {NoEan}, price \in AdminPrice \cup {NoPrice} :
                 \/ SaveProduct(n, e, price, {})
                 \/ \E p \in products : SaveProduct(n, e, price, {p})
            BY <2>1
        <3> price \in Price \cup {NoPrice}
            BY DEF Price
        <3>1. PICK target : /\ target = {} \/ \E p \in products : target = {p}
                            /\ SaveProduct(n, e, price, target)
            OBVIOUS
        <3> QED BY <3>1, SaveProductInv
    <2>2. CASE \E p \in products, price \in AdminPrice : SaveCosting(p, price)
        BY <2>2, SaveCostingInv
    <2> QED BY <1>1, <2>1, <2>2 DEF SaveByHand
<1>2. CASE ImportStep
    BY <1>2, BeginImportInv, SkipRowInv, ImportRowInv, CommitImportInv, AbortImportInv
       DEF ImportStep
<1>3. CASE \E b \in imports : DeleteImport(b)
    BY <1>3, DeleteImportInv
<1>4. CASE UNCHANGED vars
    BY <1>4 DEF vars, Inv, Typed, TypeOK, Counters, Drawn, TallyBound, Catalogue, KeptSoFar
<1> QED
    BY <1>1, <1>2, <1>3, <1>4 DEF Next

LEMMA Invariance == Spec => []Inv
BY InitInv, NextInv, PTL DEF Spec

-----------------------------------------------------------------------------
(* Theorems *)

\* Every variable keeps its type: no import creates more products than there are
\* ids for, and no tally exceeds the rows of an offer.
THEOREM TypeCorrect == Spec => []TypeOK
<1>1. Inv => TypeOK
    BY DEF Inv, Typed
<1> QED
    BY <1>1, Invariance, PTL

\* No import, and no edit, gives two products one EAN, in the tables or in the
\* transaction that is open (find_product_by_key).
THEOREM EansStayUnique == Spec => []EansUnique
<1>1. Inv => EansUnique
    BY DEF Inv, Catalogue, Keyed, EansUnique
<1> QED
    BY <1>1, Invariance, PTL

\* MAX(version) + 1 is free, also after costings were deleted (save_costing).
THEOREM VersionsStayUnique == Spec => []VersionsUnique
<1>1. Inv => VersionsUnique
    BY DEF Inv, Catalogue, Versioned, VersionsUnique
<1> QED
    BY <1>1, Invariance, PTL

\* The price an import left on a product is the one of its newest costing
\* (upsert_product_by_key, save_costing).
THEOREM AutoPricesFollow == Spec => []AutoPriceFollowsOffer
<1>1. Inv => AutoPriceFollowsOffer
    <2> SUFFICES ASSUME Inv, NEW p \in products, NEW c \in costings,
                        p.origin = "auto", p.price # NoPrice,
                        c.product = p.id, c.version = top[p.id], c.offer # 0
                 PROVE  c.price = p.price
        BY DEF AutoPriceFollowsOffer
    <2>1. p.id \in Id /\ top \in [Id -> Nat] /\ costings \subseteq Costing
            /\ IsFiniteSet(costings)
        BY DEF Inv, Typed, TypeOK, Product, Catalogue, Versioned
    <2>2. Newest(costings, p.id, top) = top[p.id]
        <3>1. LastVersion(costings, p.id) \in Nat /\ top[p.id] \in Nat
                /\ LastVersion(costings, p.id) <= top[p.id]
            BY <2>1, LastIsGreatest DEF Inv
        <3> QED BY <3>1 DEF Newest, Higher
    <2> QED BY <2>2 DEF Inv, Catalogue, Followed
<1> QED
    BY <1>1, Invariance, PTL

\* An import keeps every product, its EAN and the price of an admin
\* (upsert_product_by_key), whatever rows it has and in whatever order.
THEOREM ImportsKeepAdminData == Spec => ImportKeepsAdminData
<1>1. Inv /\ [Next]_vars =>
        [CommitImport => \A p \in products : \E q \in products' :
            /\ q.id = p.id
            /\ p.ean # NoEan => q.ean # NoEan
            /\ p.origin = "human" => q.price = p.price /\ q.origin = "human"]_vars
    BY DEF Inv, KeptSoFar, Kept, CommitImport
<1> QED
    BY <1>1, Invariance, PTL DEF Spec, ImportKeepsAdminData


-----------------------------------------------------------------------------
(* Offers and their costings *)

Of(cs, b) == {c \in cs : c.offer = b}

\* Each batch has the costings it counts, in the tables and beside the open
\* import, whose own count is that of the costings under its id.
Offers ==
    /\ OffersAccounted
    /\ \A a, b \in imports : a.id = b.id => a = b
    /\ \A b \in imports : b.id < nextBatch
    /\ pc = "import" =>
         /\ \A b \in imports : b.id < nextBatch - 1 /\ Of(tx.costings, b.id) = Of(costings, b.id)
         /\ \A c \in tx.costings : c.offer \notin {0, nextBatch - 1}
                                     => \E b \in imports : b.id = c.offer
         /\ tx.tally.costed = Cardinality(Of(tx.costings, nextBatch - 1))

LEMMA OffersStay ==
    ASSUME Offers, pc' = "ready", UNCHANGED <<imports, nextBatch>>,
           \A b : b # 0 => Of(costings', b) = Of(costings, b), Typed
    PROVE  Offers'
<1>1. \A b \in imports : b.id # 0
    BY OfferImportAssumption DEF Typed, TypeOK, Batch
<1>2. \A c \in costings' : c.offer # 0 => c \in costings
    BY DEF Of
<1>3. OffersAccounted'
    BY <1>1, <1>2 DEF Offers, OffersAccounted, Of
<1> QED
    BY <1>3 DEF Offers

LEMMA OffersNext == Inv /\ Inv' /\ Offers /\ [Next]_vars => Offers'
<1> SUFFICES ASSUME Inv, Inv', Offers, [Next]_vars PROVE Offers'
    OBVIOUS
<1>1. /\ Typed /\ nextBatch \in 1..(MaxImports + 1) /\ nextBatch \in Nat
      /\ \A b \in imports : b.id \in Nat
    BY OfferImportAssumption DEF Inv, Typed, TypeOK, Counters, Batch
<1>2. ASSUME NEW n, NEW e, NEW price, NEW target, SaveProduct(n, e, price, target)
      PROVE  Offers'
    BY <1>1, <1>2, OffersStay DEF SaveProduct, Edit
<1>3. ASSUME NEW p \in products, NEW price \in AdminPrice, SaveCosting(p, price)
      PROVE  Offers'
    <2>1. PICK c : c.offer = 0 /\ costings' = costings \cup {c}
        BY <1>3 DEF SaveCosting
    <2>2. \A b : b # 0 => Of(costings', b) = Of(costings, b)
        BY <2>1 DEF Of
    <2> QED BY <1>1, <1>3, <2>2, OffersStay DEF SaveCosting, Edit
<1>4. ASSUME NEW b \in imports, DeleteImport(b)
      PROVE  Offers'
    <2>1. /\ costings' = {c \in costings : c.offer # b.id} /\ imports' = imports \ {b}
          /\ pc' = "ready" /\ nextBatch' = nextBatch
        BY <1>4 DEF DeleteImport, Edit
    <2>2. \A a \in imports' : a.id # b.id
        BY <2>1 DEF Offers
    <2>3. \A a \in imports' : {c \in costings' : c.offer = a.id} = {c \in costings : c.offer = a.id}
        BY <2>1, <2>2
    <2>4. \A c \in costings' : c.offer # 0 => \E a \in imports' : a.id = c.offer
        BY <2>1 DEF Offers, OffersAccounted
    <2>5. OffersAccounted'
        BY <2>1, <2>3, <2>4 DEF Offers, OffersAccounted
    <2> QED BY <2>1, <2>5 DEF Offers
<1>5. CASE BeginImport
    <2>1. /\ tx'.costings = costings /\ tx'.tally = NoTallies /\ nextBatch' = nextBatch + 1
          /\ UNCHANGED <<costings, imports>>
        BY <1>5 DEF BeginImport, NoTx
    <2>2. nextBatch' - 1 = nextBatch
        BY <1>1, <2>1
    <2>3. \A c \in costings : c.offer # nextBatch
        <3> SUFFICES ASSUME NEW c \in costings, c.offer = nextBatch PROVE FALSE
            OBVIOUS
        <3>1. c.offer # 0
            BY <1>1
        <3>2. PICK b \in imports : b.id = nextBatch
            BY <3>1 DEF Offers, OffersAccounted
        <3> QED BY <1>1, <3>2 DEF Offers
    <2>4. tx'.tally.costed = Cardinality(Of(tx'.costings, nextBatch' - 1))
        <3>1. Of(tx'.costings, nextBatch' - 1) = {}
            BY <2>1, <2>2, <2>3 DEF Of
        <3>2. tx'.tally.costed = 0
            BY <2>1 DEF NoTallies
        <3> QED BY <3>1, <3>2, FS_EmptySet
    <2>5. \A b \in imports : b.id < nextBatch' - 1 /\ b.id < nextBatch'
        BY <1>1, <2>1, <2>2 DEF Offers
    <2>6. OffersAccounted'
        BY <2>1 DEF Offers, OffersAccounted
    <2>7. \A c \in tx'.costings : c.offer # 0 => \E b \in imports' : b.id = c.offer
        BY <2>1 DEF Offers, OffersAccounted
    <2> QED BY <2>1, <2>4, <2>5, <2>6, <2>7 DEF Offers
<1>6. CASE SkipRow
    <2>1. /\ tx'.costings = tx.costings /\ tx'.tally.costed = tx.tally.costed
          /\ UNCHANGED <<costings, imports, pc, nextBatch>>
        BY <1>1, <1>6 DEF SkipRow, Typed, TypeOK, Transaction, Preview, Tallies
    <2>2. OffersAccounted'
        BY <2>1 DEF Offers, OffersAccounted
    <2> QED BY <2>1, <2>2 DEF Offers
<1>7. ASSUME NEW row \in OfferRow, ImportRow(row)
      PROVE  Offers'
    <2>1. /\ pc = "import" /\ UNCHANGED <<costings, imports, pc, nextBatch>>
          /\ tx.costings \subseteq Costing /\ Versioned(tx.costings, nextId)
          /\ IsFiniteSet(tx.costings) /\ Keyed(tx.products, nextId) /\ tx.tally \in Tallies
          /\ RowsDone(tx.tally) < MaxRows
        BY <1>1, <1>7 DEF ImportRow, Inv, Catalogue, Versioned, Typed, TypeOK, Transaction, Preview
    <2>2. PICK old, s : \E price \in Price \cup {NoPrice} :
              /\ RowStored(tx.products, row, old, s, price)
              /\ tx' = [products |-> (tx.products \ old) \cup {s},
                        costings |-> tx.costings \cup
                           (IF row.cost # NoCost
                              THEN {RowCosted(tx.costings, row, s, price)} ELSE {}),
                        tally |-> Counted(tx.tally, old = {}, row.cost # NoCost),
                        report |-> Reported(old = {}, price)]
        BY <1>1, <1>7, <2>1, RowImported
    <2>3. PICK price \in Price \cup {NoPrice} :
              /\ RowStored(tx.products, row, old, s, price)
              /\ tx' = [products |-> (tx.products \ old) \cup {s},
                        costings |-> tx.costings \cup
                           (IF row.cost # NoCost
                              THEN {RowCosted(tx.costings, row, s, price)} ELSE {}),
                        tally |-> Counted(tx.tally, old = {}, row.cost # NoCost),
                        report |-> Reported(old = {}, price)]
        BY <2>2
    <2> DEFINE c == RowCosted(tx.costings, row, s, price)
               k == nextBatch - 1
    <2>4. tx'.tally.costed = tx.tally.costed + (IF row.cost # NoCost THEN 1 ELSE 0)
        BY <2>1, <2>3 DEF Counted, Tallies
    <2>5. OffersAccounted'
        BY <2>1 DEF Offers, OffersAccounted
    <2>6. CASE row.cost = NoCost
        <3>1. tx'.costings = tx.costings
            BY <2>3, <2>6
        <3>2. tx'.tally.costed = tx.tally.costed
            BY <2>1, <2>4, <2>6 DEF Tallies, Tally
        <3> QED BY <2>1, <2>5, <3>1, <3>2 DEF Offers
    <2>7. CASE row.cost # NoCost
        <3>1. tx'.costings = tx.costings \cup {c} /\ tx'.tally.costed = tx.tally.costed + 1
            BY <2>3, <2>4, <2>7
        <3>2. c.offer = k /\ c.product = s.id /\ c.version = NextVersion(tx.costings, c.product)
            BY DEF RowCosted
        <3>3. c \in Costing
            BY <1>1, <2>1, <2>3, StoredTyped, CostedTyped
        <3> HIDE DEF c
        <3>4. c \notin tx.costings
            <4>1. \A d \in tx.costings : d.product = c.product => d.version < c.version
                BY <2>1, <3>2, <3>3, VersionAdded
            <4>2. c.version \in Nat
                BY <3>3 DEF Costing
            <4> QED BY <4>1, <4>2
        <3>5. Cardinality(Of(tx'.costings, k)) = Cardinality(Of(tx.costings, k)) + 1
            <4>1. Of(tx'.costings, k) = Of(tx.costings, k) \cup {c}
                BY <3>1, <3>2 DEF Of
            <4>2. IsFiniteSet(Of(tx.costings, k))
                BY <2>1, FS_Subset DEF Of
            <4>3. c \notin Of(tx.costings, k)
                BY <3>4 DEF Of
            <4> HIDE DEF k
            <4> QED BY <4>1, <4>2, <4>3, FS_AddElement
        <3>6. \A b \in imports : b.id # k
            BY <1>1, <2>1 DEF Offers
        <3>7. \A b \in imports : Of(tx'.costings, b.id) = Of(tx.costings, b.id)
            BY <3>1, <3>2, <3>6 DEF Of
        <3>8. \A d \in tx'.costings : d.offer \notin {0, k} => \E b \in imports : b.id = d.offer
            BY <2>1, <3>1, <3>2 DEF Offers
        <3>9. tx'.tally.costed = Cardinality(Of(tx'.costings, k))
            BY <2>1, <3>1, <3>5 DEF Offers
        <3> QED BY <2>1, <2>5, <3>7, <3>8, <3>9 DEF Offers
    <2> QED BY <2>6, <2>7
<1>8. CASE CommitImport
    <2>1. /\ pc = "import" /\ pc' = "ready" /\ costings' = tx.costings /\ nextBatch' = nextBatch
          /\ imports' = imports \cup {[id |-> nextBatch - 1, tally |-> tx.tally]}
        BY <1>8 DEF CommitImport
    <2> DEFINE new == [id |-> nextBatch - 1, tally |-> tx.tally]
    <2>2. new.id = nextBatch - 1 /\ new.tally.costed = Cardinality(Of(costings', new.id))
        BY <2>1 DEF Offers
    <2>3. \A b \in imports : b.id # new.id
        BY <1>1, <2>1 DEF Offers
    <2>4. \A b \in imports : b.tally.costed = Cardinality(Of(costings', b.id))
        BY <2>1 DEF Offers, OffersAccounted, Of
    <2> HIDE DEF new
    <2>5. imports' = imports \cup {new}
        BY <2>1 DEF new
    <2>6. \A b \in imports' : b.tally.costed = Cardinality({c \in costings' : c.offer = b.id})
        BY <2>2, <2>4, <2>5 DEF Of
    <2>7. \A c \in costings' : c.offer # 0 => \E b \in imports' : b.id = c.offer
        BY <2>1, <2>2, <2>5 DEF Offers
    <2>8. \A a, b \in imports' : a.id = b.id => a = b
        BY <2>3, <2>5 DEF Offers
    <2>9. \A b \in imports' : b.id < nextBatch
        BY <1>1, <2>2, <2>5 DEF Offers
    <2>10. OffersAccounted'
        BY <2>6, <2>7 DEF OffersAccounted
    <2> QED BY <2>1, <2>8, <2>9, <2>10 DEF Offers
<1>9. CASE AbortImport
    BY <1>1, <1>9, OffersStay DEF AbortImport
<1>10. CASE UNCHANGED vars
    BY <1>10 DEF vars, Offers, OffersAccounted
<1> QED
    BY <1>2, <1>3, <1>4, <1>5, <1>6, <1>7, <1>8, <1>9, <1>10 DEF Next, SaveByHand, ImportStep

\* The list of imports counts what the tables hold, whatever is imported,
\* deleted and rolled back (run_offer_import, delete_offer_import).
THEOREM OffersStayAccounted == Spec => []OffersAccounted
<1>1. Init => Offers
    BY DEF Init, Offers, OffersAccounted
<1>2. Inv /\ Inv' /\ Offers /\ [Next]_vars => Offers'
    BY OffersNext
<1>3. Offers => OffersAccounted
    BY DEF Offers
<1> QED
    BY <1>1, <1>2, <1>3, Invariance, PTL DEF Spec

-----------------------------------------------------------------------------
(* The preview and the import *)

\* A row as the preview remembers it.
Label == [name: Name, ean: Ean \cup {NoEan}]

\* Rows of different keys have different names and find different products of C.
Apart(C, R) ==
    \A r, q \in R : PreviewKey(r) # PreviewKey(q) =>
        /\ r.name # q.name
        /\ FindByKey(C, r.name, r.ean) \cap FindByKey(C, q.name, q.ean) = {}

\* Product x has no EAN, or that of the product of C which its name finds.
EanKept(C, x, n) == x.ean = NoEan \/ \E p \in FirstNamed(C, n) : p.id = x.id /\ p.ean = x.ean

\* x is what row r leaves of a product.
LeftBy(C, x, r) ==
    /\ x.name = r.name
    /\ r.ean # NoEan => x.ean = r.ean
    /\ r.ean = NoEan => EanKept(C, x, r.name)

\* x has the name of a row of the key of r.
NamedFor(R, x, r) == \E q \in R : PreviewKey(q) = PreviewKey(r) /\ x.name = q.name

\* Of an import that began with the products C, saw the rows R and made the
\* products T of them: what is new in T a row left there, what is gone from C has
\* become what a row it is found by left, and each row has its product in T.
Accounted(C, T, R) == \A x \in T : x \in C \/ \E r \in R : LeftBy(C, x, r)

Replaced(C, T, R) ==
    \A p \in C : p \in T \/ \E r \in R :
        /\ p \in FindByKey(C, r.name, r.ean)
        /\ \E x \in T : x.id = p.id /\ NamedFor(R, x, r)

Present(C, T, R) ==
    \A r \in R : \E x \in T :
        /\ r.ean # NoEan => x.ean = r.ean /\ NamedFor(R, x, r)
        /\ r.ean = NoEan => x.name = r.name /\ EanKept(C, x, r.name)

Traced(C, T, R) == Accounted(C, T, R) /\ Replaced(C, T, R) /\ Present(C, T, R)

\* An import about to take row l, of an offer whose rows are apart.
Midway(C, T, R, l) ==
    /\ C \subseteq Product /\ T \subseteq Product /\ R \subseteq Label /\ l \in Label
    /\ Keyed(C, nextId) /\ Keyed(T, nextId)
    /\ Traced(C, T, R)
    /\ Apart(C, R \cup {l})

\* Keys are equal when the EANs are, or without any when the names are.
LEMMA KeysEqual ==
    ASSUME Name \cap Ean = {}, NEW r \in Label, NEW q \in Label
    PROVE  PreviewKey(r) = PreviewKey(q) <=>
               \/ r.ean # NoEan /\ q.ean = r.ean
               \/ r.ean = NoEan /\ q.ean = NoEan /\ q.name = r.name
<1>1. /\ r.name \in Name /\ r.ean \in Ean \cup {NoEan}
      /\ q.name \in Name /\ q.ean \in Ean \cup {NoEan}
    BY DEF Label
<1> QED BY <1>1 DEF PreviewKey

\* What is found has the EAN or, where nothing has it, is the first of the name.
LEMMA Found ==
    ASSUME NEW ps, NEW n, NEW e, NEW p
    PROVE  p \in FindByKey(ps, n, e) <=>
               \/ p \in ps /\ e # NoEan /\ p.ean = e
               \/ p \in FirstNamed(ps, n) /\ ~ \E q \in ps : e # NoEan /\ q.ean = e
BY DEF FindByKey, WithEan

LEMMA FirstExists ==
    ASSUME NEW ps, ps \subseteq Product, NEW p \in ps
    PROVE  \E q \in ps : q \in FirstNamed(ps, p.name)
<1> DEFINE n == p.name
           ids == {q.id : q \in {r \in ps : r.name = n}}
           cap == MaxImports * MaxRows + MaxEdits
<1>1. ids \subseteq Nat /\ \A i \in ids : i <= cap
    BY DEF Product, Id
<1>2. cap \in Nat
    <2>1. MaxImports \in Nat /\ MaxRows \in Nat /\ MaxEdits \in Nat
        BY OfferImportAssumption
    <2>2. \A x, y \in Nat : x * y \in Nat
        OBVIOUS
    <2> QED BY <2>1, <2>2
<1> DEFINE mirrored == {cap - i : i \in ids}
<1>3. mirrored \in SUBSET Nat /\ \A w \in mirrored : w <= cap
    <2> HIDE DEF ids, cap
    <2> QED BY <1>1, <1>2
<1>4. mirrored # {}
    OBVIOUS
<1>5. IsFiniteSet(mirrored)
    <2> HIDE DEF mirrored, ids, cap
    <2> QED BY <1>2, <1>3, FS_BoundedSetOfNaturals
<1>6. PICK v \in mirrored : \A w \in mirrored : w <= v
    <2> HIDE DEF mirrored, ids, cap
    <2> QED BY <1>3, <1>4, <1>5, Greatest
<1>7. PICK q \in ps : q.name = n /\ v = cap - q.id
    BY <1>6
<1>8. ASSUME NEW r \in ps, r.name = n PROVE q.id <= r.id
    <2>1. cap - r.id <= cap - q.id
        BY <1>6, <1>7, <1>8
    <2>2. r.id \in Nat /\ q.id \in Nat
        BY DEF Product, Id
    <2> HIDE DEF cap
    <2> QED BY <1>2, <2>1, <2>2
<1> QED BY <1>7, <1>8 DEF FirstNamed

\* The first of a name in T, if it is in C at all, is the first of the name there.
LEMMA FirstStill ==
    ASSUME Name \cap Ean = {}, NEW C, NEW T, NEW R, NEW l, Midway(C, T, R, l),
           l.ean = NoEan, NEW b \in FirstNamed(T, l.name), b \in C
    PROVE  b \in FirstNamed(C, l.name)
<1> USE DEF Midway
<1>1. b \in T /\ b.name = l.name /\ \A x \in T : x.name = l.name => b.id <= x.id
    BY DEF FirstNamed
<1>2. PICK p \in C : p \in FirstNamed(C, l.name)
    BY <1>1, FirstExists
<1>3. p.name = l.name /\ p.id <= b.id
    BY <1>1, <1>2 DEF FirstNamed
<1>4. b.id \in Nat /\ p.id \in Nat
    BY DEF Product, Id
<1>5. b = p
    <2>1. CASE p \in T
        <3>1. b.id <= p.id
            BY <1>1, <1>3, <2>1
        <3> QED BY <1>3, <1>4, <3>1 DEF Keyed
    <2>2. CASE p \notin T
        <3>1. PICK r \in R : /\ p \in FindByKey(C, r.name, r.ean)
                             /\ \E x \in T : x.id = p.id /\ NamedFor(R, x, r)
            BY <2>2 DEF Traced, Replaced
        <3>2. p \in FindByKey(C, l.name, l.ean)
            BY <1>2, Found
        <3>3. PreviewKey(r) = PreviewKey(l)
            BY <3>1, <3>2 DEF Apart
        <3>4. PICK x \in T, q \in R : x.id = p.id /\ PreviewKey(q) = PreviewKey(r) /\ x.name = q.name
            BY <3>1 DEF NamedFor
        <3>5. x.name = l.name
            BY <3>3, <3>4, KeysEqual
        <3>6. b.id <= p.id
            BY <1>1, <3>4, <3>5
        <3> QED BY <1>3, <1>4, <3>6 DEF Keyed
    <2> QED BY <2>1, <2>2
<1> QED BY <1>2, <1>5

\* A row with a key of its own finds in T what it finds in C.
LEMMA UnseenFound ==
    ASSUME Name \cap Ean = {}, NEW C, NEW T, NEW R, NEW l, Midway(C, T, R, l),
           \A r \in R : PreviewKey(r) # PreviewKey(l)
    PROVE  FindByKey(T, l.name, l.ean) = FindByKey(C, l.name, l.ean)
<1> USE DEF Midway
<1> DEFINE Match(x) == x.name = l.name \/ (l.ean # NoEan /\ x.ean = l.ean)
           A == FindByKey(C, l.name, l.ean)
<1>1. ASSUME NEW x \in T, Match(x) PROVE x \in C
    <2> SUFFICES ASSUME x \notin C PROVE FALSE
        OBVIOUS
    <2>1. PICK r \in R : LeftBy(C, x, r)
        BY DEF Traced, Accounted
    <2>2. r.name # l.name /\ FindByKey(C, r.name, r.ean) \cap A = {}
        BY DEF Apart
    <2>3. l.ean # NoEan /\ x.ean = l.ean
        BY <1>1, <2>1, <2>2 DEF LeftBy
    <2>4. r.ean = NoEan
        BY <2>1, <2>3, KeysEqual DEF LeftBy
    <2>5. PICK p \in FirstNamed(C, r.name) : p.ean = x.ean
        BY <2>1, <2>3, <2>4 DEF LeftBy, EanKept
    <2>6. p \in C /\ p \in FindByKey(C, r.name, r.ean)
        BY <2>4, <2>5, Found DEF FirstNamed
    <2>7. p \in A
        BY <2>3, <2>5, <2>6, Found
    <2> QED BY <2>2, <2>6, <2>7
<1>2. ASSUME NEW p \in C, p \in A PROVE p \in T
    <2> SUFFICES ASSUME p \notin T PROVE FALSE
        OBVIOUS
    <2>1. PICK r \in R : p \in FindByKey(C, r.name, r.ean)
        BY DEF Traced, Replaced
    <2> QED BY <1>2, <2>1 DEF Apart
<1>3. \A x \in C : l.ean # NoEan /\ x.ean = l.ean => x \in A
    BY Found
<1>4. (\E q \in T : l.ean # NoEan /\ q.ean = l.ean) <=> \E q \in C : l.ean # NoEan /\ q.ean = l.ean
    BY <1>1, <1>2, <1>3
<1>5. CASE \E q \in C : l.ean # NoEan /\ q.ean = l.ean
    <2>1. ASSUME NEW x PROVE x \in FindByKey(T, l.name, l.ean) <=> x \in A
        BY <1>1, <1>2, <1>3, <1>4, <1>5, Found
    <2> QED BY <2>1
<1>6. CASE ~ \E q \in C : l.ean # NoEan /\ q.ean = l.ean
    <2>1. \A x : x \in A <=> x \in FirstNamed(C, l.name)
        BY <1>6, Found
    <2>2. \A x : x \in FindByKey(T, l.name, l.ean) <=> x \in FirstNamed(T, l.name)
        BY <1>4, <1>6, Found
    <2>3. ASSUME NEW x \in FirstNamed(C, l.name) PROVE x \in FirstNamed(T, l.name)
        <3>1. x \in C /\ x \in T
            BY <1>2, <2>1 DEF FirstNamed
        <3> QED BY <1>1, <3>1 DEF FirstNamed
    <2>4. ASSUME NEW x \in FirstNamed(T, l.name) PROVE x \in FirstNamed(C, l.name)
        <3>1. x \in T /\ x.name = l.name /\ x \in C
            BY <1>1 DEF FirstNamed
        <3>2. PICK p \in C : p \in FirstNamed(C, l.name)
            BY <3>1, FirstExists
        <3>3. p \in FirstNamed(T, l.name)
            BY <2>3, <3>2
        <3>4. x.id <= p.id /\ p.id <= x.id /\ x.id \in Nat /\ p.id \in Nat
            BY <3>1, <3>3 DEF FirstNamed, Product, Id
        <3>5. x = p
            BY <3>1, <3>4 DEF Keyed
        <3> QED BY <3>2, <3>5
    <2> QED BY <2>1, <2>2, <2>3, <2>4
<1> QED BY <1>5, <1>6

\* A row whose key has been seen finds something in T.
LEMMA SeenFound ==
    ASSUME Name \cap Ean = {}, NEW C, NEW T, NEW R, NEW l, Midway(C, T, R, l),
           NEW r \in R, PreviewKey(r) = PreviewKey(l)
    PROVE  FindByKey(T, l.name, l.ean) # {}
<1> USE DEF Midway
<1>1. PICK x \in T : /\ r.ean # NoEan => x.ean = r.ean
                     /\ r.ean = NoEan => x.name = r.name
    BY DEF Traced, Present
<1>2. CASE l.ean # NoEan
    <2>1. x.ean = l.ean
        BY <1>1, <1>2, KeysEqual
    <2>2. x \in FindByKey(T, l.name, l.ean)
        BY <1>2, <2>1, Found
    <2> QED BY <2>2
<1>3. CASE l.ean = NoEan
    <2>1. x.name = l.name
        BY <1>1, <1>3, KeysEqual
    <2>2. PICK y \in T : y \in FirstNamed(T, l.name)
        BY <2>1, FirstExists
    <2>3. y \in FindByKey(T, l.name, l.ean)
        BY <1>3, <2>2, Found
    <2> QED BY <2>3
<1> QED BY <1>2, <1>3

\* What l finds has the EAN of l, or the name.
LEMMA FoundMatches ==
    ASSUME NEW ps, NEW l, NEW x \in FindByKey(ps, l.name, l.ean)
    PROVE  /\ x \in ps
           /\ (l.ean # NoEan /\ x.ean = l.ean) \/ x \in FirstNamed(ps, l.name)
           /\ (\E q \in ps : l.ean # NoEan /\ q.ean = l.ean) => l.ean # NoEan /\ x.ean = l.ean
BY Found DEF FirstNamed

\* Where the key of l has been seen and l has an EAN, the product found has it, and
\* the name of a row of that key.
LEMMA SeenByEan ==
    ASSUME Name \cap Ean = {}, NEW C, NEW T, NEW R, NEW l, Midway(C, T, R, l),
           NEW q \in R, PreviewKey(q) = PreviewKey(l), l.ean # NoEan,
           NEW x \in FindByKey(T, l.name, l.ean)
    PROVE  x.ean = l.ean /\ NamedFor(R, x, l)
<1> USE DEF Midway
<1>1. q.ean = l.ean
    BY KeysEqual
<1>2. PICK y \in T : y.ean = q.ean /\ NamedFor(R, y, q)
    BY <1>1 DEF Traced, Present
<1>3. x \in T /\ x.ean = l.ean
    <2>1. \E z \in T : l.ean # NoEan /\ z.ean = l.ean
        BY <1>1, <1>2
    <2> QED BY <2>1, Found
<1>4. x = y
    BY <1>1, <1>2, <1>3 DEF Keyed
<1> QED BY <1>2, <1>3, <1>4 DEF NamedFor

\* The product that makes a row present is found by rows of its key only.
LEMMA PresentFound ==
    ASSUME Name \cap Ean = {}, NEW C, NEW T, NEW R, NEW l, Midway(C, T, R, l),
           NEW x \in FindByKey(T, l.name, l.ean), NEW r \in R,
           r.ean # NoEan => x.ean = r.ean /\ NamedFor(R, x, r),
           r.ean = NoEan => x.name = r.name /\ EanKept(C, x, r.name)
    PROVE  PreviewKey(r) = PreviewKey(l)
<1> USE DEF Midway
<1> SUFFICES ASSUME PreviewKey(r) # PreviewKey(l) PROVE FALSE
    OBVIOUS
<1>1. /\ r.name # l.name
      /\ FindByKey(C, r.name, r.ean) \cap FindByKey(C, l.name, l.ean) = {}
    BY DEF Apart
<1>2. ASSUME NEW q \in R, PreviewKey(q) = PreviewKey(r) PROVE q.name # l.name
    BY <1>2 DEF Apart
<1>3. x.name # l.name
    BY <1>1, <1>2 DEF NamedFor
<1>4. l.ean # NoEan /\ x.ean = l.ean /\ x \in T
    <2>1. x \notin FirstNamed(T, l.name)
        BY <1>3 DEF FirstNamed
    <2> QED BY <2>1, Found
<1>5. r.ean = NoEan /\ x.name = r.name /\ EanKept(C, x, r.name)
    BY <1>4, KeysEqual
<1>6. PICK p \in FirstNamed(C, r.name) : p.id = x.id /\ p.ean = x.ean
    BY <1>4, <1>5 DEF EanKept
<1>7. p \in C /\ p \in FindByKey(C, r.name, r.ean)
    BY <1>5, <1>6, Found DEF FirstNamed
<1>8. p \in FindByKey(C, l.name, l.ean)
    BY <1>4, <1>6, <1>7, Found
<1> QED BY <1>1, <1>7, <1>8

\* What has become of a product of C is found by rows of one key only.
LEMMA ReplacedFound ==
    ASSUME Name \cap Ean = {}, NEW C, NEW T, NEW R, NEW l, Midway(C, T, R, l),
           NEW x \in FindByKey(T, l.name, l.ean), NEW r \in R,
           NEW p \in C, p \notin T, x.id = p.id, NamedFor(R, x, r)
    PROVE  PreviewKey(r) = PreviewKey(l)
<1> USE DEF Midway
<1>1. PICK q \in R : PreviewKey(q) = PreviewKey(r) /\ x.name = q.name
    BY DEF NamedFor
<1>2. CASE \E o \in R : PreviewKey(o) = PreviewKey(l)
    <2> PICK o \in R : PreviewKey(o) = PreviewKey(l)
        BY <1>2
    <2>1. CASE l.ean = NoEan
        <3>1. x.name = l.name
            BY <2>1, FoundMatches DEF FirstNamed
        <3> QED BY <1>1, <3>1 DEF Apart
    <2>2. CASE l.ean # NoEan
        <3>1. PICK z \in R : PreviewKey(z) = PreviewKey(l) /\ x.name = z.name
            BY <2>2, SeenByEan DEF NamedFor
        <3>2. PreviewKey(z) = PreviewKey(q)
            BY <1>1, <3>1 DEF Apart
        <3> QED BY <1>1, <3>1, <3>2
    <2> QED BY <2>1, <2>2
<1>3. CASE \A o \in R : PreviewKey(o) # PreviewKey(l)
    <2>1. FindByKey(T, l.name, l.ean) = FindByKey(C, l.name, l.ean)
        BY <1>3, UnseenFound
    <2>2. x \in C /\ x \in T
        BY <2>1, Found DEF FirstNamed
    <2>3. \A y, z \in C : y.id = z.id => y = z
        BY DEF Keyed
    <2>4. x = p
        BY <2>2, <2>3
    <2> QED BY <2>2, <2>4
<1> QED BY <1>2, <1>3

\* What row l makes of the product it finds.
Taken(T, l, s) ==
    \/ FindByKey(T, l.name, l.ean) = {} /\ s.name = l.name /\ s.ean = l.ean
    \/ \E b \in T : /\ FindByKey(T, l.name, l.ean) = {b}
                    /\ s.id = b.id /\ s.name = l.name
                    /\ s.ean = IF l.ean = NoEan THEN b.ean ELSE l.ean

\* Without an EAN on the row, the product keeps the one it was found with.
LEMMA TakenKeeps ==
    ASSUME Name \cap Ean = {}, NEW C, NEW T, NEW R, NEW l, Midway(C, T, R, l),
           NEW s, Taken(T, l, s), l.ean = NoEan
    PROVE  EanKept(C, s, l.name)
<1> USE DEF Midway
<1>1. CASE FindByKey(T, l.name, l.ean) = {}
    BY <1>1 DEF Taken, EanKept
<1>2. CASE FindByKey(T, l.name, l.ean) # {}
    <2>1. PICK b \in T : FindByKey(T, l.name, l.ean) = {b} /\ s.id = b.id /\ s.ean = b.ean
        BY <1>2 DEF Taken
    <2>2. b \in FirstNamed(T, l.name) /\ b.name = l.name
        BY <2>1, FoundMatches DEF FirstNamed
    <2>3. CASE b \in C
        BY <2>1, <2>2, <2>3, FirstStill DEF EanKept
    <2>4. CASE b \notin C
        <3>1. PICK r \in R : LeftBy(C, b, r)
            BY <2>4 DEF Traced, Accounted
        <3>2. r.name = l.name
            BY <2>2, <3>1 DEF LeftBy
        <3>3. PreviewKey(r) = PreviewKey(l)
            BY <3>2 DEF Apart
        <3>4. r.ean = NoEan
            BY <3>3, KeysEqual
        <3> QED BY <2>1, <3>1, <3>2, <3>4 DEF LeftBy, EanKept
    <2> QED BY <2>3, <2>4
<1> QED BY <1>1, <1>2

\* A product of C that l finds in T is one it finds in C.
LEMMA FoundInBoth ==
    ASSUME Name \cap Ean = {}, NEW C, NEW T, NEW R, NEW l, Midway(C, T, R, l),
           NEW p \in FindByKey(T, l.name, l.ean), p \in C
    PROVE  p \in FindByKey(C, l.name, l.ean)
<1> USE DEF Midway
<1>1. CASE l.ean # NoEan /\ p.ean = l.ean
    BY <1>1, Found
<1>2. CASE l.ean = NoEan
    <2>1. p \in FirstNamed(T, l.name)
        BY <1>2, FoundMatches
    <2>2. p \in FirstNamed(C, l.name)
        BY <1>2, <2>1, FirstStill
    <2> QED BY <1>2, <2>2, Found
<1>3. CASE l.ean # NoEan /\ p.ean # l.ean
    <2>1. \A r \in R : PreviewKey(r) # PreviewKey(l)
        BY <1>3, SeenByEan
    <2> QED BY <2>1, UnseenFound
<1> QED BY <1>1, <1>2, <1>3

LEMMA TracedOn ==
    ASSUME Name \cap Ean = {}, NEW C, NEW T, NEW R, NEW l, Midway(C, T, R, l),
           NEW s, Taken(T, l, s)
    PROVE  Traced(C, (T \ FindByKey(T, l.name, l.ean)) \cup {s}, R \cup {l})
<1> USE DEF Midway
<1> DEFINE B == FindByKey(T, l.name, l.ean)
           T2 == (T \ B) \cup {s}
           R2 == R \cup {l}
<1>1. s.name = l.name /\ (l.ean # NoEan => s.ean = l.ean)
    BY DEF Taken
<1>2. l.ean = NoEan => EanKept(C, s, l.name)
    BY TakenKeeps
<1>3. \A x \in B : x \in T /\ s.id = x.id
    BY FoundMatches DEF Taken
<1>4. \A x, r : NamedFor(R, x, r) => NamedFor(R2, x, r)
    BY DEF NamedFor
<1>5. \A r : PreviewKey(r) = PreviewKey(l) => NamedFor(R2, s, r)
    BY <1>1 DEF NamedFor
<1>6. Accounted(C, T2, R2)
    BY <1>1, <1>2 DEF Traced, Accounted, LeftBy
<1>7. Replaced(C, T2, R2)
    <2> SUFFICES ASSUME NEW p \in C, p \notin T2
                 PROVE  \E r \in R2 : /\ p \in FindByKey(C, r.name, r.ean)
                                      /\ \E x \in T2 : x.id = p.id /\ NamedFor(R2, x, r)
        BY DEF Replaced
    <2> s \in T2 /\ l \in R2
        OBVIOUS
    <2>1. CASE p \in T
        <3>1. p \in B
            BY <2>1
        <3>2. p \in FindByKey(C, l.name, l.ean) /\ s.id = p.id
            BY <1>3, <3>1, FoundInBoth
        <3> HIDE DEF T2, R2
        <3> QED BY <1>5, <3>2
    <2>2. CASE p \notin T
        <3>1. PICK r \in R : /\ p \in FindByKey(C, r.name, r.ean)
                             /\ \E x \in T : x.id = p.id /\ NamedFor(R, x, r)
            BY <2>2 DEF Traced, Replaced
        <3>2. PICK x \in T : x.id = p.id /\ NamedFor(R, x, r)
            BY <3>1
        <3>3. CASE x \notin B
            <4>1. x \in T2 /\ r \in R2
                BY <3>3
            <4> HIDE DEF T2, R2
            <4> QED BY <1>4, <3>1, <3>2, <4>1
        <3>4. CASE x \in B
            <4>1. PreviewKey(r) = PreviewKey(l)
                BY <2>2, <3>2, <3>4, ReplacedFound
            <4>2. s.id = p.id /\ r \in R2
                BY <1>3, <3>2, <3>4
            <4> HIDE DEF T2, R2
            <4> QED BY <1>5, <3>1, <4>1, <4>2
        <3> QED BY <3>3, <3>4
    <2> QED BY <2>1, <2>2
<1>8. Present(C, T2, R2)
    <2> DEFINE Has(x, r, S) == /\ r.ean # NoEan => x.ean = r.ean /\ NamedFor(S, x, r)
                               /\ r.ean = NoEan => x.name = r.name /\ EanKept(C, x, r.name)
    <2>1. Has(s, l, R2)
        BY <1>1, <1>2, <1>5
    <2>2. ASSUME NEW r \in R PROVE \E x \in T2 : Has(x, r, R2)
        <3>1. PICK x \in T : Has(x, r, R)
            BY DEF Traced, Present
        <3>2. CASE x \notin B
            <4>1. Has(x, r, R2) /\ x \in T2
                BY <1>4, <3>1, <3>2
            <4> QED BY <4>1
        <3>3. CASE x \in B
            <4>1. PreviewKey(r) = PreviewKey(l)
                BY <3>1, <3>3, PresentFound
            <4>2. Has(s, r, R2)
                BY <1>1, <1>2, <1>5, <4>1, KeysEqual
            <4> QED BY <4>2
        <3> QED BY <3>2, <3>3
    <2> QED BY <2>1, <2>2 DEF Present
<1> QED BY <1>6, <1>7, <1>8 DEF Traced

\* So far the preview has told what the import does.
Mirrored ==
    /\ preview.tally = tx.tally
    /\ preview.report.action = tx.report.action
    /\ \/ preview.report.price = tx.report.price
       \/ preview.again /\ \E p \in tx.products : p.origin = "human" /\ p.price = tx.report.price

Previewed ==
    pc = "import" /\ Separate => Traced(products, tx.products, preview.rows) /\ Mirrored

LEMMA ImportRowPreviewed ==
    ASSUME Name \cap Ean = {}, Inv, Previewed, NEW row \in OfferRow, ImportRow(row)
    PROVE  Previewed'
<1> DEFINE l == [name |-> row.name, ean |-> row.ean]
           old == FindByKey(tx.products, row.name, row.ean)
           found == FindByKey(products, row.name, row.ean)
           known == IF SeenBefore(row) THEN {} ELSE found
           created == ~SeenBefore(row) /\ found = {}
<1>1. /\ pc = "import" /\ products' = products
      /\ preview' = [rows |-> preview.rows \cup {l},
                     tally |-> Counted(preview.tally, created, row.cost # NoCost),
                     report |-> Reported(created, SellingPrice(row, known)),
                     again |-> SeenBefore(row)]
    BY DEF ImportRow, PreviewRow
<1>2. /\ l \in Label /\ l.name = row.name /\ l.ean = row.ean
      /\ preview.rows \subseteq Label
      /\ tx.products \subseteq Product /\ products \subseteq Product
      /\ SeenBefore(row) <=> \E r \in preview.rows : PreviewKey(r) = PreviewKey(l)
    BY DEF Inv, Typed, TypeOK, Transaction, Preview, Label, OfferRow, SeenBefore, PreviewKey
<1>3. /\ preview'.rows = preview.rows \cup {l}
      /\ preview'.tally = Counted(preview.tally, created, row.cost # NoCost)
      /\ preview'.report = Reported(created, SellingPrice(row, known))
      /\ preview'.again = SeenBefore(row)
    <2> HIDE DEF created, l, known
    <2> QED BY <1>1
<1> HIDE DEF l
<1> SUFFICES ASSUME Separate'
             PROVE  Traced(products, tx'.products, preview'.rows) /\ Mirrored'
    BY <1>1 DEF Previewed
<1>4. Apart(products, preview.rows \cup {l})
    BY <1>1, <1>3 DEF Separate, Apart
<1>5. Separate
    BY <1>4 DEF Separate, Apart
<1>6. Traced(products, tx.products, preview.rows) /\ Mirrored
    BY <1>1, <1>5 DEF Previewed
<1>7. Midway(products, tx.products, preview.rows, l)
    BY <1>2, <1>4, <1>6 DEF Midway, Inv, Catalogue
<1>8. PICK s : \E price \in Price \cup {NoPrice} :
          /\ RowStored(tx.products, row, old, s, price)
          /\ price = SellingPrice(row, old)
          /\ tx'.products = (tx.products \ old) \cup {s}
          /\ tx'.tally = Counted(tx.tally, old = {}, row.cost # NoCost)
          /\ tx'.report = Reported(old = {}, price)
    <2>1. PICK o, s : \E price \in Price \cup {NoPrice} :
              /\ RowStored(tx.products, row, o, s, price)
              /\ o = old
              /\ price = SellingPrice(row, o)
              /\ tx' = [products |-> (tx.products \ o) \cup {s},
                        costings |-> tx.costings \cup
                           (IF row.cost # NoCost
                              THEN {RowCosted(tx.costings, row, s, price)} ELSE {}),
                        tally |-> Counted(tx.tally, o = {}, row.cost # NoCost),
                        report |-> Reported(o = {}, price)]
        BY RowImported DEF Inv, Catalogue
    <2> HIDE DEF old
    <2> QED BY <2>1
<1>9. PICK price \in Price \cup {NoPrice} :
          /\ RowStored(tx.products, row, old, s, price)
          /\ price = SellingPrice(row, old)
          /\ tx'.products = (tx.products \ old) \cup {s}
          /\ tx'.tally = Counted(tx.tally, old = {}, row.cost # NoCost)
          /\ tx'.report = Reported(old = {}, price)
    BY <1>8
<1>10. old = FindByKey(tx.products, l.name, l.ean) /\ found = FindByKey(products, l.name, l.ean)
    BY <1>2
<1> HIDE DEF old, found
<1>11. Traced(products, tx'.products, preview'.rows)
    <2>1. Taken(tx.products, l, s)
        BY <1>2, <1>9, <1>10 DEF RowStored, Taken
    <2>2. Traced(products, (tx.products \ old) \cup {s}, preview.rows \cup {l})
        BY <1>7, <1>10, <2>1, TracedOn
    <2> QED BY <1>3, <1>9, <2>2
<1>12. (old = {}) <=> created
    <2>1. CASE SeenBefore(row)
        <3>1. old # {}
            BY <1>2, <1>7, <1>10, <2>1, SeenFound
        <3> QED BY <2>1, <3>1
    <2>2. CASE ~SeenBefore(row)
        <3>1. old = found
            BY <1>2, <1>7, <1>10, <2>2, UnseenFound
        <3> QED BY <2>2, <3>1
    <2> QED BY <2>1, <2>2
<1>13. \/ SellingPrice(row, known) = price
       \/ SeenBefore(row) /\ s.origin = "human" /\ s.price = price
    <2>1. CASE SeenBefore(row)
        <3>1. known = {}
            BY <2>1
        <3>2. CASE \E p \in old : p.origin = "human" /\ p.price # NoPrice
            <4>1. PICK p \in tx.products : old = {p} /\ s.origin = p.origin
                                             /\ (p.origin = "human" => s.price = p.price)
                BY <1>9, <3>2 DEF RowStored
            <4>2. p.origin = "human" /\ p.price # NoPrice /\ (CHOOSE q \in old : TRUE) = p
                BY <3>2, <4>1
            <4>3. CASE row.cost = NoCost
                BY <1>9, <4>3 DEF SellingPrice
            <4>4. CASE row.cost # NoCost
                BY <1>9, <2>1, <4>1, <4>2, <4>4 DEF SellingPrice
            <4> QED BY <4>3, <4>4
        <3>3. CASE ~ \E p \in old : p.origin = "human" /\ p.price # NoPrice
            BY <1>9, <3>1, <3>3 DEF SellingPrice
        <3> QED BY <3>2, <3>3
    <2>2. CASE ~SeenBefore(row)
        <3>1. old = found
            BY <1>2, <1>7, <1>10, <2>2, UnseenFound
        <3> QED BY <1>9, <2>2, <3>1
    <2> QED BY <2>1, <2>2
<1> HIDE DEF known, created
<1>14. preview'.tally = tx'.tally /\ preview'.report.action = tx'.report.action
    <2>1. \A t, c : Counted(t, old = {}, c) = Counted(t, created, c)
        BY <1>12 DEF Counted
    <2>2. \A x, y : Reported(old = {}, x).action = Reported(created, y).action
        BY <1>12 DEF Reported
    <2> QED BY <1>3, <1>6, <1>9, <2>1, <2>2 DEF Mirrored
<1>15. /\ preview'.report.price = SellingPrice(row, known)
       /\ tx'.report.price = price
    BY <1>3, <1>9 DEF Reported
<1>16. s \in tx'.products
    BY <1>9
<1>17. Mirrored'
    BY <1>3, <1>13, <1>14, <1>15, <1>16 DEF Mirrored
<1> QED BY <1>11, <1>17

\* The preview tells what the import does, row by row, of an offer whose rows are
\* separate, two of one EAN under different names included; but for the price of a
\* row it has seen before, where an admin set one.  No name reads like an EAN: the
\* preview keeps both in one dictionary of keys (run_offer_import, dry_seen).
THEOREM PreviewIsRight ==
    ASSUME Name \cap Ean = {}
    PROVE  Spec => []PreviewMatches
<1>1. Init => Previewed
    BY DEF Init, Previewed
<1>2. Inv /\ Previewed /\ [Next]_vars => Previewed'
    <2> SUFFICES ASSUME Inv, Previewed, [Next]_vars PROVE Previewed'
        OBVIOUS
    <2>1. CASE SaveByHand
        <3>1. pc' = "ready"
            BY <2>1 DEF SaveByHand, SaveProduct, SaveCosting, Edit
        <3> QED BY <3>1 DEF Previewed
    <2>2. CASE \E b \in imports : DeleteImport(b)
        <3>1. pc' = "ready"
            BY <2>2 DEF DeleteImport, Edit
        <3> QED BY <3>1 DEF Previewed
    <2>3. CASE BeginImport
        <3>1. /\ products' = products /\ tx'.products = products /\ preview'.rows = {}
              /\ tx'.tally = preview'.tally /\ tx'.report = preview'.report
            BY <2>3 DEF BeginImport, NoPreview, NoTx
        <3>2. Mirrored'
            BY <3>1 DEF Mirrored
        <3> QED BY <3>1, <3>2 DEF Previewed, Traced, Accounted, Replaced, Present
    <2>4. CASE SkipRow
        <3>1. /\ UNCHANGED <<products, pc>> /\ pc = "import"
              /\ tx' = [tx EXCEPT !.tally.skipped = @ + 1, !.report = SkippedRow]
              /\ preview' = [preview EXCEPT !.tally.skipped = @ + 1, !.report = SkippedRow,
                                            !.again = FALSE]
            BY <2>4 DEF SkipRow
        <3>2. tx \in Transaction /\ preview \in Preview
            BY DEF Inv, Typed, TypeOK
        <3>3. /\ tx'.products = tx.products /\ preview'.rows = preview.rows
              /\ tx'.tally = [tx.tally EXCEPT !.skipped = @ + 1]
              /\ preview'.tally = [preview.tally EXCEPT !.skipped = @ + 1]
              /\ tx'.report = SkippedRow /\ preview'.report = SkippedRow
            BY <3>1, <3>2 DEF Transaction, Preview
        <3>4. Separate' <=> Separate
            BY <3>1, <3>3 DEF Separate
        <3>5. Mirrored => Mirrored'
            BY <3>3 DEF Mirrored
        <3> QED BY <3>1, <3>3, <3>4, <3>5 DEF Previewed
    <2>5. CASE CommitImport \/ AbortImport
        <3>1. pc' = "ready"
            BY <2>5 DEF CommitImport, AbortImport
        <3> QED BY <3>1 DEF Previewed
    <2>6. CASE \E row \in OfferRow : ImportRow(row)
        BY <2>6, ImportRowPreviewed
    <2>7. CASE UNCHANGED vars
        BY <2>7 DEF vars, Previewed, Separate, Mirrored
    <2> QED BY <2>1, <2>2, <2>3, <2>4, <2>5, <2>6, <2>7 DEF Next, ImportStep
<1>3. Previewed => PreviewMatches
    BY DEF Previewed, Mirrored, PreviewMatches
<1> QED
    BY <1>1, <1>2, <1>3, Invariance, PTL DEF Spec
=============================================================================
