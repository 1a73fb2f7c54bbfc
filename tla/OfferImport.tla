---------------------------- MODULE OfferImport ----------------------------
(***************************************************************************)
(* The product catalogue, its versioned costings and the supplier offers   *)
(* that feed both.  Sources: epiproc/db/costing.py (upsert_product,        *)
(* find_product_by_key, upsert_product_by_key, save_costing,               *)
(* delete_offer_import), epiproc/costing/offer_import.py (run_offer_import)*)
(* and the handlers of epiproc/web/routers/costing.py.                     *)
(*                                                                         *)
(* The handlers are coroutines that do not await once they have read the   *)
(* form, in the one process of the web server: no two of them overlap.  An *)
(* import is one transaction, a step per row; it may raise or the process  *)
(* may die, and nothing of it stays.  Next to it runs the preview that the *)
(* admin saw: the same rows on the committed tables.                       *)
(*                                                                         *)
(* Prices stand for selling and retail price, which share their origin and *)
(* their rules.  An EAN of another length than 8 or 13 counts as none.     *)
(***************************************************************************)
EXTENDS Naturals, FiniteSets

CONSTANTS
    Name,         \* product names
    Ean,          \* valid EANs
    Cost,         \* direct costs that the calculation can give
    TargetOf,     \* [Cost -> price that reaches the target margin]
    AdminPrice,   \* prices that admins type
    NoEan, NoCost, NoPrice,
    MaxImports,   \* bound: imports begun
    MaxRows,      \* bound: rows of an offer
    MaxEdits      \* bound: products and costings saved by hand, offers deleted

Price == {TargetOf[c] : c \in Cost} \cup AdminPrice

ASSUME OfferImportAssumption ==
    /\ NoEan \notin Ean
    /\ NoCost \notin Cost
    /\ NoPrice \notin Price
    /\ {MaxImports, MaxRows, MaxEdits} \subseteq Nat

VARIABLES
    products,   \* rows of `products`
    costings,   \* rows of `costings`
    imports,    \* rows of `offer_imports`
    nextId,     \* products.id sequence
    nextBatch,  \* offer_imports.id sequence
    pc,         \* "ready", or "import" while a confirmed import runs
    tx,         \* what the import's transaction sees, its tallies, its report of the last row
    preview,    \* the rows the preview has seen, its tallies, its report of the last row
    top,        \* history: highest version ever committed of each product
    edits       \* edits so far

vars == <<products, costings, imports, nextId, nextBatch, pc, tx, preview, top, edits>>

Id == 1..(MaxImports * MaxRows + MaxEdits)
Batch == 1..MaxImports
Tally == 0..MaxRows

\* A row of an offer, as the parser leaves it; NoCost when it is not costable.
OfferRow == [name: Name, ean: Ean \cup {NoEan}, cost: Cost \cup {NoCost}]

Product == [id: Id, name: Name, ean: Ean \cup {NoEan}, price: Price \cup {NoPrice},
            origin: {"human", "auto"}]

\* offer = 0: saved by hand in the calculator.
Costing == [product: Id, version: Nat, offer: Batch \cup {0}, price: Price \cup {NoPrice}]

Tallies == [created: Tally, updated: Tally, costed: Tally, skipped: Tally]
NoTallies == [created |-> 0, updated |-> 0, costed |-> 0, skipped |-> 0]

\* What the review table and the result show of a row.
Report == [action: {"skipped", "created", "updated"}, price: Price \cup {NoPrice}]
SkippedRow == [action |-> "skipped", price |-> NoPrice]

Transaction == [products: SUBSET Product, costings: SUBSET Costing, tally: Tallies, report: Report]
NoTx == [products |-> {}, costings |-> {}, tally |-> NoTallies, report |-> SkippedRow]

\* again: the last row is one that the preview has seen before.
Preview == [rows: SUBSET [name: Name, ean: Ean \cup {NoEan}], tally: Tallies,
            report: Report, again: BOOLEAN]
NoPreview == [rows |-> {}, tally |-> NoTallies, report |-> SkippedRow, again |-> FALSE]

TypeOK ==
    /\ products \in SUBSET Product
    /\ costings \in SUBSET Costing
    /\ imports \in SUBSET [id: Batch, tally: Tallies]
    /\ nextId \in Nat
    /\ nextBatch \in Nat
    /\ pc \in {"ready", "import"}
    /\ tx \in Transaction
    /\ preview \in Preview
    /\ top \in [Id -> Nat]
    /\ edits \in 0..MaxEdits
    /\ pc = "ready" => tx = NoTx

Init ==
    /\ products = {}
    /\ costings = {}
    /\ imports = {}
    /\ nextId = 1
    /\ nextBatch = 1
    /\ pc = "ready"
    /\ tx = NoTx
    /\ preview = NoPreview
    /\ top = [i \in Id |-> 0]
    /\ edits = 0

-----------------------------------------------------------------------------
Edit == pc = "ready" /\ edits < MaxEdits /\ edits' = edits + 1

RowsDone(t) == t.created + t.updated + t.skipped

WithEan(ps, e) == {p \in ps : e # NoEan /\ p.ean = e}

\* get_product_by_name: the first of the name.
FirstNamed(ps, n) == {p \in ps : p.name = n /\ \A q \in ps : q.name = n => p.id <= q.id}

\* Mutant of FindByKey: by name alone.
FindByName(ps, n, e) == FirstNamed(ps, n)

\* find_product_by_key: no product, or one.
FindByKey(ps, n, e) ==
    IF WithEan(ps, e) # {} THEN WithEan(ps, e) ELSE FirstNamed(ps, n)

LastVersion(cs, id) ==
    LET versions == {c.version : c \in {d \in cs : d.product = id}} \cup {0}
    IN  CHOOSE v \in versions : \A w \in versions : w <= v

\* Mutant of NextVersion: read on a connection of its own, outside the import.
NextVersionOutside(cs, id) == LastVersion(costings, id) + 1

\* save_costing: MAX(version) + 1 over the versions that are there.
NextVersion(cs, id) == LastVersion(cs, id) + 1

Higher(a, b) == IF a > b THEN a ELSE b

-----------------------------------------------------------------------------
(* Admin edits *)

\* upsert_product: by id, else by EAN, else a new row; the price is human from
\* now on.  An EAN of another product raises, and nothing is saved.
SaveProduct(n, e, price, target) ==
    /\ Edit
    /\ target \subseteq products
    /\ target = {} => WithEan(products, e) = {}
    /\ WithEan(products, e) \subseteq target
    /\ LET id == IF target = {} THEN nextId ELSE (CHOOSE p \in target : TRUE).id
       IN  products' = (products \ target)
                         \cup {[id |-> id, name |-> n, ean |-> e, price |-> price,
                                origin |-> "human"]}
    /\ nextId' = IF target = {} THEN nextId + 1 ELSE nextId
    /\ UNCHANGED <<costings, imports, nextBatch, pc, tx, preview, top>>

\* calculator_save
SaveCosting(p, price) ==
    /\ Edit
    /\ p \in products
    /\ LET v == NextVersion(costings, p.id)
       IN  /\ costings' = costings \cup
                {[product |-> p.id, version |-> v, offer |-> 0, price |-> price]}
           /\ top' = [top EXCEPT ![p.id] = Higher(v, @)]
    /\ UNCHANGED <<products, imports, nextId, nextBatch, pc, tx, preview>>

\* delete_offer_import: its costings, then its batch row; products stay.
DeleteImport(b) ==
    /\ Edit
    /\ b \in imports
    /\ costings' = {c \in costings : c.offer # b.id}
    /\ imports' = imports \ {b}
    /\ UNCHANGED <<products, nextId, nextBatch, pc, tx, preview, top>>

-----------------------------------------------------------------------------
(* run_offer_import *)

\* The batch row is opened first: its id is drawn whatever becomes of the import.
BeginImport ==
    /\ pc = "ready"
    /\ nextBatch <= MaxImports
    /\ pc' = "import"
    /\ nextBatch' = nextBatch + 1
    /\ tx' = [NoTx EXCEPT !.products = products, !.costings = costings]
    /\ preview' = NoPreview
    /\ UNCHANGED <<products, costings, imports, nextId, top, edits>>

\* Mutant of Upserted: the price is assigned whatever its origin.
UpsertedOutright(row, found, price) ==
    IF found = {}
      THEN {[id |-> nextId, name |-> row.name, ean |-> row.ean, price |-> price,
             origin |-> "auto"]}
      ELSE {[p EXCEPT !.name = row.name,
                      !.ean = IF row.ean = NoEan THEN @ ELSE row.ean,
                      !.price = price] : p \in found}

\* Mutant of Upserted: COALESCE keeps the first price.
UpsertedFrozen(row, found, price) ==
    IF found = {}
      THEN {[id |-> nextId, name |-> row.name, ean |-> row.ean, price |-> price,
             origin |-> "auto"]}
      ELSE {[p EXCEPT !.name = row.name,
                      !.ean = IF row.ean = NoEan THEN @ ELSE row.ean,
                      !.price = IF @ # NoPrice THEN @ ELSE price] : p \in found}

\* upsert_product_by_key, on the product found, if any.
Upserted(row, found, price) ==
    IF found = {}
      THEN {[id |-> nextId, name |-> row.name, ean |-> row.ean, price |-> price,
             origin |-> "auto"]}
      ELSE {[p EXCEPT !.name = row.name,
                      !.ean = IF row.ean = NoEan THEN @ ELSE row.ean,
                      !.price = IF p.origin = "human" THEN @ ELSE price] : p \in found}

\* Only a price that an admin set is kept; any other is computed from the cost,
\* when there is one.
SellingPrice(row, found) ==
    IF row.cost = NoCost THEN NoPrice
    ELSE IF \E p \in found : p.origin = "human" /\ p.price # NoPrice
      THEN (CHOOSE p \in found : TRUE).price
      ELSE TargetOf[row.cost]

\* Mutant of Counted: rows without a costing are counted as costed.
CountedAll(tally, created, costable) ==
    [tally EXCEPT !.created = @ + (IF created THEN 1 ELSE 0),
                  !.updated = @ + (IF created THEN 0 ELSE 1),
                  !.costed = @ + 1]

Counted(tally, created, costable) ==
    [tally EXCEPT !.created = @ + (IF created THEN 1 ELSE 0),
                  !.updated = @ + (IF created THEN 0 ELSE 1),
                  !.costed = @ + (IF costable THEN 1 ELSE 0)]

\* The preview knows a row by its EAN, or else by its name.
PreviewKey(row) == IF row.ean # NoEan THEN row.ean ELSE row.name

\* Mutant of SeenBefore: each row is compared with the committed tables only.
NotRemembered(row) == FALSE

SeenBefore(row) == \E r \in preview.rows : PreviewKey(r) = PreviewKey(row)

Reported(created, price) ==
    [action |-> IF created THEN "created" ELSE "updated", price |-> price]

\* The preview looks for the row among those it has seen, of which it keeps no
\* origin of the price, and then in the committed tables.
PreviewRow(row) ==
    LET found == FindByKey(products, row.name, row.ean)
        created == ~SeenBefore(row) /\ found = {}
        price == SellingPrice(row, IF SeenBefore(row) THEN {} ELSE found)
    IN  preview' = [rows |-> preview.rows \cup {[name |-> row.name, ean |-> row.ean]},
                    tally |-> Counted(preview.tally, created, row.cost # NoCost),
                    report |-> Reported(created, price),
                    again |-> SeenBefore(row)]

SkipRow ==
    /\ pc = "import"
    /\ RowsDone(tx.tally) < MaxRows
    /\ tx' = [tx EXCEPT !.tally.skipped = @ + 1, !.report = SkippedRow]
    /\ preview' = [preview EXCEPT !.tally.skipped = @ + 1, !.report = SkippedRow, !.again = FALSE]
    /\ UNCHANGED <<products, costings, imports, nextId, nextBatch, pc, top, edits>>

ImportRow(row) ==
    /\ pc = "import"
    /\ RowsDone(tx.tally) < MaxRows
    /\ LET found == FindByKey(tx.products, row.name, row.ean)
           costable == row.cost # NoCost
           price == SellingPrice(row, found)
           stored == Upserted(row, found, price)
           id == (CHOOSE p \in stored : TRUE).id
           costing == [product |-> id, version |-> NextVersion(tx.costings, id),
                       offer |-> nextBatch - 1, price |-> price]
       IN  /\ tx' = [products |-> (tx.products \ found) \cup stored,
                     costings |-> tx.costings \cup (IF costable THEN {costing} ELSE {}),
                     tally |-> Counted(tx.tally, found = {}, costable),
                     report |-> Reported(found = {}, price)]
           /\ nextId' = IF found = {} THEN nextId + 1 ELSE nextId
    /\ PreviewRow(row)
    /\ UNCHANGED <<products, costings, imports, nextBatch, pc, top, edits>>

\* The counts are written to the batch row and the transaction commits.
CommitImport ==
    /\ pc = "import"
    /\ tx.tally.created + tx.tally.updated > 0
    /\ products' = tx.products
    /\ costings' = tx.costings
    /\ imports' = imports \cup {[id |-> nextBatch - 1, tally |-> tx.tally]}
    /\ top' = [i \in Id |-> Higher(LastVersion(tx.costings, i), top[i])]
    /\ pc' = "ready"
    /\ tx' = NoTx
    /\ preview' = NoPreview
    /\ UNCHANGED <<nextId, nextBatch, edits>>

\* A row raises, or the process dies: the transaction rolls back.
AbortImport ==
    /\ pc = "import"
    /\ pc' = "ready"
    /\ tx' = NoTx
    /\ preview' = NoPreview
    /\ UNCHANGED <<products, costings, imports, nextId, nextBatch, top, edits>>

-----------------------------------------------------------------------------
SaveByHand ==
    \/ \E n \in Name, e \in Ean \cup {NoEan}, price \in AdminPrice \cup {NoPrice} :
         \/ SaveProduct(n, e, price, {})
         \/ \E p \in products : SaveProduct(n, e, price, {p})
    \/ \E p \in products, price \in AdminPrice : SaveCosting(p, price)

ImportStep ==
    \/ BeginImport \/ SkipRow \/ CommitImport \/ AbortImport
    \/ \E row \in OfferRow : ImportRow(row)

Next == SaveByHand \/ ImportStep \/ \E b \in imports : DeleteImport(b)

Spec == Init /\ [][Next]_vars
-----------------------------------------------------------------------------
(* Properties *)

\* No row of an offer makes two products share an EAN, which would raise and
\* "roll back the whole batch" (offer_import.py:439-442): the UNIQUE constraint
\* never fires inside an import.
EansUnique ==
    \A ps \in {products, tx.products} : \A p, q \in ps :
        p.ean = q.ean /\ p.ean # NoEan => p = q

\* An import "never touches the money" that an admin set (db/costing.py:196-208),
\* drops no product and wipes no EAN.
ImportKeepsAdminData ==
    [][CommitImport => \A p \in products : \E q \in products' :
          /\ q.id = p.id
          /\ p.ean # NoEan => q.ean # NoEan
          /\ p.origin = "human" => q.price = p.price /\ q.origin = "human"]_vars

\* "an auto price must follow the latest [offer] rather than freeze at the first
\* import" (db/costing.py:199-200, docs/costing.md:274-286): the price an import
\* left on a product is the one of its newest costing, unless that one was saved
\* by hand or deleted.  docs/costing.md:181-182 still says the opposite.
AutoPriceFollowsOffer ==
    \A p \in products, c \in costings :
        /\ p.origin = "auto" /\ p.price # NoPrice
        /\ c.product = p.id /\ c.version = top[p.id] /\ c.offer # 0
        => c.price = p.price

\* UNIQUE (product_id, version) never fires (db/costing.py:516-518).
VersionsUnique ==
    \A cs \in {costings, tx.costings} : \A c, d \in cs :
        c.product = d.product /\ c.version = d.version => c = d

\* The history list counts what the tables hold (db/costing.py:304-316): every
\* imported costing has its offer, and an offer as many as it says it made.
OffersAccounted ==
    /\ \A c \in costings : c.offer # 0 => \E b \in imports : b.id = c.offer
    /\ \A b \in imports : b.tally.costed = Cardinality({c \in costings : c.offer = b.id})

\* Rows the preview takes for different products have different names and find
\* different products in the catalogue.
Separate ==
    \A r, s \in preview.rows : PreviewKey(r) # PreviewKey(s) =>
        /\ r.name # s.name
        /\ FindByKey(products, r.name, r.ean) \cap FindByKey(products, s.name, s.ean) = {}

\* "dry_run computes and reports identically" (offer_import.py:403-404), row by
\* row, of an offer whose rows are Separate: the same tallies, the same action, and
\* the same price but for a row the preview has seen before, of a product with an
\* admin's price, which the import keeps and the preview has forgotten.  That last
\* case, and offers that are not Separate, are against "mirror the transactional run
\* exactly" (offer_import.py:447-449).
PreviewMatches ==
    pc = "import" /\ Separate =>
        /\ preview.tally = tx.tally
        /\ preview.report.action = tx.report.action
        /\ \/ preview.report.price = tx.report.price
           \/ /\ preview.again
              /\ \E p \in tx.products : p.origin = "human" /\ p.price = tx.report.price
=============================================================================
