------------------------------ MODULE Documents ------------------------------
(***************************************************************************)
(* From the pages of a document to the figures of a dashboard: the worker  *)
(* extracts, corrects, stores and labels (Extraction, Rules), and the web  *)
(* process makes pages of what it finds meanwhile (Dashboard).  Sources:   *)
(* epiproc/ingest/pipeline.py, epiproc/db/invoices.py (insert_record) and  *)
(* epiproc/db/dashboard.py.                                                *)
(***************************************************************************)
EXTENDS Extraction, Dashboard, FiniteSets, SequencesExt

VARIABLES
    rows,     \* invoices with their items
    stored,   \* records stored so far, which numbers the rows
    at,       \* the query that the page under way waits for
    left,     \* suppliers whose data it still wants
    invoices, \* answer of the first query for the first of them
    parts,    \* finished data of the suppliers before
    suppliers, \* of the page
    shown     \* the page, when it is made

table == <<rows, stored>>
reader == <<at, left, invoices, parts, suppliers, shown>>
vars == <<extraction, table, reader>>

Supplier == {Docs[d].supplier : d \in Doc}

\* Rows of the table as a record has them: ids are given in the order of storing.
TypeOK ==
    /\ doc \in Doc \cup {NoDoc}
    /\ phase \in {"idle", "pages", "read", "corrected", "error"}
    /\ phase = "idle" <=> doc = NoDoc
    /\ phase # "idle" => page \in 1..Len(Pages(doc))
    /\ attempt \in 0..(MaxAttempts - 1)
    /\ budget \in Nat
    /\ stray \in Nat
    /\ copied \in BOOLEAN
    /\ copied => phase = "pages" /\ Docs[doc].wrapped /\ stray = 0
    /\ strays \subseteq Doc \X (1..begun)
    /\ \A r \in rows : r.id \in 1..stored /\ r.doc \in Doc
    /\ \A r, q \in rows : r # q => r.id # q.id
    /\ at \in {"closed", "invoices", "items", "shown"}
    /\ left \in Seq(Supplier)
    /\ at \in {"invoices", "items"} <=> left # <<>>
    /\ invoices \subseteq [id : 1..stored, doc : Doc, stray : Nat, labelled : BOOLEAN,
                           data : {r.data : r \in invoices}]
    /\ suppliers \subseteq Supplier

Init ==
    /\ ExtractionInit
    /\ rows = {}
    /\ stored = 0
    /\ at = "closed"
    /\ left = <<>>
    /\ invoices = {}
    /\ parts = <<>>
    /\ shown = NoPage
    /\ suppliers = {}

-----------------------------------------------------------------------------
(* The worker *)

\* A copy has a name of its own.
FileOf(d, copy) == <<Docs[d].file, copy>>

SameFile(r) == FileOf(r.doc, r.stray) = FileOf(doc, stray)

OfSupplier(r) == Docs[r.doc].supplier = Docs[doc].supplier

\* Mutant of Repeated: the number is not looked for.
RepeatedNever == {}

\* process_pdf: an invoice of the supplier with the number is there; LIMIT 1 takes any.
Repeated ==
    {r \in rows : /\ Docs[doc].number # None
                  /\ OfSupplier(r)
                  /\ Docs[r.doc].number = Docs[doc].number}

StaysAsItIs ==
    /\ \E r \in Repeated : ~SameFile(r)
    /\ UNCHANGED <<rows, stored>>

\* insert_record: in place of what the file was stored as before.
Inserted ==
    /\ Repeated = {} \/ \E r \in Repeated : SameFile(r)
    /\ stored' = stored + 1
    /\ rows' = {r \in rows : ~(OfSupplier(r) /\ SameFile(r))} \cup
                 {[id |-> stored + 1, doc |-> doc, stray |-> stray, labelled |-> FALSE,
                   data |-> data]}

Store ==
    /\ phase = "corrected"
    /\ StaysAsItIs \/ Inserted
    /\ Idle
    /\ UNCHANGED <<copied, strays, begun, faults, reader>>

\* categorise_all, here with a category for each description.
Label ==
    /\ phase = "idle"
    /\ \E r \in rows : ~r.labelled
    /\ rows' = {[r EXCEPT !.labelled = TRUE] : r \in rows}
    /\ UNCHANGED <<extraction, stored, reader>>

-----------------------------------------------------------------------------
(* The web process *)

\* get_suppliers: those who have invoices.
Present == {Docs[r.doc].supplier : r \in rows}

\* A page of those of the suppliers that the user may see.
Ask(list) ==
    /\ at = "closed"
    /\ at' = "invoices"
    /\ left' = list
    /\ suppliers' = {list[n] : n \in DOMAIN list}
    /\ UNCHANGED <<extraction, table, invoices, parts, shown>>

\* The first query for a supplier.
ReadInvoices ==
    /\ at = "invoices"
    /\ at' = "items"
    /\ invoices' = InvoicesOf(rows, Head(left))
    /\ UNCHANGED <<extraction, table, left, parts, suppliers, shown>>

\* The second, the departments, and after the last supplier the page.
ReadItems ==
    /\ at = "items"
    /\ \E map \in CustomerMaps(invoices) :
         LET part == SupplierPage(invoices, ItemsOf(rows, Head(left)), map)
         IN  IF Len(left) > 1
               THEN at' = "invoices" /\ parts' = Append(parts, part) /\ UNCHANGED shown
               ELSE at' = "shown" /\ parts' = <<>> /\ shown' = Joined(Append(parts, part))
    /\ left' = Tail(left)
    /\ invoices' = {}
    /\ UNCHANGED <<extraction, table, suppliers>>

Close ==
    /\ at = "shown"
    /\ at' = "closed"
    /\ shown' = NoPage /\ suppliers' = {}
    /\ UNCHANGED <<extraction, table, left, invoices, parts>>

-----------------------------------------------------------------------------
Lists == {SetToSeq(s) : s \in (SUBSET Present) \ {{}}}

Next ==
    \/ ExtractionNext /\ UNCHANGED <<table, reader>>
    \/ Store
    \/ Label
    \/ \E list \in Lists : Ask(list)
    \/ ReadInvoices
    \/ ReadItems
    \/ Close

Spec == Init /\ [][Next]_vars

-----------------------------------------------------------------------------
(* Properties *)

\* A document with a number is in the table once, whatever copies of it a crash or a
\* failed unwrapping left in the scanned folder (_unwrap_embedded_pdf, process_pdf).
StoredOnce ==
    \A r, q \in rows :
        (r # q /\ Docs[r.doc].supplier = Docs[q.doc].supplier)
            => Docs[r.doc].number = None \/ Docs[r.doc].number # Docs[q.doc].number

\* On a page, an item has the department of its invoice, and neither is under "Other"
\* when an invoice of the customer beside it is not, even if the tables changed between
\* the two queries (_apply_dept_normalisation).
DepartmentsAgree ==
    \A i \in shown.invoices :
        /\ \A x \in shown.items : x.row.id = i.row.id => x.dept = i.dept
        /\ i.dept = OtherDept =>
             \A j \in shown.invoices :
                 (Docs[j.row.doc].supplier = Docs[i.row.doc].supplier /\ Customer(i.row.doc) # None
                    /\ Customer(j.row.doc) = Customer(i.row.doc)) => j.dept = OtherDept

\* All views of a page show the same money: categories, alone, by department, by
\* supplier and by month; departments, suppliers and months of the invoices.
ViewsAgree ==
    LET all(f) == SumOver(LAMBDA k : f[k], DOMAIN f)
        items == all(CatTotals(shown))
        total == GrandTotal(shown, suppliers)
    IN  /\ all(CatDept(shown)) = items
        /\ all(CatSupplier(shown)) = items
        /\ all(MonthlyCat(shown)) + SumOver(Price, Priced(shown.items) \ Dated(shown.items)) = items
        /\ all(DeptTotals(shown)) = total
        /\ all(MonthlySup(shown)) + SumOver(Total, Totalled(shown.invoices) \ Dated(shown.invoices))
             = total

Within(a, b, cents) == a - b <= cents /\ b - a <= cents

\* Two views show the items of an invoice and its total.  Where a page has both, and no
\* warning, they agree to within rounding, or differ by the charges and discounts that the
\* invoice states; of a credit note the items are then those of its subtotal at least.
\* Silent all the same, against the docstring of _reconcile_totals, are an invoice without
\* line items and the charges of a credit note; and an invoice whose items are not on the
\* page, because the supplier's credit notes are kept out of them or the row was replaced
\* between the two queries (_dash_cat_totals, _dash_sup_totals).
NoSilentGap ==
    \A i \in Totalled(shown.invoices) :
        LET items == {x \in shown.items : x.row.id = i.row.id}
            sum == SumOver(Price, Priced(items))
            totals == i.row.data.totals
            credit == i.row.data.credit
        IN  (items # {} /\ ~i.row.data.warned) =>
              \/ Within(sum, Total(i), 2)
              \/ ~credit /\ Within(Total(i) - sum, Charges(totals), 4)
              \/ credit /\ IsNumber(totals["subtotal"]) /\ Within(sum, totals["subtotal"], 2)

=============================================================================
