------------------------------ MODULE Dashboard ------------------------------
(***************************************************************************)
(* The figures of the dashboards.  Sources: epiproc/db/dashboard.py and    *)
(* epiproc/normalisation.py.                                               *)
(*                                                                         *)
(* A page is made of two queries for each supplier, which may see the      *)
(* tables at two times, and of sums over what they returned.  A row is an  *)
(* invoice as it was stored, with the document it came from; an address is *)
(* the set of words the departments' patterns may be found in.             *)
(***************************************************************************)
EXTENDS Rules

CONSTANTS
    NegativeTypes,  \* suppliers whose credit notes are kept out of the items
    Passthrough,    \* [supplier -> words of a payer who pays for others]
    Departments,    \* departments.yml: a sequence of names with their patterns
    Shared,         \* "Shared Services"
    OtherDept,      \* "Other"
    DisplayName     \* [supplier -> its name on the pages]

ASSUME DashboardAssumption == \A d \in Doc : Docs[d].date \in Nat \cup {None}

-----------------------------------------------------------------------------
(* Departments *)

\* dept_from_combo: the first entry with a pattern in the text.
FirstMatch(words) ==
    LET hits == {n \in DOMAIN Departments : Departments[n].patterns \cap words # {}}
    IN  IF hits = {} THEN None
        ELSE Departments[CHOOSE n \in hits : \A m \in hits : n <= m].name

Specific(dept) == IF dept = Shared THEN None ELSE dept

\* norm_dept: what the buyer's address says, unless the payer pays for others; where it
\* was sent; where it was sold; the department or the name of the buyer alone.
Normalised(d) ==
    LET a == Docs[d].address
        combo == a.name \cup a.department \cup a.street
        payer == combo \cap Passthrough[Docs[d].supplier] # {}
        found == <<IF payer THEN None ELSE Specific(FirstMatch(combo)),
                   FirstMatch(a.ship), FirstMatch(a.sold),
                   Specific(FirstMatch(a.department)), Specific(FirstMatch(a.name))>>
        hits == {n \in DOMAIN found : found[n] # None}
    IN  IF hits = {} THEN OtherDept ELSE found[CHOOSE n \in hits : \A m \in hits : n <= m]

Customer(d) == Docs[d].customer

\* ORDER BY invoice_date DESC, where Postgres puts no date first.
Before(r, s) ==
    LET x == Docs[r.doc].date
        y == Docs[s.doc].date
    IN  x # y /\ (x = None \/ (y # None /\ x > y))

\* Of each customer, invoices that may be the first with a department.
Knowing(invoices, c) ==
    LET known == {r \in invoices : Customer(r.doc) = c /\ Normalised(r.doc) # OtherDept}
    IN  {r \in known : \A s \in known : ~Before(s, r)}

\* customer_dept_map
CustomerMaps(invoices) ==
    LET customers == {c \in {Customer(r.doc) : r \in invoices} \ {None} :
                        Knowing(invoices, c) # {}}
    IN  {m \in [customers -> invoices] : \A c \in customers : m[c] \in Knowing(invoices, c)}

\* An invoice, or an item without one, under "Other" takes its customer's department.
Resolved(d, map) ==
    IF Normalised(d) = OtherDept /\ Customer(d) \in DOMAIN map
      THEN Normalised(map[Customer(d)].doc) ELSE Normalised(d)

\* Mutant of ItemDept: nothing is learnt for items.
ItemDeptAlone(i, map) == Normalised(i.row.doc)

ItemDept(i, map) == Resolved(i.row.doc, map)

-----------------------------------------------------------------------------
(* The two queries *)

\* _INVOICES_SQL
InvoicesOf(rows, supplier) ==
    {r \in rows : Docs[r.doc].supplier = supplier /\ ~Docs[r.doc].marked}

\* _items_sql, which does not look at the number.
ItemsOf(rows, supplier) ==
    UNION {[row : {r}, n : DOMAIN r.data.lines] : r \in
             {q \in rows : /\ Docs[q.doc].supplier = supplier
                           /\ ~(supplier \in NegativeTypes /\ q.data.credit)}}

\* get_dashboard_data: nothing is shown when there is no invoice.  An item has the
\* department of its invoice; one whose invoice was not returned gets what its own
\* copy of the address says, which is the same.
SupplierPage(invoices, items, map) ==
    [invoices |-> {[row |-> r, dept |-> Resolved(r.doc, map)] : r \in invoices},
     items |-> IF invoices = {} THEN {}
               ELSE {[row |-> i.row, n |-> i.n, dept |-> ItemDept(i, map)] : i \in items}]

NoPage == [invoices |-> {}, items |-> {}]

\* get_multi_dashboard_data, for the rows: those of every supplier.
Joined(pages) ==
    [invoices |-> UNION {pages[n].invoices : n \in DOMAIN pages},
     items |-> UNION {pages[n].items : n \in DOMAIN pages}]

-----------------------------------------------------------------------------
(* The sums *)

Price(i) == i.row.data.lines[i.n].price
Priced(items) == {i \in items : IsNumber(Price(i))}

Total(i) == i.row.data.totals["total"]
Totalled(invoices) == {i \in invoices : IsNumber(Total(i))}

Category(i) ==
    LET c == i.row.data.lines[i.n].description
    IN  IF i.row.labelled /\ c # None THEN c ELSE "Uncategorised"

\* Mutant of Name: the supplier's key.
NameAsKey(i) == Docs[i.row.doc].supplier

Name(i) == DisplayName[Docs[i.row.doc].supplier]

Date(i) == Docs[i.row.doc].date
Dated(s) == {i \in s : IsNumber(Date(i))}
Month(i) == Date(i) \div 100

SumOver(value(_), s) ==
    MapThenFoldSet(LAMBDA a, b : a + b, 0, value, LAMBDA t : CHOOSE x \in t : TRUE, s)

\* The defaultdicts: what is summed for each key.
SumBy(key(_), value(_), s) ==
    [k \in {key(i) : i \in s} |-> SumOver(value, {i \in s : key(i) = k})]

CatTotals(page) == SumBy(Category, Price, Priced(page.items))
DeptTotals(page) == SumBy(LAMBDA i : i.dept, Total, Totalled(page.invoices))
CatDept(page) == SumBy(LAMBDA i : <<Category(i), i.dept>>, Price, Priced(page.items))
CatSupplier(page) == SumBy(LAMBDA i : <<Category(i), Name(i)>>, Price, Priced(page.items))
MonthlyCat(page) == SumBy(LAMBDA i : <<Month(i), Category(i)>>, Price, Dated(Priced(page.items)))
MonthlySup(page) == SumBy(LAMBDA i : <<Month(i), Name(i)>>, Total, Dated(Totalled(page.invoices)))

\* sup_totals, one for each supplier of the page, found by the name that is displayed.
SupTotals(page, suppliers) ==
    [s \in suppliers |->
       SumOver(Total, {i \in Totalled(page.invoices) : Name(i) = DisplayName[s]})]

GrandTotal(page, suppliers) ==
    LET totals == SupTotals(page, suppliers)
    IN  SumOver(LAMBDA s : totals[s], suppliers)

=============================================================================
