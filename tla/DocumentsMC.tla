----------------------------- MODULE DocumentsMC -----------------------------
EXTENDS Documents

Line(position, article, description, price, row) ==
    [position |-> position, article |-> article, description |-> description,
     price |-> price, rows |-> {row}]

Totals(subtotal, total, vat, discount) ==
    [k \in TotalKey |-> CASE k = "subtotal" -> subtotal
                           [] k = "total" -> total
                           [] k = "vat_amount" -> vat
                           [] k = "discount_amount" -> discount
                           [] OTHER -> None]

NoTotals == Totals(None, None, None, None)

PageOf(size, credit, lines, totals) ==
    [size |-> size,
     answer |-> [credit |-> credit, lines |-> lines, totals |-> totals, warned |-> FALSE]]

Address(name, department, ship) ==
    [name |-> name, department |-> department, street |-> {}, ship |-> ship, sold |-> {}]

Printing(file, supplier, number, wrapped, pages, date, customer, address) ==
    [file |-> file, supplier |-> supplier, number |-> number, wrapped |-> wrapped,
     pages |-> pages, date |-> date, customer |-> customer, address |-> address,
     marked |-> FALSE]

\* Page 2 repeats a line of page 1 with a new price and is cut short twice.
TwoPages ==
    Printing("f1", "s1", "n1", FALSE,
           <<PageOf(4, FALSE, <<Line(1, "a", "w", 100, 1), Line(2, None, "g", 200, 2)>>, NoTotals),
             PageOf(16, FALSE, <<Line(2, "b", "g", 250, 2), Line(3, "c", "w", 300, 3)>>,
                    Totals(650, 730, 130, 50))>>,
           20260115, "c1", Address({"bio"}, {}, {}))

\* Numbering starts again on page 2, which ends with a customs summary.
Restarts ==
    Printing("f2", "s1", "n2", FALSE,
           <<PageOf(4, FALSE, <<Line(1, "a", "w", 100, 1)>>, NoTotals),
             PageOf(4, FALSE, <<Line(1, "b", "g", 40, 2), Line(2, None, "hs", 140, 3)>>,
                    Totals(None, 140, None, None))>>,
           None, "c1", Address({}, {}, {}))

\* Another version of the first file, wrapped, whose total hides a charge; the buyer's
\* name is that of a payer.
Wrapped ==
    Printing("f1", "s1", "n3", TRUE,
           <<PageOf(5, FALSE, <<Line(1, "a", "w", 10000, 1), Line(2, "b", None, None, 2)>>,
                    Totals(10000, 10050, None, None))>>,
           20260201, None, Address({"payer", "bio"}, {}, {"chem"}))

\* A wrapped credit note without a department that takes every attempt there is, with a
\* charge in its total only.
Credit ==
    Printing("f4", "s2", "n4", TRUE,
           <<PageOf(8, TRUE, <<Line(1, "a", "w", 500, 1)>>, Totals(500, 520, None, None))>>,
           20260215, "c1", Address({"shared"}, {}, {}))

\* Rounded twice, and a page that does not fit at all.
Rounded ==
    Printing("f5", "s2", None, FALSE,
           <<PageOf(1, FALSE, <<Line(1, "a", "w", 101, 1)>>, Totals(103, 105, None, None))>>,
           None, "c1", Address({}, {"chem"}, {}))

TooLong ==
    Printing("f6", "s1", None, FALSE,
           <<PageOf(17, FALSE, <<Line(1, "a", "w", 100, 1)>>, NoTotals)>>,
           None, None, Address({}, {}, {}))

\* No lines, and only a subtotal.
Lineless ==
    Printing("f7", "s1", "n7", FALSE,
           <<PageOf(1, FALSE, <<>>, Totals(500, None, None, None))>>,
           20260301, "c1", Address({"bio"}, {}, {}))

MCDocs == [d1 |-> TwoPages, d2 |-> Restarts, d3 |-> Wrapped, d4 |-> Credit, d5 |-> Rounded,
           d6 |-> TooLong, d7 |-> Lineless]
MCDoc == DOMAIN MCDocs
MCMaxTokens == [s1 |-> 4, s2 |-> 1]
MCPassthrough == [s1 |-> {"payer"}, s2 |-> {}]
MCDepartments == <<[name |-> "Shared Services", patterns |-> {"shared"}],
                   [name |-> "Biology", patterns |-> {"bio"}],
                   [name |-> "Chemistry", patterns |-> {"chem"}]>>
MCDisplayName == [s1 |-> "Supplier 1", s2 |-> "Supplier 2"]

\* What the theorems of DocumentsProofs suppose of the documents and of the names.
ASSUME LegibleAssumption == \A d \in Doc : Legible(d)
ASSUME NamesAssumption ==
    \A s, t \in Supplier : DisplayName[s] = DisplayName[t] => s = t

=============================================================================
