-------------------------------- MODULE Rules --------------------------------
(***************************************************************************)
(* The corrections every extracted record goes through before it is        *)
(* stored.  Source: epiproc/ingest/rules.py.  Amounts are in cents.        *)
(*                                                                         *)
(* A line has one price here; its unit price goes the same way.            *)
(***************************************************************************)
EXTENDS Paper, Integers, Sequences, Folds

CONSTANT HsCode  \* descriptions that are a bare customs code

ASSUME RulesAssumption == None \notin Int \cup HsCode

\* The totals the rules read.
TotalKey == {"subtotal", "total", "freight", "handling_charges", "vat_amount",
             "discount_amount", "discount_2"}

Amount == Int \cup {None}
Text == STRING \cup {None}

\* invoice_schema; `rows` are the printed rows of Extraction.
LineItem == [position : Int \cup {None}, article : Text, description : Text,
             price : Amount, rows : SUBSET Nat]
Record == [credit : BOOLEAN, lines : Seq(LineItem), totals : [TotalKey -> Amount],
           warned : BOOLEAN]

IsNumber(v) == v # None

-----------------------------------------------------------------------------
Kept(lines) ==
    LET kept[n \in 0..Len(lines)] ==
          IF n = 0 THEN <<>>
          ELSE IF lines[n].description \in HsCode THEN kept[n - 1]
          ELSE Append(kept[n - 1], lines[n])
    IN  kept[Len(lines)]

\* _drop_hs_summary
DropHsSummary(rec) == [rec EXCEPT !.lines = Kept(rec.lines)]

Negative(v) == IF IsNumber(v) /\ v > 0 THEN -v ELSE v

\* _credit_note_sign; freight, handling and the second discount keep their sign.
CreditNoteSign(rec) ==
    IF ~rec.credit THEN rec
    ELSE [rec EXCEPT
            !.totals = [k \in TotalKey |->
                IF k \in {"subtotal", "total", "discount_amount", "vat_amount"}
                  THEN Negative(rec.totals[k]) ELSE rec.totals[k]],
            !.lines = [n \in DOMAIN rec.lines |->
                [rec.lines[n] EXCEPT !.price = Negative(@)]]]

\* _derive_total
DeriveTotal(rec) ==
    IF IsNumber(rec.totals["total"]) THEN rec
    ELSE [rec EXCEPT !.totals["total"] = rec.totals["subtotal"]]

-----------------------------------------------------------------------------
OrZero(v) == IF IsNumber(v) THEN v ELSE 0

LineSum(lines) ==
    MapThenFoldSet(LAMBDA a, b : a + b, 0, LAMBDA n : OrZero(lines[n].price),
                   LAMBDA s : CHOOSE n \in s : TRUE, DOMAIN lines)

\* Mutant of Off: within a per cent.
OffByPercent(a, b) == 100 * (a - b) > b \/ 100 * (b - a) > b

\* Two cents are rounding.
Off(a, b) == a - b > 2 \/ b - a > 2

\* Of the totals of an invoice, what its line items do not carry.
Charges(totals) ==
    OrZero(totals["freight"]) + OrZero(totals["handling_charges"])
      + OrZero(totals["vat_amount"])
      - OrZero(totals["discount_amount"]) - OrZero(totals["discount_2"])

\* Line items that sum to the total settle it: nothing else is looked at.
LinesSettle(lines, sum, totals) ==
    lines # <<>> /\ IsNumber(totals["total"]) /\ ~Off(sum, totals["total"])

\* The first warning: the lines against the subtotal, or else against the total.
LinesOff(lines, sum, totals) ==
    /\ lines # <<>>
    /\ \/ IsNumber(totals["subtotal"]) /\ Off(sum, totals["subtotal"])
       \/ /\ ~IsNumber(totals["subtotal"])
          /\ IsNumber(totals["total"]) /\ Off(sum, totals["total"])

\* The second: the subtotal and the stated charges against the total.
TotalOff(credit, totals) ==
    /\ ~credit
    /\ IsNumber(totals["subtotal"]) /\ IsNumber(totals["total"])
    /\ Off(totals["subtotal"] + Charges(totals), totals["total"])

\* _reconcile_totals: a warning is added to those there are, no figure is changed.
ReconcileTotals(rec) ==
    LET sum == LineSum(rec.lines)
    IN  IF LinesSettle(rec.lines, sum, rec.totals) THEN rec
        ELSE [rec EXCEPT !.warned = \/ @
                                    \/ LinesOff(rec.lines, sum, rec.totals)
                                    \/ TotalOff(rec.credit, rec.totals)]

\* apply_rules with the default list.
ApplyRules(rec) ==
    ReconcileTotals(DeriveTotal(CreditNoteSign(DropHsSummary(rec))))

=============================================================================
