----------------------------- MODULE Extraction -----------------------------
(***************************************************************************)
(* One document after the other becomes a record: its pages are sent to    *)
(* the model, with a larger budget when the answer was cut short and again *)
(* when there was none, and folded together.  Sources:                     *)
(* epiproc/ingest/pdf_vlm.py, and process_pdf of epiproc/ingest/pipeline.py*)
(* for what becomes of the record.                                         *)
(*                                                                         *)
(* The model reads a page as it is.  A row of the printed document may be  *)
(* shown on several pages; `rows` of a line, which no code sees, are the   *)
(* printed rows it stands for.                                             *)
(***************************************************************************)
EXTENDS Rules

CONSTANTS
    MaxTokens,    \* [supplier -> the budget of a first attempt]
    Cap,          \* 16384
    MaxAttempts,  \* 4
    NoDoc,
    MaxBegun,     \* bound: extractions begun
    MaxFaults     \* bound: crashes, failed calls, failed unwrappings

ASSUME ExtractionAssumption ==
    /\ NoDoc \notin Doc
    /\ MaxAttempts \in Nat \ {0}
    /\ {Cap, MaxBegun, MaxFaults} \subseteq Nat
    /\ \A d \in Doc : /\ MaxTokens[Docs[d].supplier] \in Nat \ {0}
                     /\ Docs[d].pages \in Seq([size : Nat, answer : Record]) \ {<<>>}

VARIABLES
    doc,      \* the document being extracted
    phase,    \* where process_pdf is with it
    page,     \* the page that is asked for
    attempt,  \* calls made for it
    budget,   \* max_tokens of the next
    data,     \* the record so far
    stray,    \* the copy that the file at hand is, 0 for the document itself
    copied,   \* whether it has been unwrapped into the folder
    strays,   \* copies left there: their document, and the extraction that named them
    begun, faults

call == <<page, attempt, budget>>
files == <<doc, stray>>
extraction == <<files, call, phase, data, copied, strays, begun, faults>>

NoData == [credit |-> FALSE, lines |-> <<>>, totals |-> [k \in TotalKey |-> None],
           warned |-> FALSE]

ExtractionInit ==
    /\ doc = NoDoc
    /\ phase = "idle"
    /\ page = 0
    /\ attempt = 0
    /\ budget = 0
    /\ data = NoData
    /\ stray = 0
    /\ copied = FALSE
    /\ strays = {}
    /\ begun = 0
    /\ faults = 0

-----------------------------------------------------------------------------
Fault == faults < MaxFaults /\ faults' = faults + 1

Pages(d) == Docs[d].pages

FirstBudget(d) == MaxTokens[Docs[d].supplier]

\* Mutant of Grown: the next attempt has the same budget.
NotGrown(b) == b

\* min(mt * 2, 16384), which lowers a budget that was configured above it.
Grown(b) == IF 2 * b <= Cap THEN 2 * b ELSE Cap

Asks(n) == page' = n /\ attempt' = 0 /\ budget' = FirstBudget(doc)

Idle == /\ doc' = NoDoc /\ stray' = 0 /\ phase' = "idle" /\ data' = NoData
        /\ page' = 0 /\ attempt' = 0 /\ budget' = 0

Starts == phase = "idle" /\ begun < MaxBegun /\ begun' = begun + 1

\* Mutant of Unwraps: what a copy holds is unwrapped as well.
UnwrapsAgain(d, copy) == Docs[d].wrapped

Unwraps(d, copy) == Docs[d].wrapped /\ copy = 0

\* The name of a copy is new: that of the extraction that makes it.
Copies(d, n) == strays \cup {<<d, n>>}

\* A document without a wrapper, as its copy is, is read in place, the other from a
\* copy that is made of it.
Begin(d, copy) ==
    /\ Starts
    /\ copy # 0 => <<d, copy>> \in strays
    /\ doc' = d
    /\ stray' = copy
    /\ phase' = "pages"
    /\ page' = 1 /\ attempt' = 0 /\ budget' = FirstBudget(d)
    /\ copied' = Unwraps(d, copy)
    /\ UNCHANGED <<data, strays, faults>>

\* _unwrap_embedded_pdf raises once its file is there: nobody has its name.
UnwrapFails(d) ==
    /\ Starts
    /\ Docs[d].wrapped
    /\ Fault
    /\ strays' = Copies(d, begun')
    /\ UNCHANGED <<files, call, phase, data, copied>>

-----------------------------------------------------------------------------
(* Continuation pages *)

\* Mutant of SameLine: the position is enough.
SameLineByPosition(old, new) == old.position = new.position

\* An article, or else a description, that both have.
SameLine(old, new) ==
    \/ new.article # None /\ new.article = old.article
    \/ new.description # None /\ new.description = old.description

\* The price is the newer one, gaps are filled, what there is is kept.
MergedLine(old, new) ==
    [position |-> old.position,
     article |-> IF old.article = None THEN new.article ELSE old.article,
     description |-> IF old.description = None THEN new.description ELSE old.description,
     price |-> IF new.price = None THEN old.price ELSE new.price,
     rows |-> old.rows \cup new.rows]

\* by_pos, made once for a page: the last line of each position.
AtPosition(existing, position) ==
    LET at == {n \in DOMAIN existing : existing[n].position = position}
    IN  IF position = None THEN {} ELSE {n \in at : \A m \in at : m <= n}

\* The old lines, one of them merged with a new one, or else the new line after them.
WithLine(lines, new, known) ==
    LET at == {n \in AtPosition(SubSeq(lines, 1, known), new.position) :
                 SameLine(lines[n], new)}
    IN  IF at = {} THEN Append(lines, new)
        ELSE [n \in DOMAIN lines |->
                IF n \in at THEN MergedLine(lines[n], new) ELSE lines[n]]

MergedLines(lines, extra) ==
    LET merged[n \in 0..Len(extra)] ==
          IF n = 0 THEN lines ELSE WithLine(merged[n - 1], extra[n], Len(lines))
    IN  merged[Len(extra)]

\* _merge_continuation
Merged(rec, answer) ==
    [rec EXCEPT
       !.lines = MergedLines(@, answer.lines),
       !.totals = [k \in TotalKey |->
           IF answer.totals[k] = None THEN rec.totals[k] ELSE answer.totals[k]]]

Folded(answer) == IF page = 1 THEN answer ELSE Merged(data, answer)

-----------------------------------------------------------------------------
(* _run_page *)

\* The budget is enough for the answer: finish_reason is not "length".
Complete(n) == Pages(doc)[n].size <= budget

\* What arrives within the budget: half of the lines when it is not enough.
Answer(n) ==
    LET whole == Pages(doc)[n].answer
    IN  IF whole.lines # <<>> /\ Pages(doc)[n].size > budget
          THEN [whole EXCEPT !.lines = SubSeq(@, 1, Len(@) \div 2)]
          ELSE whole

PageRead ==
    /\ phase = "pages"
    /\ Complete(page)
    /\ data' = Folded(Answer(page))
    /\ IF page < Len(Pages(doc))
         THEN Asks(page + 1) /\ UNCHANGED <<phase, copied>>
         ELSE phase' = "read" /\ copied' = FALSE /\ UNCHANGED call
    /\ UNCHANGED <<files, strays, begun, faults>>

\* One of the attempts is gone; after the last the document is an error.
Again(b) ==
    IF attempt + 1 < MaxAttempts
      THEN /\ attempt' = attempt + 1
           /\ budget' = b
           /\ UNCHANGED <<phase, page, copied>>
      ELSE phase' = "error" /\ copied' = FALSE /\ UNCHANGED call

CutShort ==
    /\ phase = "pages"
    /\ ~Complete(page)
    /\ Again(Grown(budget))
    /\ UNCHANGED <<files, data, strays, begun, faults>>

\* No connection, an answer of 500, something that is not JSON.
CallFails ==
    /\ phase = "pages"
    /\ Fault
    /\ Again(budget)
    /\ UNCHANGED <<files, data, strays, begun>>

\* process_pdf: the corrections, then the record is stored by whoever has the table.
Correct ==
    /\ phase = "read"
    /\ data' = ApplyRules(data)
    /\ phase' = "corrected"
    /\ UNCHANGED <<files, call, copied, strays, begun, faults>>

GiveUp ==
    /\ phase = "error"
    /\ Idle
    /\ UNCHANGED <<copied, strays, begun, faults>>

\* The worker dies.
Crash ==
    /\ phase # "idle"
    /\ Fault
    /\ Idle
    /\ copied' = FALSE
    /\ strays' = IF copied THEN Copies(doc, begun) ELSE strays
    /\ UNCHANGED begun

ExtractionStep == PageRead \/ CutShort \/ Correct \/ GiveUp

ExtractionNext ==
    \/ \E d \in Doc : UnwrapFails(d) \/ \E copy \in 0..MaxBegun : Begin(d, copy)
    \/ ExtractionStep
    \/ CallFails
    \/ Crash

-----------------------------------------------------------------------------
(* Properties *)

\* Where the lines of a document are: pages and places on them.
Places(d) == UNION {{n} \X DOMAIN Pages(d)[n].answer.lines : n \in DOMAIN Pages(d)}

LineAt(d, x) == Pages(d)[x[1]].answer.lines[x[2]]

Customs(d, x) == LineAt(d, x).description \in HsCode

\* The printed rows, without a customs summary.
Printed(d) == UNION {LineAt(d, x).rows : x \in {y \in Places(d) : ~Customs(d, y)}}

\* The positions a row is printed at, on all pages.
Positions(d, row) ==
    {LineAt(d, x).position : x \in {y \in Places(d) : row \in LineAt(d, y).rows}}

\* No other row has its positions.
Alone(d, row) ==
    \A other \in Printed(d) \ {row} : Positions(d, row) \cap Positions(d, other) = {}

\* A reader would take the two lines for the same.
Alike(l, k) ==
    /\ l.position # None /\ l.position = k.position
    /\ \E field \in {"article", "description"} : l[field] # None /\ l[field] = k[field]

\* What _merge_continuation expects of a document: a line stands for one row, in the
\* customs summary or out of it; lines that have the position and the article or the
\* description in common stand for the same one; and a row whose positions are its own is
\* repeated on other pages only, with that in common, and not after a customs line there.
Legible(d) ==
    \A x, y \in Places(d) :
      LET l == LineAt(d, x)
          k == LineAt(d, y)
      IN  /\ \E row \in l.rows : l.rows = {row}
          /\ Alike(l, k) => l.rows = k.rows
          /\ l.rows = k.rows => (Customs(d, x) <=> Customs(d, y))
          /\ (l.rows = k.rows /\ x # y /\ ~Customs(d, x) /\ \A row \in l.rows : Alone(d, row))
               => /\ Alike(l, k) /\ x[1] # y[1]
                  /\ \A z \in Places(d) : (Customs(d, z) /\ LineAt(d, z).position = l.position)
                                            => z[1] >= x[1] /\ z[1] >= y[1]

\* Once a document is read, each printed row is in the record, no line stands for two
\* rows, and a row whose position no other row has stands in one line: spend is neither
\* dropped nor doubled by pages that repeat lines, by numbering that starts again, by an
\* answer cut short or by a repeated call (_run_page, _merge_continuation).
RowsOnce ==
    phase = "corrected" =>
        /\ \A n \in DOMAIN data.lines : \A r, s \in data.lines[n].rows : r = s
        /\ \A row \in Printed(doc) :
             LET lines == {n \in DOMAIN data.lines : row \in data.lines[n].rows}
             IN  /\ lines # {}
                 /\ Alone(doc, row) => \A m, n \in lines : m = n

\* Without a failed call, a document is given up only for a page that no budget within
\* eight times the first and the cap is enough for (_run_page).
PagesThatFitAreRead ==
    phase = "error" /\ faults = 0 =>
        \E n \in DOMAIN Pages(doc) :
            /\ Pages(doc)[n].size > FirstBudget(doc)
            /\ Pages(doc)[n].size > Cap \/ Pages(doc)[n].size > 8 * FirstBudget(doc)

=============================================================================
