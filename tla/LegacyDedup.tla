---------------------------- MODULE LegacyDedup ----------------------------
(***************************************************************************)
(* The first version's duplicate detection before extraction.  Source:     *)
(* legacy/dedup_v1_sqlite.py.                                              *)
(*                                                                         *)
(* A pool of threads takes the PDFs of a folder: each is scanned for pages *)
(* of mail garbage, which are cut off after a copy was put aside, then the *)
(* model reads its number and total, and under a lock it is compared with  *)
(* the database and with what this run has seen.  Any run may be killed.   *)
(***************************************************************************)
EXTENDS Integers, Sequences, FiniteSets

CONSTANTS
    File,        \* PDFs, numbered in sorted order
    Content,     \* [File -> its pages]
    NumberOf,    \* [File -> the number on its first page, or NoNumber]
    TotalOf,     \* [File -> the total there in pence, or NoTotal]
    KeyOf,       \* [Number -> the number stripped and in lower case]
    Rows,        \* rows of the database: file name, number, total, whether it is a success
    HasDb,       \* whether there is a database
    DryRun,
    Workers,     \* threads of the pool
    NoNumber, NoTotal, NoFile,
    MaxFaults    \* bound: runs killed, failed copies, failed calls

Page == [mime: BOOLEAN, financial: BOOLEAN]

ASSUME LegacyDedupAssumption ==
    /\ File \subseteq Nat
    /\ Content \in [File -> Seq(Page) \ {<<>>}]
    /\ NoFile \notin File
    /\ \A f \in File : NumberOf[f] # NoNumber => NumberOf[f] \in DOMAIN KeyOf
    /\ Workers \in Nat \ {0}
    /\ MaxFaults \in Nat

VARIABLES
    disk,      \* pages of each file
    backup,    \* pages of its copy in backup_originals, <<>> if there is none
    stage,     \* where each file is in the run
    original,  \* of a duplicate, the file it is said to repeat
    seen,      \* _seen_this_run: the first file of each key
    skip,      \* the skip list on disk
    ended,     \* the run has written its summary
    faults

vars == <<disk, backup, stage, original, seen, skip, ended, faults>>

Known == IF HasDb THEN {r.file : r \in Rows} ELSE {}

\* A file that was not compared (no database, no answer, no number) is reported as
\* ready too; the stage tells the two apart.
Busy == {"copy", "replace", "ask", "check"}
Done == {"known", "error", "review", "unchecked", "ready", "dup"}

TypeOK ==
    /\ \A f \in File : disk[f] \in Seq(Page) /\ backup[f] \in Seq(Page)
    /\ stage \in [File -> {"queued"} \cup Busy \cup Done]
    /\ original \in [File -> File \cup {r.file : r \in Rows} \cup {NoFile}]
    /\ DOMAIN seen \subseteq {KeyOf[n] : n \in DOMAIN KeyOf}
    /\ \A k \in DOMAIN seen : seen[k] \in File
    /\ skip \subseteq File
    /\ ended \in BOOLEAN
    /\ faults \in 0..MaxFaults
    /\ Cardinality({f \in File : stage[f] \in Busy}) <= Workers

\* A run starts with the files it does not know by name, and with an empty index.
Fresh == [f \in File |-> IF f \in Known THEN "known" ELSE "queued"]

Init ==
    /\ disk = Content
    /\ backup = [f \in File |-> <<>>]
    /\ stage = Fresh
    /\ original = [f \in File |-> NoFile]
    /\ seen = <<>>
    /\ skip = {}
    /\ ended = FALSE
    /\ faults = 0

-----------------------------------------------------------------------------
Fault == faults < MaxFaults /\ faults' = faults + 1

Moves(f, to) == stage' = [stage EXCEPT ![f] = to]

Largest(s) == CHOOSE m \in s : \A k \in s : k <= m
Least(s) == CHOOSE m \in s : \A k \in s : m <= k

Financial(pages) == {k \in DOMAIN pages : pages[k].financial}

\* Mutant of Garbage: any page of mail, also before the last financial one.
GarbageAnywhere(pages) == {k \in DOMAIN pages : pages[k].mime}

\* mime_scan: pages of mail after the last page with financial words; none is looked
\* for in a document without such words.
Garbage(pages) ==
    IF Financial(pages) = {} THEN {}
    ELSE {k \in DOMAIN pages : k > Largest(Financial(pages)) /\ pages[k].mime}

\* The pages before the first of them.
Kept(pages) == SubSeq(pages, 1, Least(Garbage(pages)) - 1)

\* Mutant of Running: a thread that waits for the model counts as free.
RunningNotAsking == {f \in File : stage[f] \in Busy \ {"ask"}}

Running == {f \in File : stage[f] \in Busy}

\* What follows the scan, and the cutting.
Unstripped == IF HasDb THEN "ask" ELSE "unchecked"

Scanned(f) ==
    CASE disk[f][1].mime -> "review"
      [] ~disk[f][1].mime /\ Garbage(disk[f]) # {} /\ ~DryRun -> "copy"
      [] OTHER -> Unstripped

\* The pool hands the next file to a free thread.
NextUp(f) ==
    /\ ~ended
    /\ stage[f] = "queued"
    /\ \A g \in File : stage[g] = "queued" => f <= g
    /\ Cardinality(Running) < Workers

\* process, up to the outcome of the scan.
Start(f) ==
    /\ NextUp(f)
    /\ Moves(f, Scanned(f))
    /\ UNCHANGED <<disk, backup, original, seen, skip, ended, faults>>

CannotOpen(f) ==
    /\ NextUp(f)
    /\ Fault
    /\ Moves(f, "error")
    /\ UNCHANGED <<disk, backup, original, seen, skip, ended>>

\* What is put aside: the file as it is.
Aside(f) == disk[f]

\* strip_pages: the copy, then the new file in place of the old one.  Either may fail,
\* and the file goes on as it is.
CopyAside(f) ==
    /\ stage[f] = "copy"
    /\ backup' = [backup EXCEPT ![f] = Aside(f)]
    /\ Moves(f, "replace")
    /\ UNCHANGED <<disk, original, seen, skip, ended, faults>>

Replace(f) ==
    /\ stage[f] = "replace"
    /\ disk' = [disk EXCEPT ![f] = Kept(disk[f])]
    /\ Moves(f, Unstripped)
    /\ UNCHANGED <<backup, original, seen, skip, ended, faults>>

StripFails(f) ==
    /\ stage[f] \in {"copy", "replace"}
    /\ Fault
    /\ Moves(f, Unstripped)
    /\ UNCHANGED <<disk, backup, original, seen, skip, ended>>

\* extract_key_fields; without a number there is nothing to compare.
Ask(f) ==
    /\ stage[f] = "ask"
    /\ Moves(f, IF NumberOf[f] = NoNumber THEN "unchecked" ELSE "check")
    /\ UNCHANGED <<disk, backup, original, seen, skip, ended, faults>>

AskFails(f) ==
    /\ stage[f] = "ask"
    /\ Fault
    /\ Moves(f, "unchecked")
    /\ UNCHANGED <<disk, backup, original, seen, skip, ended>>

Near(a, b) == a = NoTotal \/ b = NoTotal \/ (a - b < 100 /\ b - a < 100)

\* Mutant of StoredAs: rows whose extraction failed count too.
StoredAsAnyRow(f) ==
    {r.file : r \in {q \in Rows : q.number = NumberOf[f] /\ Near(q.total, TotalOf[f])}}

\* is_duplicate: successful rows of the number whose total is within a pound.
StoredAs(f) ==
    {r.file : r \in {q \in Rows : /\ q.success
                                  /\ q.number = NumberOf[f]
                                  /\ Near(q.total, TotalOf[f])}}

\* Mutant of Key: as it is printed.
KeyAsPrinted(f) == NumberOf[f]

Key(f) == KeyOf[NumberOf[f]]

\* The database first, then the index of this run, which only knows numbers.
Repeats(f) ==
    IF StoredAs(f) # {} THEN StoredAs(f)
    ELSE IF Key(f) \in DOMAIN seen THEN {seen[Key(f)]} ELSE {}

\* Under the lock.
Compare(f) ==
    /\ stage[f] = "check"
    /\ IF Repeats(f) = {}
         THEN /\ seen' = [k \in DOMAIN seen \cup {Key(f)} |->
                          IF k \in DOMAIN seen THEN seen[k] ELSE f]
              /\ Moves(f, "ready")
              /\ UNCHANGED original
         ELSE /\ \E g \in Repeats(f) : original' = [original EXCEPT ![f] = g]
              /\ Moves(f, "dup")
              /\ UNCHANGED seen
    /\ UNCHANGED <<disk, backup, skip, ended, faults>>

\* The pool is empty: the skip list is written, unless it would be empty.
EndRun ==
    /\ ~ended
    /\ \A f \in File : stage[f] \in Done
    /\ ended' = TRUE
    /\ LET dups == {f \in File : stage[f] \in {"known", "dup"}}
       IN  skip' = IF HasDb /\ dups # {} THEN dups ELSE skip
    /\ UNCHANGED <<disk, backup, stage, original, seen, faults>>

\* Killed and started again.
RunAgain ==
    /\ Fault
    /\ stage' = Fresh
    /\ original' = [f \in File |-> NoFile]
    /\ seen' = <<>>
    /\ ended' = FALSE
    /\ UNCHANGED <<disk, backup, skip>>

-----------------------------------------------------------------------------
Step ==
    \/ \E f \in File : Start(f) \/ CopyAside(f) \/ Replace(f) \/ Ask(f) \/ Compare(f)
    \/ EndRun

Next ==
    \/ Step
    \/ \E f \in File : CannotOpen(f) \/ StripFails(f) \/ AskFails(f)
    \/ RunAgain

Spec == Init /\ [][Next]_vars

-----------------------------------------------------------------------------
(* Properties *)

\* No number is skipped for good: what a duplicate is said to repeat is a successful
\* row of its number and, within a pound, its total, or another file of its number that
\* this run extracts, whichever thread comes first.  Of two files of one run only the
\* numbers are compared, against the head of the script, which has the total guard
\* against different documents of one number (process, is_duplicate).
DuplicateHasOriginal ==
    \A f \in File : stage[f] = "dup" =>
        \/ \E r \in Rows : /\ r.success
                          /\ r.file = original[f]
                          /\ r.number = NumberOf[f]
                          /\ Near(r.total, TotalOf[f])
        \/ /\ original[f] \in File \ {f}
           /\ stage[original[f]] = "ready"
           /\ KeyOf[NumberOf[original[f]]] = KeyOf[NumberOf[f]]

\* Of the files whose number the model read, and no matter how their threads
\* interleave, one file of each number is extracted at most (process, under the lock).
OneOfEachNumber ==
    \A f, g \in File :
        (stage[f] = "ready" /\ stage[g] = "ready" /\ f # g)
            => KeyOf[NumberOf[f]] # KeyOf[NumberOf[g]]

\* No page with financial words is ever lost, and what was cut off is in the copy,
\* over any number of runs that were killed half-way (strip_pages).
PagesKept ==
    \A f \in File :
        /\ \E n \in 0..Len(Content[f]) :
             /\ disk[f] = SubSeq(Content[f], 1, n)
             /\ \A k \in Financial(Content[f]) : k <= n
        /\ disk[f] # Content[f] => backup[f] = Content[f]

=============================================================================
