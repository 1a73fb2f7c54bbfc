------------------------------- MODULE Ingest -------------------------------
(***************************************************************************)
(* The folder scan: PDFs on disk, the ledger `ingested_files`, the table   *)
(* `invoices` and the scan that turns one into the other.  Sources:        *)
(* epiproc/ingest/scan.py, ingest/pipeline.py, db/ingested.py,             *)
(* db/invoices.py (insert_record), ingest/categorise.py (the call at the   *)
(* end of a scan).                                                         *)
(*                                                                         *)
(* Users drop, replace and delete files at any time.  The scan commits     *)
(* twice per file, the invoice and then the ledger row, and may die at any *)
(* point: a crash of the worker, a lost connection, an exception.  A       *)
(* document (the bytes of a file) is a value; what the model extracts from *)
(* it is a function of it.                                                 *)
(***************************************************************************)
EXTENDS Naturals, FiniteSets

CONSTANTS
    Path,         \* paths under invoices/, numbered in sorted order
    HintOf,       \* [Path -> supplier folder or NoHint for a drop-box folder]
    NameOf,       \* [Path -> file name]
    Doc,          \* documents: the possible contents of a file
    SellerOf,     \* [Doc -> supplier derived from the extracted seller]
    NumberOf,     \* [Doc -> extracted invoice number, or NoNumber]
    Raising,      \* documents whose processing always raises out of process_pdf
    Editable,     \* paths whose file may be overwritten or deleted
    NoHint, NoNumber, NoFile,
    MaxAttempts,  \* _MAX_ATTEMPTS
    MaxWrites,    \* bound: times a path is written
    MaxFaults     \* bound: scans cut short, transient errors, failed batches

Supplier == {HintOf[p] : p \in {q \in Path : HintOf[q] # NoHint}} \cup {SellerOf[d] : d \in Doc}
Number == {NumberOf[d] : d \in Doc} \ {NoNumber}
Name == {NameOf[p] : p \in Path}

ASSUME IngestAssumption ==
    /\ Path \subseteq Nat
    /\ IsFiniteSet(Path)
    /\ NoFile \notin Doc
    /\ NoNumber \notin Number
    /\ Raising \subseteq Doc
    /\ Editable \subseteq Path
    /\ MaxAttempts \in Nat \ {0}
    /\ MaxWrites \in Nat
    /\ MaxFaults \in Nat

VARIABLES
    disk,      \* content of each path
    mtime,     \* st_mtime of each path: a new value at every write; 0 before the first
    ledger,    \* ingested_files by path
    invoices,  \* the rows of `invoices`
    nextId,    \* invoices.id sequence
    uncat,     \* ids of invoices with uncategorised items
    pc,        \* where the scan is
    todo,      \* files the scan has listed and not yet handled
    file,      \* the file in hand: path, mtime, sha and what was extracted
    newRows,   \* new_rows > 0
    tries,     \* history: failed extractions of each path since it was last written
    cut,       \* history: a scan was cut short, or a batch failed, since all was categorised
    faults     \* faults injected so far

store == <<ledger, invoices, nextId, uncat>>
vars == <<disk, mtime, ledger, invoices, nextId, uncat, pc, todo, file, newRows, tries, cut, faults>>

\* A missing ledger row; and its columns otherwise.  The hash column holds the document.
NoEntry == [result |-> "none", mtime |-> 0, sha |-> NoFile, invoice_id |-> 0, attempts |-> 0]
Result == {"ingested", "duplicate", "error"}
Entry == [result: Result, mtime: Nat, sha: Doc, invoice_id: Nat, attempts: 0..MaxAttempts]

NoneInHand == [path |-> 0, mtime |-> 0, sha |-> NoFile, doc |-> NoFile]
InHand == [path: Path, mtime: Nat, sha: Doc, doc: Doc \cup {NoFile}]

Invoice == [id: Nat, supplier: Supplier, filename: Name, path: Path,
            number: Number \cup {NoNumber}, doc: Doc]

TypeOK ==
    /\ disk \in [Path -> Doc \cup {NoFile}]
    /\ mtime \in [Path -> Nat]
    /\ ledger \in [Path -> Entry \cup {NoEntry}]
    /\ invoices \in SUBSET Invoice
    /\ nextId \in Nat
    /\ uncat \in SUBSET Nat
    /\ pc \in {"idle", "next", "extract", "store", "failed", "duplicate", "stored", "categorise"}
    /\ todo \in SUBSET Path
    /\ file \in InHand \cup {NoneInHand}
    /\ newRows \in BOOLEAN
    /\ tries \in [Path -> Nat]
    /\ cut \in BOOLEAN
    /\ faults \in 0..MaxFaults

Init ==
    /\ disk = [p \in Path |-> NoFile]
    /\ mtime = [p \in Path |-> 0]
    /\ ledger = [p \in Path |-> NoEntry]
    /\ invoices = {}
    /\ nextId = 1
    /\ uncat = {}
    /\ pc = "idle"
    /\ todo = {}
    /\ file = NoneInHand
    /\ newRows = FALSE
    /\ tries = [p \in Path |-> 0]
    /\ cut = FALSE
    /\ faults = 0

-----------------------------------------------------------------------------
Fault == faults < MaxFaults /\ faults' = faults + 1

\* process_pdf: the folder names the supplier, else the extracted seller does.
SupplierOf(p, d) == IF HintOf[p] # NoHint THEN HintOf[p] ELSE SellerOf[d]

\* The file in hand is the first of the list that is left.
First(p) == p \in todo /\ \A q \in todo : p <= q

\* The ledger already has a verdict on this version of the file.
Handled(p) ==
    /\ ledger[p] # NoEntry
    /\ ledger[p].mtime = mtime[p]
    /\ ~(ledger[p].result = "error" /\ ledger[p].attempts < MaxAttempts)

\* ingested.sha_ingested(sha, exclude_path = p)
ShaIngested(p, d) ==
    \E q \in Path \ {p} : ledger[q].result = "ingested" /\ ledger[q].sha = d

\* The (supplier, filename) of a file in a supplier folder is already an invoice.
NamePresent(p) ==
    /\ HintOf[p] # NoHint
    /\ \E i \in invoices : i.filename = NameOf[p] /\ i.supplier = HintOf[p]

\* ingested.record: upsert of the ledger row, with its own commit.
RecordLedger(p, m, d, id, result, attempts) ==
    ledger' = [ledger EXCEPT ![p] = [result |-> result, mtime |-> m, sha |-> d,
                                     invoice_id |-> id, attempts |-> attempts]]

-----------------------------------------------------------------------------
(* Users of the folder *)

WriteFile(p, d) ==
    /\ mtime[p] < MaxWrites
    /\ mtime[p] = 0 \/ p \in Editable
    /\ disk' = [disk EXCEPT ![p] = d]
    /\ mtime' = [mtime EXCEPT ![p] = @ + 1]
    /\ tries' = [tries EXCEPT ![p] = 0]
    /\ UNCHANGED <<store, pc, todo, file, newRows, cut, faults>>

DeleteFile(p) ==
    /\ p \in Editable
    /\ disk[p] # NoFile
    /\ disk' = [disk EXCEPT ![p] = NoFile]
    /\ UNCHANGED <<mtime, store, pc, todo, file, newRows, tries, cut, faults>>

-----------------------------------------------------------------------------
(* scan_and_process *)

StartScan ==
    /\ pc = "idle"
    /\ pc' = "next"
    /\ todo' = {p \in Path : disk[p] # NoFile}
    /\ newRows' = FALSE
    /\ UNCHANGED <<disk, mtime, store, file, tries, cut, faults>>

SkipFile(p) ==
    /\ pc = "next" /\ First(p)
    /\ disk[p] # NoFile
    /\ Handled(p)
    /\ todo' = todo \ {p}
    /\ UNCHANGED <<disk, mtime, store, pc, file, newRows, tries, cut, faults>>

\* The two checks that need no extraction.
DropDuplicate(p) ==
    /\ pc = "next" /\ First(p)
    /\ disk[p] # NoFile
    /\ ~Handled(p)
    /\ ShaIngested(p, disk[p]) \/ NamePresent(p)
    /\ RecordLedger(p, mtime[p], disk[p], 0, "duplicate", 0)
    /\ todo' = todo \ {p}
    /\ UNCHANGED <<disk, mtime, invoices, nextId, uncat, pc, file, newRows, tries, cut, faults>>

ProcessFile(p) ==
    /\ pc = "next" /\ First(p)
    /\ disk[p] # NoFile
    /\ ~Handled(p)
    /\ ~ShaIngested(p, disk[p]) /\ ~NamePresent(p)
    /\ file' = [path |-> p, mtime |-> mtime[p], sha |-> disk[p], doc |-> NoFile]
    /\ pc' = "extract"
    /\ UNCHANGED <<disk, mtime, store, todo, newRows, tries, cut, faults>>

\* extract_invoice reads the file again: it may have changed since it was hashed.
ExtractOk ==
    /\ pc = "extract"
    /\ disk[file.path] \in Doc
    /\ file' = [file EXCEPT !.doc = disk[file.path]]
    /\ pc' = "store"
    /\ UNCHANGED <<disk, mtime, store, todo, newRows, tries, cut, faults>>

\* Bad JSON, a truncated answer, a file that does not open: an error of the file.
ExtractFails ==
    /\ pc = "extract"
    /\ tries' = IF file.mtime = mtime[file.path]
                  THEN [tries EXCEPT ![file.path] = @ + 1] ELSE tries
    /\ pc' = "failed"
    /\ UNCHANGED <<disk, mtime, store, todo, file, newRows, cut, faults>>

\* Unreachable, timed out: not ledgered, to be retried without limit.
ExtractTransient ==
    /\ pc = "extract"
    /\ Fault
    /\ todo' = todo \ {file.path}
    /\ file' = NoneInHand
    /\ pc' = "next"
    /\ UNCHANGED <<disk, mtime, store, newRows, tries, cut>>

\* Mutant of RecordError: the attempts of earlier scans are not counted.
RecordErrorForgetful ==
    /\ pc = "failed"
    /\ RecordLedger(file.path, file.mtime, file.sha, 0, "error", 1)
    /\ todo' = todo \ {file.path}
    /\ file' = NoneInHand
    /\ pc' = "next"
    /\ UNCHANGED <<disk, mtime, invoices, nextId, uncat, newRows, tries, cut, faults>>

RecordError ==
    /\ pc = "failed"
    /\ LET led == ledger[file.path]
           prev == IF led # NoEntry /\ led.mtime = file.mtime THEN led.attempts ELSE 0
       IN  RecordLedger(file.path, file.mtime, file.sha, 0, "error", prev + 1)
    /\ todo' = todo \ {file.path}
    /\ file' = NoneInHand
    /\ pc' = "next"
    /\ UNCHANGED <<disk, mtime, invoices, nextId, uncat, newRows, tries, cut, faults>>

\* The rows the check by number may find; it reads one of them (LIMIT 1).
SameNumber(s) ==
    {i \in invoices : NumberOf[file.doc] # NoNumber /\ i.number = NumberOf[file.doc] /\ i.supplier = s}

FindDuplicate ==
    /\ pc = "store" /\ file.doc \notin Raising
    /\ \E i \in SameNumber(SupplierOf(file.path, file.doc)) : i.filename # NameOf[file.path]
    /\ pc' = "duplicate"
    /\ UNCHANGED <<disk, mtime, store, todo, file, newRows, tries, cut, faults>>

\* Mutant of InsertRecord: no check by number before the INSERT.
InsertUnchecked ==
    /\ pc = "store" /\ file.doc \notin Raising
    /\ LET s == SupplierOf(file.path, file.doc)
           f == NameOf[file.path]
           old == {i \in invoices : i.supplier = s /\ i.filename = f}
           row == [id |-> nextId, supplier |-> s, filename |-> f, path |-> file.path,
                   number |-> NumberOf[file.doc], doc |-> file.doc]
       IN  /\ invoices' = (invoices \ old) \cup {row}
           /\ uncat' = (uncat \ {i.id : i \in old}) \cup {nextId}
    /\ nextId' = nextId + 1
    /\ pc' = "stored"
    /\ UNCHANGED <<disk, mtime, ledger, todo, file, newRows, tries, cut, faults>>

\* Mutant of InsertRecord: it replaces the invoice of the same number.
InsertReplacesNumber ==
    /\ pc = "store" /\ file.doc \notin Raising
    /\ LET s == SupplierOf(file.path, file.doc)
           f == NameOf[file.path]
           old == {i \in invoices : i.supplier = s /\ i.filename = f} \cup SameNumber(s)
           row == [id |-> nextId, supplier |-> s, filename |-> f, path |-> file.path,
                   number |-> NumberOf[file.doc], doc |-> file.doc]
       IN  /\ invoices' = (invoices \ old) \cup {row}
           /\ uncat' = (uncat \ {i.id : i \in old}) \cup {nextId}
    /\ nextId' = nextId + 1
    /\ pc' = "stored"
    /\ UNCHANGED <<disk, mtime, ledger, todo, file, newRows, tries, cut, faults>>

\* insert_record: DELETE of (supplier, filename), INSERT, commit.
InsertRecord ==
    /\ pc = "store" /\ file.doc \notin Raising
    /\ LET s == SupplierOf(file.path, file.doc)
           f == NameOf[file.path]
           old == {i \in invoices : i.supplier = s /\ i.filename = f}
           row == [id |-> nextId, supplier |-> s, filename |-> f, path |-> file.path,
                   number |-> NumberOf[file.doc], doc |-> file.doc]
       IN  /\ SameNumber(s) = {} \/ \E i \in SameNumber(s) : i.filename = f
           /\ invoices' = (invoices \ old) \cup {row}
           /\ uncat' = (uncat \ {i.id : i \in old}) \cup {nextId}
    /\ nextId' = nextId + 1
    /\ pc' = "stored"
    /\ UNCHANGED <<disk, mtime, ledger, todo, file, newRows, tries, cut, faults>>

\* Mutant of RecordOutcome: only the last file counts as new.
RecordOutcomeLastOnly ==
    /\ pc \in {"stored", "duplicate"}
    /\ IF pc = "stored"
         THEN RecordLedger(file.path, file.mtime, file.sha, nextId - 1, "ingested", 0)
         ELSE RecordLedger(file.path, file.mtime, file.sha, 0, "duplicate", 0)
    /\ newRows' = (pc = "stored")
    /\ todo' = todo \ {file.path}
    /\ file' = NoneInHand
    /\ pc' = "next"
    /\ UNCHANGED <<disk, mtime, invoices, nextId, uncat, tries, cut, faults>>

\* Mutant of RecordOutcome: a duplicate gets no ledger row.
RecordOutcomeIngestedOnly ==
    /\ pc \in {"stored", "duplicate"}
    /\ IF pc = "stored"
         THEN RecordLedger(file.path, file.mtime, file.sha, nextId - 1, "ingested", 0)
         ELSE UNCHANGED ledger
    /\ newRows' = (newRows \/ pc = "stored")
    /\ todo' = todo \ {file.path}
    /\ file' = NoneInHand
    /\ pc' = "next"
    /\ UNCHANGED <<disk, mtime, invoices, nextId, uncat, tries, cut, faults>>

\* The second commit of a file.
RecordOutcome ==
    /\ pc \in {"stored", "duplicate"}
    /\ IF pc = "stored"
         THEN RecordLedger(file.path, file.mtime, file.sha, nextId - 1, "ingested", 0)
         ELSE RecordLedger(file.path, file.mtime, file.sha, 0, "duplicate", 0)
    /\ newRows' = (newRows \/ pc = "stored")
    /\ todo' = todo \ {file.path}
    /\ file' = NoneInHand
    /\ pc' = "next"
    /\ UNCHANGED <<disk, mtime, invoices, nextId, uncat, tries, cut, faults>>

EndScan ==
    /\ pc = "next" /\ todo = {}
    /\ pc' = IF newRows THEN "categorise" ELSE "idle"
    /\ UNCHANGED <<disk, mtime, store, todo, file, newRows, tries, cut, faults>>

\* categorise_all(only_uncategorised=True); the items of a failed batch stay NULL.
Categorise(failed) ==
    /\ pc = "categorise"
    /\ failed \subseteq uncat
    /\ IF failed = {} THEN UNCHANGED faults ELSE Fault
    /\ uncat' = failed
    /\ cut' = (failed # {})
    /\ pc' = "idle"
    /\ UNCHANGED <<disk, mtime, ledger, invoices, nextId, todo, file, newRows, tries>>

\* The scan is cut short: the worker crashes, the connection is lost, a listed
\* file is gone, processing raises.  Committed rows stay, locals are lost.
Abort ==
    /\ pc # "idle"
    /\ IF pc = "store" /\ file.doc \in Raising THEN UNCHANGED faults ELSE Fault
    /\ pc' = "idle"
    /\ todo' = {}
    /\ file' = NoneInHand
    /\ newRows' = FALSE
    /\ cut' = TRUE
    /\ UNCHANGED <<disk, mtime, store, tries>>

\* A listed file is gone when it is stat'ed: FileNotFoundError ends the scan.
FileVanished(p) ==
    /\ pc = "next" /\ First(p)
    /\ disk[p] = NoFile
    /\ pc' = "idle"
    /\ todo' = {}
    /\ newRows' = FALSE
    /\ cut' = TRUE
    /\ UNCHANGED <<disk, mtime, store, file, tries, faults>>

-----------------------------------------------------------------------------
ScanStep ==
    \/ StartScan
    \/ \E p \in Path : SkipFile(p) \/ DropDuplicate(p) \/ ProcessFile(p) \/ FileVanished(p)
    \/ ExtractOk \/ ExtractFails \/ ExtractTransient \/ RecordError
    \/ FindDuplicate \/ InsertRecord \/ RecordOutcome
    \/ EndScan \/ \E failed \in SUBSET uncat : Categorise(failed)
    \/ Abort

Next ==
    \/ ScanStep
    \/ \E p \in Path : DeleteFile(p) \/ \E d \in Doc : WriteFile(p, d)

Spec == Init /\ [][Next]_vars

\* The worker scans again and again (worker.py, idle branch and extract jobs).
FairSpec == Spec /\ WF_vars(ScanStep)
-----------------------------------------------------------------------------
(* Properties *)

\* A file ledgered as ingested, and not written since, has its document in
\* `invoices` under the id the ledger names, through any crash or re-run; or the
\* row was replaced, later, by that of a drop-box file with the same name and the
\* same supplier, which is the only thing that takes it away (scan.py:92-114,
\* db/invoices.py:42).  That such a file does is against scan.py:93-94, where it
\* "silently loses real spend".
IngestedStored ==
    \A p \in Path : ledger[p].result = "ingested" /\ ledger[p].mtime = mtime[p] =>
        \E i \in invoices :
            /\ i.filename = NameOf[p] /\ i.supplier = SupplierOf(p, ledger[p].sha)
            /\ \/ i.id = ledger[p].invoice_id /\ i.doc = ledger[p].sha /\ i.path = p
               \/ i.id > ledger[p].invoice_id /\ i.path # p /\ HintOf[i.path] = NoHint

\* Spend is not counted twice: whatever is re-sent, renamed, replaced or
\* processed again after a crash, a supplier has one invoice per number.
NumberUnique ==
    \A i, k \in invoices :
        i.number = k.number /\ i.number # NoNumber /\ i.supplier = k.supplier => i = k

\* A version of a file fails MaxAttempts extractions and no more, but for
\* those whose ledger row was lost with the scan (scan.py:76-77, 130-132).
RetriesBounded == \A p \in Path : tries[p] <= MaxAttempts + faults

\* When no scan was cut short, a finished scan leaves nothing uncategorised.
CategorisedAtRest == pc = "idle" /\ ~cut => uncat = {}

\* Nobody writes files for ever (MaxWrites), and a scan that finds the folder left
\* alone brings it to where every file in it has a verdict in the ledger, through
\* errors, retries and crashes (scan.py:60-145).
EveryFileSettles == []<>(\A p \in Path : disk[p] = NoFile \/ Handled(p))
=============================================================================
