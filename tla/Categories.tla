----------------------------- MODULE Categories -----------------------------
(***************************************************************************)
(* The category vocabulary and the labels of the line items.  Sources:     *)
(* epiproc/ingest/discover.py, ingest/categorise.py, db/settings.py, the   *)
(* categorise job of epiproc/worker.py, the end of ingest/scan.py and the  *)
(* handlers under /admin/dashboard of epiproc/web/routers/admin.py.        *)
(*                                                                         *)
(* The worker reads the vocabulary up to three times, asks the model for   *)
(* minutes and writes what it answered; the web process lets admins edit   *)
(* the vocabulary at any of these points.  The items of an invoice are     *)
(* labelled in batches, any of which may fail, and committed together.     *)
(***************************************************************************)
EXTENDS Naturals, Sequences, FiniteSets

CONSTANTS
    Invoice,      \* invoices that arrive, numbered in the order of their ids
    Item,         \* batches of line items, each asked for in one call
    InvoiceOf,    \* [Item -> invoice]
    Textless,     \* items with neither article nor description
    Name,         \* category names, as they are spelled
    Folded,       \* [Name -> the name in lower case]
    Other,        \* the escape hatch
    NoLabel,
    MaxListed,    \* bound: length of a vocabulary that is entered or discovered
    MaxRequests,  \* bound: vocabularies saved and jobs asked for
    MaxFaults     \* bound: crashes, failed batches, failed discoveries

Listing == UNION {[1..n -> Name] : n \in 0..MaxListed}

ASSUME CategoriesAssumption ==
    /\ Invoice \subseteq Nat
    /\ InvoiceOf \in [Item -> Invoice]
    /\ Textless \subseteq Item
    /\ Other \in Name
    /\ Folded \in [Name -> Name]
    /\ NoLabel \notin Name
    /\ {MaxListed, MaxRequests, MaxFaults} \subseteq Nat

VARIABLES
    vocabulary,  \* setting `categories`; {} when it is missing or empty
    label,       \* invoice_items.category
    arrived,     \* invoices stored so far
    queue,       \* categorise jobs not done yet: whether each is to rediscover
    pc,          \* where the worker is
    run,         \* its run: whether it rediscovers, whether it relabels, whether it is a job
    answer,      \* what the model proposed
    read,        \* `categories` of categorise_all
    todo,        \* invoices left in this run
    current,     \* history: all was relabelled from the vocabulary as it is now
    found,       \* history: the vocabulary when the run checked whether there is one
    requests, faults

web == <<queue, requests>>
worker == <<pc, run, answer, read, todo, found>>
vars == <<vocabulary, label, arrived, queue, pc, run, answer, read, todo, current, found,
          requests, faults>>

NoRun == [force |-> FALSE, all |-> FALSE, job |-> FALSE]

TypeOK ==
    /\ vocabulary \in SUBSET Name
    /\ label \in [Item -> Name \cup {NoLabel}]
    /\ arrived \in SUBSET Invoice
    /\ queue \in Seq(BOOLEAN)
    /\ pc \in {"idle", "check", "reread", "discover", "store", "stored", "third", "label"}
    /\ run \in [force: BOOLEAN, all: BOOLEAN, job: BOOLEAN]
    /\ answer \in Listing
    /\ read \in SUBSET Name
    /\ todo \in SUBSET arrived
    /\ current \in BOOLEAN
    /\ found \in SUBSET Name
    /\ requests \in 0..MaxRequests
    /\ faults \in 0..MaxFaults
    /\ run.job => queue # <<>>

Init ==
    /\ vocabulary = {}
    /\ label = [i \in Item |-> NoLabel]
    /\ arrived = {}
    /\ queue = <<>>
    /\ pc = "idle"
    /\ run = NoRun
    /\ answer = <<>>
    /\ read = {}
    /\ todo = {}
    /\ current = TRUE
    /\ found = {}
    /\ requests = 0
    /\ faults = 0

-----------------------------------------------------------------------------
Request == requests < MaxRequests /\ requests' = requests + 1

Fault == faults < MaxFaults /\ faults' = faults + 1

FirstSpellings(listing) ==
    {listing[i] : i \in {j \in DOMAIN listing :
                           \A k \in 1..(j - 1) : Folded[listing[k]] # Folded[listing[j]]}}

\* set_categories: one spelling of each name, and always an escape hatch.
Cleaned(listing) ==
    LET clean == FirstSpellings(listing)
        hatch == {c \in clean : Folded[c] = Folded[Other]}
    IN  IF clean # {} /\ hatch = {} THEN clean \cup {Other} ELSE clean

-----------------------------------------------------------------------------
(* Admins *)

\* admin_dashboard_categories
SaveVocabulary(listing) ==
    /\ Request
    /\ vocabulary' = Cleaned(listing)
    /\ current' = FALSE
    /\ UNCHANGED <<label, arrived, queue, worker, faults>>

\* admin_dashboard_recategorise and admin_dashboard_rediscover
AskJob(rediscover) ==
    /\ Request
    /\ queue' = Append(queue, rediscover)
    /\ UNCHANGED <<vocabulary, label, arrived, worker, current, faults>>

-----------------------------------------------------------------------------
(* A run of the worker *)

\* A scan that stored a new invoice, on its own or as a job of its own, ends with
\* the categorisation of what has no label.
ScanEnds(i) ==
    /\ pc = "idle"
    /\ i \notin arrived
    /\ arrived' = arrived \cup {i}
    /\ run' = NoRun
    /\ pc' = "check"
    /\ UNCHANGED <<vocabulary, label, answer, read, todo, current, found, web, faults>>

\* _run_job: both kinds of job relabel everything.
StartJob ==
    /\ pc = "idle"
    /\ queue # <<>>
    /\ run' = [force |-> Head(queue), all |-> TRUE, job |-> TRUE]
    /\ pc' = IF Head(queue) THEN "discover" ELSE "check"
    /\ UNCHANGED <<vocabulary, label, arrived, answer, read, todo, current, found, web, faults>>

\* Mutant of Missing: a vocabulary of nothing but the escape hatch counts as none.
MissingButHatch(v) == v \subseteq {Other}

Missing(v) == v = {}

\* ensure_categories, its first look at the vocabulary.
Check ==
    /\ pc = "check"
    /\ found' = vocabulary
    /\ pc' = IF Missing(vocabulary) THEN "discover" ELSE "reread"
    /\ UNCHANGED <<vocabulary, label, arrived, run, answer, read, todo, current, web, faults>>

\* categorise_all has its vocabulary: it looks again if it was given none.
Take(next) ==
    /\ read' = vocabulary
    /\ pc' = next
    /\ todo' = arrived
    /\ current' = (current \/ run.all)

\* ensure_categories, its second look.
Reread ==
    /\ pc = "reread"
    /\ Take(IF vocabulary = {} THEN "third" ELSE "label")
    /\ UNCHANGED <<vocabulary, label, arrived, run, answer, found, web, faults>>

LookAgain ==
    /\ pc = "third"
    /\ Take("label")
    /\ UNCHANGED <<vocabulary, label, arrived, run, answer, found, web, faults>>

Sampled == {i \in Item \ Textless : InvoiceOf[i] \in arrived}

\* discover_categories: nothing is asked when there is nothing to show.
Discover(listing) ==
    /\ pc = "discover"
    /\ Sampled = {} => listing = <<>>
    /\ answer' = listing
    /\ pc' = "store"
    /\ UNCHANGED <<vocabulary, label, arrived, run, read, todo, current, found, web, faults>>

\* set_categories, whatever has become of the vocabulary meanwhile.
StoreAnswer ==
    /\ pc = "store"
    /\ vocabulary' = Cleaned(answer)
    /\ current' = FALSE
    /\ answer' = <<>>
    /\ pc' = "stored"
    /\ UNCHANGED <<label, arrived, run, read, todo, found, web, faults>>

\* A rediscovery is followed by categorise_all, which checks once more.
Stored ==
    /\ pc = "stored"
    /\ IF run.force
         THEN /\ pc' = "check"
              /\ run' = [run EXCEPT !.force = FALSE]
              /\ UNCHANGED <<read, todo, current>>
         ELSE /\ Take(IF vocabulary = {} THEN "third" ELSE "label")
              /\ UNCHANGED run
    /\ UNCHANGED <<vocabulary, label, arrived, answer, found, web, faults>>

\* Mutant of Selected: only items without a label, whatever was asked for.
SelectedUnlabelled(i) == {x \in Item : InvoiceOf[x] = i /\ label[x] = NoLabel}

Selected(i) == {x \in Item : InvoiceOf[x] = i /\ (run.all \/ label[x] = NoLabel)}

\* The schema constrains the answer to the vocabulary, if there is one.
Allowed == IF read = {} THEN Name ELSE read

\* One invoice: batches that fail keep the label they have, which may be none.
LabelInvoice(i, failed) ==
    /\ pc = "label"
    /\ i \in todo /\ \A j \in todo : i <= j
    /\ failed \subseteq Selected(i)
    /\ IF failed = {} THEN UNCHANGED faults ELSE Fault
    /\ \E given \in [Selected(i) \ failed -> Allowed] :
         label' = [x \in Item |-> IF x \in DOMAIN given THEN given[x] ELSE label[x]]
    /\ todo' = todo \ {i}
    /\ current' = (current /\ failed = {})
    /\ UNCHANGED <<vocabulary, arrived, pc, run, answer, read, found, web>>

\* The verdict of poll(), for a run that is a job.
Verdict == IF run.job THEN Tail(queue) ELSE queue

Finish == pc' = "idle" /\ run' = NoRun /\ todo' = {} /\ answer' = <<>> /\ read' = {}

EndRun ==
    /\ pc = "label"
    /\ todo = {}
    /\ Finish
    /\ queue' = Verdict
    /\ UNCHANGED <<vocabulary, label, arrived, current, found, requests, faults>>

\* The model server fails: the job is an error, a scan only says so.
DiscoverFails ==
    /\ pc = "discover"
    /\ Fault
    /\ Finish
    /\ queue' = Verdict
    /\ UNCHANGED <<vocabulary, label, arrived, current, found, requests>>

\* The worker dies: its job is queued again, in its place.
Crash ==
    /\ pc # "idle"
    /\ Fault
    /\ Finish
    /\ current' = FALSE
    /\ UNCHANGED <<vocabulary, label, arrived, queue, found, requests>>

-----------------------------------------------------------------------------
Step ==
    \/ StartJob
    \/ Check
    \/ Reread
    \/ LookAgain
    \/ \E listing \in Listing : Discover(listing)
    \/ StoreAnswer
    \/ Stored
    \/ \E i \in todo : LabelInvoice(i, {})
    \/ EndRun

Next ==
    \/ \E listing \in Listing : SaveVocabulary(listing)
    \/ \E rediscover \in BOOLEAN : AskJob(rediscover)
    \/ \E i \in Invoice : ScanEnds(i)
    \/ Step
    \/ \E i \in todo : \E failed \in SUBSET Selected(i) \ {{}} : LabelInvoice(i, failed)
    \/ DiscoverFails
    \/ Crash

Spec == Init /\ [][Next]_vars

-----------------------------------------------------------------------------
(* Properties *)

\* Once everything was relabelled and neither an edit, a discovery, a failed batch
\* nor a crash came after, every label is of the vocabulary, whenever in a run of
\* several reads the admins changed it (categorise_all).
LabelsFollowVocabulary ==
    (pc = "idle" /\ current /\ vocabulary # {}) =>
        \A i \in Item : label[i] # NoLabel => label[i] \in vocabulary

\* A run that was not asked to rediscover replaces the vocabulary only if there was
\* none when it looked (ensure_categories).
DiscoversOnlyIfMissing ==
    [][(pc = "store" /\ ~run.force /\ vocabulary' # vocabulary /\ requests' = requests)
          => found = {}]_vars
=============================================================================
