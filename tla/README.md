# EpiProc v3: models, checks and proofs

EpiProc reads purchase invoices (PDFs dropped into a folder) with a local vision model, stores
them in Postgres, categorises their lines and shows the spend on a dashboard; a costing
calculator keeps a product catalogue that supplier offers are imported into. One container per
customer runs two processes, a FastAPI web process and a worker, on one database.

This directory holds TLA+ modules of the parts whose correctness depends on the order of steps,
on crashes or on several actors, the TLC configurations that check them on small instances, and
TLAPS proofs of what holds for every instance. `PROJECT.json` maps every definition to the lines
it models.

## 1. The system

| component | state it keeps | operations | what is hard about it |
|---|---|---|---|
| Job queue and worker (`worker.py`, `db/jobs.py`, `docker/start.sh`) | table `jobs`: status, worker_pid, created_at; the connection and the local `job` of `poll()` | `create_job`, `cancel_job`; claim, run, verdict, reconnect, `_requeue_abandoned` | lost connections and lost commit answers, crash of either process, pids that come back, several workers |
| Folder scan (`ingest/scan.py`, `ingest/pipeline.py`, `db/ingested.py`, `db/invoices.py`) | files on disk, ledger `ingested_files`, tables `invoices` and `invoice_items` | `scan_and_process`, `process_pdf`, `record`, `insert_record` | two commits per file, files that change under the scan, retries over several scans, duplicates by content, name and number |
| Extraction and rules (`ingest/pdf_vlm.py`, `ingest/rules.py`, `ingest/schema.py`) | none; a temporary file | `extract_invoice`, `_run_page`, `_merge_continuation`, `_unwrap_embedded_pdf`, `apply_rules` | truncated answers and budgets, continuation pages that repeat or renumber lines, a copy left in the scanned folder |
| Categorisation (`ingest/categorise.py`, `ingest/discover.py`, `db/settings.py`) | `invoice_items.category`, setting `categories` | `categorise_all`, `ensure_categories`, `discover_categories`, `set_categories` | failed batches; the vocabulary is read three times, derived for minutes and overwritten, while admins edit it |
| Migrations (`db/pool.py`, `docker/start.sh`, `web/app.py`) | the schema, `schema_migrations`, an advisory lock | `run_migrations` | concurrent starts, a file that fails partway, a dead lock holder, several image versions |
| Catalogue and offers (`db/costing.py`, `costing/offer_import.py`, `web/routers/costing.py`) | `products`, `costings`, `offer_imports`, workbooks on disk | `upsert_product`, `save_costing`, preview, `run_offer_import`, `delete_offer_import` | product identity by EAN or name, price provenance, version numbers, a preview that must predict a transaction |
| Calculation (`costing/calc.py`) | none | `compute` | rounding, zero denominators |
| Accounts (`db/users.py`, `db/sessions.py`, `web/auth.py`, `web/session.py`, routers `login`, `reset`, `admin`) | `users`, `sessions`, `invite_tokens`, the key file; cookies of the browsers | login in two steps, logout, invitations, the admin's operations, redirects | single use, links that supersede links, admins with old sessions, pages that redirect to each other |
| Dashboard (`db/dashboard.py`, `normalisation.py`) | none | `get_dashboard_data`, `get_multi_dashboard_data`, departments, the sums of each view | two queries with writes between them, views that must show the same money |
| Legacy deduplication (`legacy/dedup_v1_sqlite.py`) | PDFs, copies, the skip list; an index under a lock | scan, strip, compare, write the list | threads, runs that are killed while they rewrite files |
| Web security, audit, metrics, mail, settings, CLI | append-only logs, counters, configuration | middleware, records | nothing that spans steps |

How they interact. The web process inserts rows of `jobs`; the worker polls them, and when there
is none it scans the folder. A job of type extract runs the same scan, one of type categorise the
categorisation. The scan calls the pipeline per file and the categorisation at its end. The web
process reads what the worker stores and writes the settings the worker reads. Both processes
rely on the migrations that the start script runs before it launches them. The dashboard reads
the invoices and items while the worker stores and labels them. The catalogue shares only the
database and the settings with the rest. The legacy scripts are those of the first version, kept for
reference: they read its SQLite database and do not run in v3 (`legacy/README.md`).

What makes each correct: a job is executed to a verdict once decided, and by one worker at a time;
a file gets one verdict, its invoice is stored once and not lost; each printed row of an invoice is
in its record once, and a figure that does not add up has a warning; labels are of the vocabulary,
which is not replaced unasked; a migration is applied once, in order, recorded exactly when
applied; an import is all or nothing, agrees with its preview, and respects what admins set; only
the newest link sets a password, once, and an admin who can act remains; all views of a page agree;
of the files with one number, one is extracted.

## 2. Modules

| module | what it is |
|---|---|
| `JobQueue` | the table `jobs`, the processes of the container and the loop of every worker |
| `JobLifecycle` | what the queue promises about a job: the abstract specification `JobQueue` implements |
| `JobQueueProofs` | theorems about `JobQueue` |
| `Ingest` | files, ledger, invoices, and the scan that turns one into the other |
| `IngestProofs` | theorems about `Ingest` |
| `Migrations` | the runners of `run_migrations`, the lock, the schema and its ledger |
| `MigrationsProofs` | theorems about `Migrations` |
| `OfferImport` | products, costings, offer imports with their preview, admin edits |
| `OfferImportProofs` | theorems about `OfferImport` |
| `Accounts`, `AccountsProofs` | users, sessions, both steps of the login, links, redirects; theorems about them |
| `Categories`, `CategoriesProofs` | the vocabulary, the labels, and the runs that write both; theorems about them |
| `Paper` | constants only: what is printed on the documents the next four modules are about |
| `Rules` | the corrections of `rules.py`, as operators on a record |
| `Extraction` | the page loop and the merge of continuation pages; EXTENDS `Rules` |
| `Dashboard` | departments, the two queries and the sums of the views, as operators; EXTENDS `Rules` |
| `Documents` | composes `Extraction`, `Rules` and `Dashboard` over the tables between them |
| `DocumentsProofs` | theorems about the four |
| `LegacyDedup`, `LegacyDedupProofs` | the legacy deduplication; theorems about it |
| `*MC` | the instances TLC checks |

### JobQueue
`status`, `owner`, `created` are the table (a job is its rank in `created_at` order); `pc` is where
each worker stands in `poll()`; `conn` says whether its connection is usable; `cur` and `rows` are
the locals `job` and the rows `_requeue_abandoned` has read; `pid`, `webpid` are the pids of the
processes. A transaction is split exactly where another process can see or disturb its middle:

- the claim between its `SELECT ... FOR UPDATE SKIP LOCKED` (`ClaimSelect`, which takes the row
  lock) and its commit (`ClaimCommit`); other claims skip the locked row, updates wait for it;
- the requeue between its unlocked `SELECT` (`Connect`) and its `UPDATE`s (`Requeue`);
- the run between its end and the commit of the verdict (`FinishCommit`).

`ClaimCommitLost` and `FinishCommitLost` are commits that took effect and whose answer was lost.
The connection drops at any point (`ConnectionLost`) and the worker notices at its next statement
(`NoticeLost`), not before: `_run_job` works on connections of the pool. `RunRaisesDbDown` is the
branch `except _DB_DOWN: raise`. `ContainerDown` is `wait -n`: the end of either process takes the
other with it, and Compose starts the container again with pids of its choice. `ExtraUp` is a
worker started by hand, which the comment on line 4 of `worker.py` allows. `cancel_job` has no
caller in the repository; it is in the model because it is part of the queue's interface. The
folder scan of the idle branch is `Ingest`; here it is a step that cannot fail, as every exception
of it is swallowed.

### JobLifecycle
Created, started oldest first, retried any number of times, done only after its work has been
performed, cancelled while queued or running, verdicts final. A cancelled job may come back by a
retry that was already being decided; that is what the code does, and it is part of the promise.

### Ingest
A document is the content of a file; what the vision model extracts from it (seller, number) is a
function of it, since the model is asked with temperature 0, and any extraction may fail instead.
`ledger` is `ingested_files`, whose hash column holds the document itself. One scan is `StartScan`,
then per file `SkipFile`, `DropDuplicate` or `ProcessFile`, extraction (`ExtractOk`,
`ExtractFails`, `ExtractTransient`), `FindDuplicate` or `InsertRecord` (first commit),
`RecordOutcome` or `RecordError` (second commit), and `EndScan` and `Categorise`. Files may be
overwritten or deleted between any two of these steps, so the extraction may read another document
than was hashed. `Abort` is the end of a scan at any point.

### Migrations
A file is a number; an image of version v ships 1..v. `RunFile` executes the SQL inside the
transaction, `CommitFile` inserts the row and commits both. A runner that dies loses its
transaction and, with its session, the advisory lock.

### OfferImport
The handlers are coroutines that do not await after they have read the form, in the single web
process, so each is one atomic step; an import is a step per row only so that its preview and its
transaction can be compared row by row. `tx` is what the transaction sees; `preview` is the dry
run of the same rows on the committed tables. Both hold their tallies and what they report of the
last row. `found` in `ImportRow` is the product
`find_product_by_key` returns. One price stands for selling and retail price, which follow the same
rules; `TargetOf` is the price computed from the cost and the target margin. A margin of 1 or more,
which leaves an import without prices, is not modelled. `top` is a history variable: the highest
version a product was ever given.

### Accounts
Every handler that writes is one step, since it does not await between its reads and its writes.
What takes several steps is what a browser does: `LoginFirstStep` and `LoginSecondStep` with
anything between them (the account is read again in the second), a link that was mailed
(`SendInvite`, `ResetPassword`), and a redirect that is followed (`Visit`, `ServeDashboard`,
`ServeLogin`). A user may be logged in from several browsers, and admins act with sessions opened
before anything else happened; `ToggleUser` refuses the admin's own account and leaves sessions
alone, as the code does. `ValidSession` is the join of `get_session_with_user`; `Served` adds the
expiry date that only `get_session_user` looks at. The passing of time is an action for each row that
can expire.

### Categories
A run is started by a scan (`ScanEnds`), a recategorise job or a rediscover job (`StartJob`), and
goes through `Check`, `Discover`, `StoreAnswer`, `Stored`, `Reread`, `LookAgain`, each reading or
writing the setting at a time of its own, then labels one invoice per transaction
(`LabelInvoice`), where any batches may fail. `SaveVocabulary` by an admin is possible between any
two of them. `Cleaned` is what `set_categories` makes of a list: first spellings, and the escape
hatch. `current` and `found` are history variables: everything was relabelled from the vocabulary
as it is; the vocabulary the run found.

### Paper, Rules, Extraction, Dashboard, Documents
A document is a record of `Docs`: for each page the answer the model would give with enough
tokens, and its size. A call succeeds (`PageRead`), is cut short (`CutShort`: the budget doubles, up
to `Cap`), or fails (`CallFails`). `Merged` folds a continuation page into the record by position,
article and description as `_merge_continuation` does; `rows`, which no code sees, are the printed rows a line stands for.
`Legible` says of a document what the merge can cope with: a line is of one row, and repeats of a row
are told by their position and their article or description; `DocumentsMC` has TLC evaluate it on the instance.
`ApplyRules` is the default list of rules in its order, on cents. A wrapped document is read from a
copy in the scanned folder, which a crash leaves there to be taken for a document; each copy has a
name of its own, that of the extraction that made it (`strays`).
`Store` is `process_pdf` after the extraction together with `insert_record`; `ReadInvoices` and
`ReadItems` are the two queries per supplier of a page, between which the worker goes on; the views
are sums over what they returned.

### LegacyDedup
Each file is at one `stage` of `process`; as many as there are threads are busy. `CopyAside` and
`Replace` are the two writes of `strip_pages`, either of which may fail and between which the run
may be killed; `Compare` is the section under the lock. `RunAgain` kills the run and starts it
again on the files as they then are.

## 3. Runs

All bounds are constants of the configurations; every fault counts against `MaxFaults`.

| run | what it asks | instance, and why it is enough |
|---|---|---|
| `jobqueue_deployed` | the deployed container: `NeverQueuedWhileExecuting`, `SettlesUnlessHeld`, and that it implements `JobLifecycle` | one worker, two pids for it, one of which the web process may have instead, three jobs, all cancellable, three faults. Order needs two queued jobs while a third runs; three faults give a lost commit, a second loss during the reconnect and a crash, or crashes that hand a pid to the web process and back |
| `jobqueue_workers` | what several workers keep: `OwnJobsReclaimed`, `DoneWasRun`, `CancelHolds` | two workers, pids shared with the web process, a job that always raises an OperationalError; symmetric in the pids only workers get |
| `jobqueue_poison` | finding: a job is retried for ever | one worker, one such job, no fault |
| `ingest` | `IngestedStored`, `NumberUnique`, `RetriesBounded`, `CategorisedAtRest`, `EveryFileSettles` | three files: a supplier folder and a drop box have one of the same name, of which the drop box's is written twice, and a second drop box one of another name; an invoice and its revision under the same number; two attempts; one fault. A row can be replaced by its own file and by one of its name, and a number is met under another name |
| `ingest_raising` | finding: a file that raises starves those after it | two files of two names, three documents, one of which raises, no faults |
| `migrations` | `OneRunner`, `AppliedInOrder`, `RecordedIsApplied`, `UpIsMigrated`, `EveryStartEnds` | three runners, images with one and with three files, two faults. Two contend for the lock while a third holds it; three files give an order |
| `offer_import` | `EansUnique`, `ImportKeepsAdminData`, `AutoPriceFollowsOffer`, `VersionsUnique`, `OffersAccounted`, `PreviewMatches` | two imports of two rows, each any combination of two names, two EANs or none, two costs or none, and one edit by hand, with deletions: two rows can meet in every way that names and EANs allow, and a second offer meets what the first left. Symmetric in names and EANs |
| `accounts` | `LiveIsNewest`, `LinkSetsPasswordOnce`, `LastAdminStays`, `RedirectsEndUnlessExpired` | two users, one or both of whom are admins at the start, two browsers, two passwords, one second factor, four counted events. Two admins who deactivate one another take two logins and the two requests that race; a used and a superseded link take a login and two invitations |
| `accounts_expired` | finding: a browser is redirected for ever | the same with two events, the login and the expiry |
| `categories` | `LabelsFollowVocabulary`, `DiscoversOnlyIfMissing` | two invoices, one of two batches, one without text; three names, two of which differ in case; lists of up to two; three requests, one fault. An edit between two reads needs one request besides the job's, a job behind a job two |
| `documents` | `TypeOK`, `RowsOnce`, `PagesThatFitAreRead`, `StoredOnce`, `DepartmentsAgree`, `ViewsAgree`, `NoSilentGap` | seven documents of two suppliers: two pages of which the second repeats a line and is cut short twice, one whose numbering starts again, two that are wrapped (one another version of a file, one a credit note whose charges are in its total only and that takes every attempt), one rounded twice, one that never fits, one without lines; three extractions and two faults. Any three may meet in the tables while a page is made |
| `legacy_dedup` | `TypeOK`, `DuplicateHasOriginal`, `OneOfEachNumber`, `PagesKept` | six files on three threads, two of one number in two spellings and of two totals, one stored, one stored with another total, one without a number, mail between and after financial pages; three faults, so a run may be killed, and killed again |

The runs of OfferImport, Accounts, Categories, Documents and LegacyDedup do not check deadlock:
nothing there happens unless a request or a file comes, both are bounded, and the legacy script
ends. The type invariants of JobQueue, Ingest, Migrations, OfferImport, Accounts and Categories are
proved, so their runs leave them out.

The findings, with the lines they contradict, are in `PROJECT.json`:

- a job whose own work raises an `OperationalError` is retried for ever and holds up the jobs
  behind it (`jobqueue_poison`);
- a file whose processing raises ends every scan, and the files after it are never reached
  (`ingest_raising`);
- a user whose account expires during a session is redirected between `/login` and `/dashboard` for
  ever, and never sees the message that is meant for him (`accounts_expired`).

The models show more disagreements, which the passing properties are worded around:

- with two workers one job may be executed twice at a time, since the requeue updates by id rows it
  read without a lock (`worker.py:74`, against the comment at `:4`): the theorems on execution and
  on the life cycle assume one worker;
- when the web process of the next container gets the pid of a dead worker, its job stays `running`
  (`worker.py:68`, against `:52-57`): `SettlesUnlessHeld` says that nothing else keeps a job from a
  verdict;
- a drop-box file takes the row of an invoice of its supplier that has its file name, whatever is in it
  (`db/invoices.py:42`, against `scan.py:93-94` and `README.md:191-192`), and the other stays ledgered as
  ingested: `IngestedStored` says that nothing else takes an invoice away;
- an offer replaces the price an earlier import left (`db/costing.py:217-227`, as `:199-200` and
  `docs/costing.md:274-286` want it), where `docs/costing.md:180-186` and `offer_import.py:502` say that
  "a price from an earlier import" wins: the documents contradict one another, and
  `AutoPriceFollowsOffer` states the first;
- the preview takes a row with an EAN and one of the same name without for two products, the import for
  one (`offer_import.py:450`, against `:403-404`): `Separate` in `PreviewMatches` leaves such offers out;
- the preview forgets where the price of a row it has seen came from (`offer_import.py:476`, `:527`), and
  shows a computed price for a second row of a product whose price an admin set, which the import keeps
  (against `:447-449` and `docs/costing.md:140-144`): `PreviewMatches` excepts that price;
- an invoice of which no lines were read gets no warning for that, and the views by line and by invoice
  differ by its total; nor does a credit note whose charges are in its total only (`rules.py:110-129`,
  against `:82-86`): `NoSilentGap` is about the rest;
- of two files of one number in one run the second is skipped, though its total be another
  (`dedup_v1_sqlite.py:424`, against `:17-20` and `:309`): `DuplicateHasOriginal` has the number there,
  and the total for rows of the database;
- after the newest costing was deleted its version number is given again (`db/costing.py:530`, against
  the schema's comment, `0009_costing.sql:9-10`); it is unique among those there are;
- `categorise.py:116-117` says that the answer is always constrained to the vocabulary, but without
  one the run goes on without the constraint (`:120-123`): `LabelsFollowVocabulary` asks for one;
- suppliers with one display name are counted twice in the sums by supplier (`dashboard.py:535`): the
  instance has distinct names, as the default configuration has;
- a numbering that starts again and a repeat of the earlier line on a third page double it
  (`pdf_vlm.py:129`): `RowsOnce` speaks of rows whose position no other row has;
- a document without a number whose unwrapped copy a crash leaves in the folder is stored twice
  (`pdf_vlm.py:52`): `StoredOnce` speaks of numbers;
- the items of a page may be there without their invoice, or it without them, when the worker replaces
  a row between the two queries (`db/dashboard.py:437`): `NoSilentGap` and `DepartmentsAgree` speak of
  what is there together.

### Fairness
- Workers (`FairSpec` of JobQueue): weak fairness of each worker's own steps, since the loop never
  blocks on anything but Postgres and jobs are assumed to end; strong fairness of `Connect`, since
  Postgres comes back and the attempt is repeated for ever; weak fairness of `ContainerUp`, the
  restart policy of the Compose file. None for creating or cancelling jobs, faults, or the failing
  branches.
- Scan (`FairSpec` of Ingest): weak fairness of the scan's steps as a whole, since the worker scans
  again in its idle branch; none for users. Which outcome an extraction has is not assumed.
- Migrations: weak fairness of a runner's steps, strong fairness of `AcquireLock`, since Postgres
  grants an advisory lock in the order it was asked for; none for `Start`, `Stop` and `Crash`.
- Accounts: weak fairness of each browser's `Follow`, since the server answers every request and
  browsers follow redirects; none for what users, admins and time do.
- Categories, OfferImport, Documents and LegacyDedup state no liveness and assume no fairness.

## 4. Proofs

The theorems hold for every value of the constants under the named assumption of each module
(`JobQueueAssumption`, `IngestAssumption`, and so on), which only give the types of constants and
keep the null values apart. Where a theorem assumes more it says so in its own statement:

| theorem | assumes | because |
|---|---|---|
| those on one worker | `Worker = {Entry}` | the container starts one; the runs show what two do |
| `FittingPagesAreRead` | `MaxAttempts >= 4` | the code has four, and the property counts three doublings |
| `RowsAreReadOnce` | every document is `Legible` | the merge knows a row only by what is printed in its line |
| `EveryViewAgrees` | `OwnNames` | sums by supplier are kept under the displayed name |
| `PreviewIsRight` | `Name \cap Ean = {}` | the preview keeps names and EANs in one dictionary |

The instances TLC checks satisfy all of them but the first, which only `jobqueue_deployed` and
`jobqueue_poison` do. Every safety property of the passing runs, invariant or action property, is
stated by a theorem.

`JobQueueProofs`. `TypeCorrect` first. For any number of workers: `OwnJobsAreReclaimed`,
`DoneMeansRun`, `CancellationHolds`. `OwnJobsReclaimed` is not inductive. A worker that looks for
work owns no running row because the requeue before it read every running row; so the invariant
adds that between the `SELECT` and the `UPDATE`s every running row under the worker's pid is among
the rows read, and that no living process has the pid of another. `DoneWasRun` needs that a worker
at "returned" has its job in `ran`, and that one in the claim, run and verdict steps has a job in
hand. With the one worker that is deployed (`Worker = {Entry}`, an assumption of these theorems and
not of the module), the row of the job in execution stays its own, and a requeue reads only rows
nobody executes: from that follow `OneWorkerNeverQueuedWhileExecuting`, `OneWorkerVerdictIsFinal` and
`ImplementsLifecycle`, the refinement of `JobLifecycle` step by step.

`IngestProofs`. `TypeCorrect` needs that the attempts of an entry that is not yet handled are below
the limit for the file in hand, which nothing but this scan changes. `NumbersAreUnique` is inductive:
the insertion happens only when no invoice of the supplier has the number, or when one with this
file name has, which then is the only one and is replaced.
`NothingLeftUncategorised`: rows are uncategorised only while the scan in progress has stored
something, or after one was cut short. `RetriesAreBounded`: `Counted` says that every failure of the
version on disk is in the ledger's attempts, or is the one being written, or was lost with a counted fault; a version overwritten in
the meantime has not failed yet. `IngestedIsStored`: `Honest` follows a file in hand, which is no
newer than the file on disk and no older than its ledger row, and what was hashed is what is
extracted and stored unless the file was rewritten. `insert_record` replaces by file name, so `Honest`
says of each row ledgered that it is there or that a younger one, of a drop-box file, has its place:
a file of a supplier folder is extracted only while no row has its name.

`MigrationsProofs`. `LockExcludes` is inductive with the types. For `MigrationsInOrder` and
`LedgerIsTrue` the invariant says that `recorded` is always an initial segment `1..Len(schema)`,
and that what a runner past its reading has left is exactly what its image ships beyond it: that is
where the lock is needed, since nobody else commits in between. `UpMeansMigrated` follows from
it.

`OfferImportProofs`. One invariant for the committed tables and for those the open transaction
sees: ids below the next one and unique, EANs unique (`Keyed`), versions unique (`Versioned`), the
price of an automatic product that of its newest costing (`Followed`), `LastVersion` no higher than
`top`; `KeptSoFar` relates the transaction to what it found; counters bound the ids that are drawn.
`EansStayUnique`, `VersionsStayUnique`, `AutoPricesFollow` and `ImportsKeepAdminData` follow;
`OffersStayAccounted` needs a second invariant, which counts the costings of each offer in and
outside the transaction. That `MAX(version) + 1` is free rests on a lemma that a finite set of
numbers has a greatest. `PreviewIsRight`: `Traced` relates the
products the transaction has to those it began with and the rows the preview has seen: what is new was
left by a row, what is gone was found and rewritten by one, and each row seen has its product. Where
rows of different keys have different names and products (`Separate`), a row is then found by both
sides or by neither, as a product of the same price and origin unless the preview has seen the row
before. `Separate` only gets harder to satisfy as rows come, so that it held at every row before.

`AccountsProofs`. `OnlyNewestLinkLives` is inductive with the types, since an invitation spends
the links before it. `PasswordsChangeOnceByLink` and `DeactivationSparesAnAdmin` follow for each step
from it and from who may act: the admin who deactivates is active, has not expired, and is another.

`CategoriesProofs`. `LabelsAreOfTheVocabulary`: while nothing came after the relabelling of everything,
the run that labels has read the vocabulary there is, and a label outside it is on an item still to
be relabelled (`Follow`). `UnaskedOnlyIfMissing`: a run that asks the model without being told to
has found no vocabulary (`Looked`).

`LegacyDedupProofs`. The index names exactly the files that are extracted, each under its own key
(`Indexed`): `OneIsExtracted` and `DuplicatesHaveOriginals`, for any number of threads, since the
comparison is one step. `PagesAreKept`: what is left of a file has no garbage, so it is never cut
or copied again, and what is being cut is the original (`Whole`). `TypeCorrect` has the bound on
threads: only `Start` makes a file busy, and it asks for a free one (`Pooled`).

`DocumentsProofs`. `Types` is inductive: types of the worker, of the tables and of the page.
`NumbersAreStoredOnce`: `Store` inserts a number when no row of the supplier has it, or in the place
of the one that has. `FittingPagesAreRead`: while no call has failed, every attempt at a page was cut
short and the budget is the cap or 2, 4, 8 times the first (`BudgetGrows`).

What a page shows was read in parts, supplier by supplier, while the worker went on. `Reading` has
what that leaves true: rows of one id, wherever they were read, are one document and one record
(`Seen`); the parts are of different suppliers, and each was normalised from its own list of invoices
(`Parts`). `PagesAgreeOnDepartments` follows, and the next two start from it.

`EveryViewAgrees` and `GapsAreWarnedOf` need sums. `AddsUp` says of a function on the subsets of a
finite set what a sum satisfies: there is one (`SumsExist`), it is what the fold of the model gives in
whatever order that takes the elements (`FoldIsSum`), and the sum of a set is the sum over its groups of
their sums (`SumOfGroups`). Each view groups the same prices, or the same totals, in another way. For a
gap, the prices of the items on the page are those of the lines of the record that was reconciled
(`PricesOfARow`), and the two checks of `_reconcile_totals` leave only the stated charges, or of a
credit note those of its subtotal (`GapsAreCharges`). The statement is about invoices whose items are on
the page; `NoSilentGap` lists what it leaves silent.

`RowsAreReadOnce`: `RowsRead` says of the record, line by line as a page is merged, that a line of it
comes from a printed line of the pages read and keeps what that says, that every printed line read has
its row in it, and that a row with positions of its own has one line. `LineRead` and `PageMerged` carry
it over a line and a page of `_merge_continuation`, `RowsAfterRules` over the rules, which drop only
customs lines.

Induction over numbers and over finite sets is a lemma on a *set* that holds the base and is closed
under the step (`NatInductionOverSet`, `FiniteInductionOverSet`), from the existence of a minimal
counterexample; that a recursive function exists and meets its equation is `Recursion`.

Only checked by TLC: the liveness properties (`SettlesUnlessHeld`, `EveryFileSettles`, `EveryStartEnds`,
`RedirectsEndUnlessExpired`), since they rest on fairness and so on ENABLED, which the
provers do not reason about.

## 5. Not modelled, and why

- Reading of sheets and PDFs, prompts, rendering, mail, metrics: input and output without state.
- The audit log and usage events: appended, never read to decide.
- The connection pool: connections are interchangeable; its timeout is the `OperationalError` of
  `RunRaisesDbDown`.
- The calculation (`calc.py`): decimal arithmetic of one request, without state; its result enters
  OfferImport as `TargetOf`.
- Box types, menu items and defaults: single upserts of rows an import only reads. Staged and
  archived workbooks: files beside the tables, written after the commit (`routers/costing.py:589`).
- `backfill_paths` and the sanity check of a record, which only annotate rows.
- The key file of the sessions: a crash between its creation and its writing leaves it empty
  (`session.py:42`); two lines that nothing repairs, without a promise to check.
- Rendering of pages, exports, PDF and thumbnail delivery, headers, CSRF tokens: functions of one
  request.
- `verify_v1_sqlite.py`, a report that changes nothing; in LegacyDedup, the temporary file a killed
  run leaves (`:187`). The skip list is in the model and no property is about it: a run without
  duplicates leaves that of an earlier one in force (`:465`), which no document excludes.

## 6. Plan

1. Composition of the queue with the scan and the categorisation, which share one worker: the
   models meet in `jobs`, and a job's verdict depends on the scan's.
2. The staged and archived workbooks of the imports, with crashes between the commit and the files;
   menu items and defaults.
3. Proofs: what documents that are not legible keep (no row is lost); the refinement of
   `JobLifecycle` by several workers, up to the verdicts it then does not keep.
4. The rounding of the calculation as operators against exact fractions.
