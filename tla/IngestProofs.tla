---------------------------- MODULE IngestProofs ----------------------------
(***************************************************************************)
(* Theorems about Ingest, for every set of files, suppliers and documents, *)
(* every number of writes and every number of faults.                      *)
(***************************************************************************)
EXTENDS Ingest, TLAPS

-----------------------------------------------------------------------------
(* Type correctness *)

\* A file is in hand while it is processed, its document once it is extracted,
\* and extraction is tried only for a version with attempts left.
HandShape ==
    /\ nextId # 0
    /\ pc \in {"extract", "store", "failed", "duplicate", "stored"} => file \in InHand
    /\ pc \in {"store", "duplicate", "stored"} => file.doc \in Doc
    /\ pc \in {"extract", "store", "failed"} =>
         \/ ledger[file.path] = NoEntry
         \/ ledger[file.path].mtime # file.mtime
         \/ ledger[file.path].attempts < MaxAttempts

\* A row written for a file of the folder is a ledger entry.
LEMMA RecordType ==
  ASSUME TypeOK, NEW p \in Path, NEW m \in Nat, NEW d \in Doc, NEW id \in Nat,
         NEW r \in Result, NEW a \in 0..MaxAttempts, RecordLedger(p, m, d, id, r, a)
  PROVE  /\ ledger' \in [Path -> Entry \cup {NoEntry}]
         /\ ledger'[p].attempts = a
BY DEF TypeOK, RecordLedger, Entry

\* The supplier and the number of a document have the columns' types.
LEMMA RowType ==
  ASSUME NEW p \in Path, NEW d \in Doc, NEW id \in Nat
  PROVE  [id |-> id, supplier |-> SupplierOf(p, d), filename |-> NameOf[p],
          path |-> p, number |-> NumberOf[d], doc |-> d] \in Invoice
<1>1. SupplierOf(p, d) \in Supplier
  BY DEF SupplierOf, Supplier
<1>2. NameOf[p] \in Name
  BY DEF Name
<1>3. NumberOf[d] \in Number \cup {NoNumber}
  BY DEF Number
<1>4. QED
  BY <1>1, <1>2, <1>3 DEF Invoice

\* A step of the scan or of a user keeps the types and the shape of the file in hand.
LEMMA TypeStep ==
  ASSUME TypeOK, HandShape, [Next]_vars
  PROVE  TypeOK' /\ HandShape'
<1> USE IngestAssumption DEF store, Fault
<1>1. ASSUME NEW p \in Path, NEW d \in Doc, WriteFile(p, d)
      PROVE  TypeOK' /\ HandShape'
  BY <1>1 DEF TypeOK, HandShape, WriteFile
<1>2. ASSUME NEW p \in Path, DeleteFile(p)
      PROVE  TypeOK' /\ HandShape'
  BY <1>2 DEF TypeOK, HandShape, DeleteFile
<1>3. CASE StartScan
  BY <1>3 DEF TypeOK, HandShape, StartScan
<1>4. ASSUME NEW p \in Path, SkipFile(p)
      PROVE  TypeOK' /\ HandShape'
  BY <1>4 DEF TypeOK, HandShape, SkipFile
<1>5. ASSUME NEW p \in Path, DropDuplicate(p)
      PROVE  TypeOK' /\ HandShape'
  <2>1. mtime[p] \in Nat /\ disk[p] \in Doc /\ "duplicate" \in Result
    BY <1>5 DEF TypeOK, DropDuplicate, Result
  <2>2. ledger' \in [Path -> Entry \cup {NoEntry}]
    BY <1>5, <2>1, RecordType DEF DropDuplicate
  <2>3. QED
    BY <1>5, <2>2 DEF TypeOK, HandShape, DropDuplicate
<1>6. ASSUME NEW p \in Path, ProcessFile(p)
      PROVE  TypeOK' /\ HandShape'
  <2>1. file' \in InHand /\ pc' = "extract" /\ file'.path = p /\ file'.mtime = mtime[p]
    BY <1>6 DEF TypeOK, ProcessFile, InHand
  <2>2. \/ ledger[p] = NoEntry
        \/ ledger[p].mtime # mtime[p]
        \/ ledger[p].attempts < MaxAttempts
    BY <1>6 DEF ProcessFile, Handled
  <2>3. QED
    BY <1>6, <2>1, <2>2 DEF TypeOK, HandShape, ProcessFile
<1>7. CASE ExtractOk
  <2>1. file \in InHand /\ disk[file.path] \in Doc
    BY <1>7 DEF HandShape, ExtractOk
  <2>2. /\ file' \in InHand /\ file'.doc \in Doc
        /\ file'.path = file.path /\ file'.mtime = file.mtime
    BY <1>7, <2>1 DEF ExtractOk, InHand
  <2>3. QED
    BY <1>7, <2>2 DEF TypeOK, HandShape, ExtractOk
<1>8. CASE ExtractFails
  <2>1. file.path \in Path
    BY <1>8 DEF HandShape, ExtractFails, InHand
  <2>2. tries' \in [Path -> Nat]
    <3>1. tries' = tries \/ tries' = [tries EXCEPT ![file.path] = @ + 1]
      BY <1>8 DEF ExtractFails
    <3>2. QED
      BY <2>1, <3>1 DEF TypeOK
  <2>3. UNCHANGED <<disk, mtime, ledger, invoices, nextId, uncat, todo, file, newRows, cut, faults>>
    BY <1>8 DEF ExtractFails
  <2>4. pc = "extract" /\ pc' = "failed"
    BY <1>8 DEF ExtractFails
  <2>5. QED
    BY <2>2, <2>3, <2>4 DEF TypeOK, HandShape
<1>9. CASE ExtractTransient
  <2>1. faults' \in 0..MaxFaults
    BY <1>9 DEF TypeOK, ExtractTransient
  <2>2. todo' \in SUBSET Path /\ file' = NoneInHand /\ pc' = "next"
    BY <1>9 DEF TypeOK, ExtractTransient
  <2>3. UNCHANGED <<disk, mtime, ledger, invoices, nextId, uncat, newRows, tries, cut>>
    BY <1>9 DEF ExtractTransient
  <2>4. QED
    BY <2>1, <2>2, <2>3 DEF TypeOK, HandShape
<1>10. CASE RecordError
  <2> DEFINE led == ledger[file.path]
             prev == IF led # NoEntry /\ led.mtime = file.mtime THEN led.attempts ELSE 0
  <2>1. file \in InHand /\ file.path \in Path /\ file.mtime \in Nat /\ file.sha \in Doc
    BY <1>10 DEF HandShape, RecordError, InHand
  <2>2. led \in Entry \cup {NoEntry}
    BY <2>1 DEF TypeOK
  <2>3. prev + 1 \in 0..MaxAttempts
    BY <1>10, <2>2 DEF HandShape, RecordError, Entry
  <2>4. ledger' \in [Path -> Entry \cup {NoEntry}]
    BY <1>10, <2>1, <2>3, RecordType DEF RecordError, Result
  <2>5. QED
    BY <1>10, <2>4 DEF TypeOK, HandShape, RecordError
<1>11. CASE FindDuplicate
  BY <1>11 DEF TypeOK, HandShape, FindDuplicate
<1>12. CASE InsertRecord
  <2>1. file.path \in Path /\ file.doc \in Doc
    BY <1>12 DEF HandShape, InsertRecord, InHand
  <2>2. invoices' \in SUBSET Invoice
    <3> DEFINE row == [id |-> nextId, supplier |-> SupplierOf(file.path, file.doc),
                       filename |-> NameOf[file.path], path |-> file.path,
                       number |-> NumberOf[file.doc], doc |-> file.doc]
    <3>1. row \in Invoice
      BY <2>1, RowType DEF TypeOK
    <3>2. invoices' \subseteq invoices \cup {row}
      BY <1>12 DEF InsertRecord
    <3> HIDE DEF row
    <3>3. QED
      BY <3>1, <3>2 DEF TypeOK
  <2>3. uncat' \in SUBSET Nat /\ nextId' \in Nat /\ nextId' # 0
    <3>1. uncat' \subseteq uncat \cup {nextId} /\ nextId' = nextId + 1
      BY <1>12 DEF InsertRecord
    <3>2. QED
      BY <3>1 DEF TypeOK
  <2>4. QED
    BY <1>12, <2>2, <2>3 DEF TypeOK, HandShape, InsertRecord
<1>13. CASE RecordOutcome
  <2>1. file.path \in Path /\ file.mtime \in Nat /\ file.sha \in Doc
    BY <1>13 DEF HandShape, RecordOutcome, InHand
  <2>2. nextId - 1 \in Nat /\ 0 \in 0..MaxAttempts /\ {"ingested", "duplicate"} \subseteq Result
    BY DEF TypeOK, HandShape, Result
  <2>3. ledger' \in [Path -> Entry \cup {NoEntry}]
    <3>1. CASE pc = "stored"
      <4>1. RecordLedger(file.path, file.mtime, file.sha, nextId - 1, "ingested", 0)
        BY <1>13, <3>1 DEF RecordOutcome
      <4>2. QED
        BY <2>1, <2>2, <4>1, RecordType
    <3>2. CASE pc # "stored"
      <4>1. RecordLedger(file.path, file.mtime, file.sha, 0, "duplicate", 0)
        BY <1>13, <3>2 DEF RecordOutcome
      <4>2. QED
        BY <2>1, <2>2, <4>1, RecordType
    <3>3. QED
      BY <3>1, <3>2
  <2>4. QED
    BY <1>13, <2>3 DEF TypeOK, HandShape, RecordOutcome
<1>14. CASE EndScan
  BY <1>14 DEF TypeOK, HandShape, EndScan
<1>15. ASSUME NEW failed \in SUBSET uncat, Categorise(failed)
       PROVE  TypeOK' /\ HandShape'
  BY <1>15 DEF TypeOK, HandShape, Categorise
<1>16. CASE Abort
  <2>1. faults' \in 0..MaxFaults
    <3>1. faults' = faults \/ Fault
      BY <1>16 DEF Abort
    <3>2. QED
      BY <3>1 DEF TypeOK
  <2>2. todo' = {} /\ file' = NoneInHand /\ pc' = "idle" /\ newRows' = FALSE /\ cut' = TRUE
    BY <1>16 DEF Abort
  <2>3. UNCHANGED <<disk, mtime, ledger, invoices, nextId, uncat, tries>>
    BY <1>16 DEF Abort
  <2>4. TypeOK'
    <3>1. file' \in InHand \cup {NoneInHand} /\ todo' \in SUBSET Path
      BY <2>2
    <3>2. newRows' \in BOOLEAN /\ cut' \in BOOLEAN
      BY <2>2
    <3>3. pc' \in {"idle", "next", "extract", "store", "failed", "duplicate", "stored", "categorise"}
      BY <2>2
    <3>4. QED
      BY <2>1, <2>3, <3>1, <3>2, <3>3 DEF TypeOK
  <2>5. HandShape'
    BY <2>2, <2>3 DEF HandShape
  <2>6. QED
    BY <2>4, <2>5
<1>17. ASSUME NEW p \in Path, FileVanished(p)
       PROVE  TypeOK' /\ HandShape'
  BY <1>17 DEF TypeOK, HandShape, FileVanished
<1>18. CASE UNCHANGED vars
  BY <1>18 DEF TypeOK, HandShape, vars
<1>19. QED
  BY <1>1, <1>2, <1>3, <1>4, <1>5, <1>6, <1>7, <1>8, <1>9, <1>10, <1>11, <1>12, <1>13,
     <1>14, <1>15, <1>16, <1>17, <1>18 DEF Next, ScanStep

LEMMA TypeInvariant == Spec => [](TypeOK /\ HandShape)
<1>1. Init => TypeOK /\ HandShape
  <2>1. ASSUME Init PROVE TypeOK
    <3>1. disk \in [Path -> Doc \cup {NoFile}] /\ mtime \in [Path -> Nat] /\ tries \in [Path -> Nat]
      BY <2>1 DEF Init
    <3>2. ledger \in [Path -> Entry \cup {NoEntry}]
      BY <2>1 DEF Init
    <3>3. faults \in 0..MaxFaults
      BY <2>1, IngestAssumption DEF Init
    <3>4. file \in InHand \cup {NoneInHand} /\ newRows \in BOOLEAN /\ cut \in BOOLEAN
      BY <2>1 DEF Init
    <3>5. /\ invoices \in SUBSET Invoice /\ uncat \in SUBSET Nat /\ todo \in SUBSET Path
          /\ nextId \in Nat
      BY <2>1 DEF Init
    <3>6. pc \in {"idle", "next", "extract", "store", "failed", "duplicate", "stored", "categorise"}
      BY <2>1 DEF Init
    <3>7. QED
      BY <3>1, <3>2, <3>3, <3>4, <3>5, <3>6 DEF TypeOK
  <2>2. Init => HandShape
    BY DEF Init, HandShape
  <2>3. QED
    BY <2>1, <2>2
<1>2. TypeOK /\ HandShape /\ [Next]_vars => TypeOK' /\ HandShape'
  BY TypeStep
<1>3. QED
  BY <1>1, <1>2, PTL DEF Spec

\* Every state of the scan has the types of the tables and of the loop's
\* locals; in particular no ledger row counts more than MaxAttempts failures
\* (scan.py:76-77, 130-132).
THEOREM TypeCorrect == Spec => []TypeOK
BY TypeInvariant, PTL

-----------------------------------------------------------------------------
(* One invoice per supplier and number *)

LEMMA NumberUniqueStep ==
  ASSUME NumberUnique, [Next]_vars
  PROVE  NumberUnique'
<1>1. CASE InsertRecord
  <2> DEFINE s == SupplierOf(file.path, file.doc)
             f == NameOf[file.path]
             old == {i \in invoices : i.supplier = s /\ i.filename = f}
             row == [id |-> nextId, supplier |-> s, filename |-> f, path |-> file.path,
                     number |-> NumberOf[file.doc], doc |-> file.doc]
  <2>1. invoices' = (invoices \ old) \cup {row}
    BY <1>1 DEF InsertRecord
  <2>2. ASSUME NEW i \in invoices \ old, i.number = row.number, row.number # NoNumber,
               i.supplier = row.supplier
        PROVE  FALSE
    <3>1. i \in SameNumber(s)
      BY <2>2 DEF SameNumber
    <3>2. PICK k \in SameNumber(s) : k.filename = f
      BY <1>1, <3>1 DEF InsertRecord
    <3>3. k \in old
      BY <3>2 DEF SameNumber
    <3>4. i = k
      BY <2>2, <3>1, <3>2 DEF NumberUnique, SameNumber
    <3>5. QED
      BY <2>2, <3>3, <3>4
  <2> HIDE DEF old, row
  <2>3. QED
    BY <2>1, <2>2 DEF NumberUnique
<1>2. CASE ~InsertRecord
  <2>1. UNCHANGED invoices
    BY <1>2 DEF Next, ScanStep, vars, store, WriteFile, DeleteFile, StartScan, SkipFile,
                DropDuplicate, ProcessFile, FileVanished, ExtractOk, ExtractFails,
                ExtractTransient, RecordError, FindDuplicate, RecordOutcome, EndScan,
                Categorise, Abort
  <2>2. QED
    BY <2>1 DEF NumberUnique
<1>3. QED
  BY <1>1, <1>2

\* Whatever is re-sent, renamed, replaced or processed again after a scan cut
\* short, a supplier never has two invoices of one number (pipeline.py:75-85 with
\* the replacing insert of db/invoices.py:42).
THEOREM NumbersAreUnique == Spec => []NumberUnique
<1>1. Init => NumberUnique
  BY DEF Init, NumberUnique
<1>2. NumberUnique /\ [Next]_vars => NumberUnique'
  BY NumberUniqueStep
<1>3. QED
  BY <1>1, <1>2, PTL DEF Spec

-----------------------------------------------------------------------------
(* Nothing is left uncategorised *)

\* While items wait for a category, the scan that stored them still knows of it.
Remembered ==
    ~cut /\ uncat # {} =>
        \/ pc \in {"stored", "categorise"}
        \/ newRows /\ pc \in {"next", "extract", "store", "failed", "duplicate"}

LEMMA RememberedStep ==
  ASSUME Remembered, [Next]_vars
  PROVE  Remembered'
<1> USE DEF Remembered, store
<1>1. ASSUME NEW p \in Path, NEW d \in Doc, WriteFile(p, d) \/ DeleteFile(p)
      PROVE  Remembered'
  BY <1>1 DEF WriteFile, DeleteFile
<1>2. CASE StartScan \/ EndScan
  BY <1>2 DEF StartScan, EndScan
<1>3. ASSUME NEW p \in Path, SkipFile(p) \/ DropDuplicate(p) \/ ProcessFile(p) \/ FileVanished(p)
      PROVE  Remembered'
  BY <1>3 DEF SkipFile, DropDuplicate, ProcessFile, FileVanished
<1>4. CASE ExtractOk \/ ExtractFails \/ ExtractTransient
  BY <1>4 DEF ExtractOk, ExtractFails, ExtractTransient
<1>5. CASE RecordError \/ FindDuplicate \/ InsertRecord \/ RecordOutcome
  BY <1>5 DEF RecordError, FindDuplicate, InsertRecord, RecordOutcome
<1>6. ASSUME NEW failed \in SUBSET uncat, Categorise(failed)
      PROVE  Remembered'
  BY <1>6 DEF Categorise
<1>7. CASE Abort \/ UNCHANGED vars
  BY <1>7 DEF Abort, vars
<1>8. ASSUME NEW p \in Path, DeleteFile(p)
      PROVE  Remembered'
  BY <1>8 DEF DeleteFile
<1>9. QED
  BY <1>1, <1>2, <1>3, <1>4, <1>5, <1>6, <1>7, <1>8 DEF Next, ScanStep

\* A scan that is not cut short leaves no new item without a category: the
\* count of new rows reaches the batch at the end of the scan (scan.py:114, 136-138).
THEOREM NothingLeftUncategorised == Spec => []CategorisedAtRest
<1>1. Init => Remembered
  BY DEF Init, Remembered
<1>2. Remembered /\ [Next]_vars => Remembered'
  BY RememberedStep
<1>3. Remembered => CategorisedAtRest
  BY DEF Remembered, CategorisedAtRest
<1>4. QED
  BY <1>1, <1>2, <1>3, PTL DEF Spec

-----------------------------------------------------------------------------
(* Retries *)

Working == pc \in {"extract", "store", "failed", "duplicate", "stored"}

\* The ledger row is about the version of the file that is there.
Seen(p) == ledger[p] # NoEntry /\ ledger[p].mtime = mtime[p]

\* A failure that is not in the ledger yet.
Pending(p) == pc = "failed" /\ file.path = p /\ file.mtime = mtime[p]

\* What has failed is in the ledger, is being written there, or was lost with a
\* fault; a verdict other than an error ends the count.
Budget(p) ==
    /\ Seen(p) /\ ledger[p].result # "error" => tries[p] <= MaxAttempts + faults
    /\ Seen(p) /\ ledger[p].result = "error" =>
         /\ tries[p] <= ledger[p].attempts + 1 + faults
         /\ ~Pending(p) => tries[p] <= ledger[p].attempts + faults
    /\ ~Seen(p) =>
         /\ tries[p] <= 1 + faults
         /\ ~Pending(p) => tries[p] <= faults

\* Only versions without a verdict are worked on, and a version that was written
\* meanwhile has not been tried.
Open ==
    Working =>
        /\ \/ ledger[file.path] = NoEntry
           \/ ledger[file.path].mtime # file.mtime
           \/ ledger[file.path].result = "error"
        /\ file.mtime # mtime[file.path] => tries[file.path] = 0

Counted == Open /\ \A p \in Path : Budget(p)

LEMMA CountTypes ==
  ASSUME TypeOK, HandShape
  PROVE  /\ MaxAttempts \in Nat /\ MaxAttempts >= 1 /\ faults \in Nat
         /\ \A p \in Path : tries[p] \in Nat /\ mtime[p] \in Nat
         /\ \A p \in Path : ledger[p] # NoEntry => ledger[p].attempts \in 0..MaxAttempts
         /\ Working => file.path \in Path
<1>1. MaxAttempts \in Nat /\ MaxAttempts >= 1 /\ MaxFaults \in Nat
  BY IngestAssumption
<1>2. \A p \in Path : ledger[p] # NoEntry => ledger[p].attempts \in 0..MaxAttempts
  BY DEF TypeOK, Entry
<1>3. Working => file.path \in Path
  BY DEF Working, HandShape, InHand
<1> QED
  BY <1>1, <1>2, <1>3 DEF TypeOK

\* More faults leave more room.
LEMMA BudgetGrows ==
  ASSUME TypeOK, HandShape, TypeOK', NEW p \in Path, Budget(p), faults <= faults',
         tries'[p] = tries[p], ledger'[p] = ledger[p], mtime'[p] = mtime[p],
         ~Pending(p)
  PROVE  Budget(p)'
<1>1. tries[p] \in Nat /\ faults \in Nat /\ faults' \in Nat
  BY IngestAssumption DEF TypeOK
<1>2. Seen(p)' = Seen(p)
  BY DEF Seen
<1>3. \A a \in Nat : tries[p] <= a + faults => tries[p] <= a + faults' /\ tries[p] <= a + 1 + faults'
  BY <1>1
<1>4. tries[p] <= faults => tries[p] <= faults' /\ tries[p] <= 1 + faults'
  BY <1>1
<1>5. MaxAttempts \in Nat
  BY IngestAssumption
<1>6. Seen(p) => ledger[p].attempts \in Nat
  BY DEF TypeOK, Entry, Seen
<1> QED
  BY <1>2, <1>3, <1>4, <1>5, <1>6 DEF Budget

\* A verdict that is not an error settles the count.
LEMMA BudgetSettled ==
  ASSUME TypeOK, HandShape, NEW p \in Path, Budget(p), ~Pending(p), faults' = faults,
         tries'[p] = tries[p], mtime'[p] = mtime[p],
         ledger'[p] # NoEntry, ledger'[p].result # "error",
         ledger'[p].mtime = mtime[p] \/ tries[p] = 0
  PROVE  Budget(p)'
<1>1. tries[p] \in Nat /\ faults \in Nat /\ MaxAttempts \in Nat /\ MaxAttempts >= 1
  BY IngestAssumption DEF TypeOK
<1>2. Seen(p) => ledger[p].attempts \in 0..MaxAttempts
  BY DEF TypeOK, Entry, Seen
<1>3. tries[p] <= MaxAttempts + faults
  <2>1. CASE Seen(p) /\ ledger[p].result = "error"
    <3>1. tries[p] <= ledger[p].attempts + faults
      BY <2>1 DEF Budget
    <3>2. \A a \in 0..MaxAttempts : tries[p] <= a + faults => tries[p] <= MaxAttempts + faults
      BY <1>1
    <3> QED BY <1>2, <2>1, <3>1, <3>2
  <2>2. CASE Seen(p) /\ ledger[p].result # "error"
    BY <2>2 DEF Budget
  <2>3. CASE ~Seen(p)
    BY <1>1, <2>3 DEF Budget
  <2> QED BY <2>1, <2>2, <2>3
<1>4. tries[p] = 0 => tries[p] <= faults /\ tries[p] <= 1 + faults
  BY <1>1
<1> QED
  BY <1>3, <1>4 DEF Budget, Seen

LEMMA CountedStep ==
  ASSUME TypeOK, HandShape, TypeOK', HandShape', Counted, [Next]_vars
  PROVE  Counted'
<1> USE DEF store
<1>1. ASSUME NEW q \in Path, NEW d \in Doc, WriteFile(q, d)
      PROVE  Counted'
  <2>1. /\ tries' = [tries EXCEPT ![q] = 0] /\ mtime' = [mtime EXCEPT ![q] = @ + 1]
        /\ UNCHANGED <<ledger, file, pc, faults>>
    BY <1>1 DEF WriteFile
  <2>2. tries'[q] = 0 /\ \A p \in Path \ {q} : tries'[p] = tries[p] /\ mtime'[p] = mtime[p]
    BY <2>1 DEF TypeOK
  <2>3. Open'
    <3>1. Working' => file.path \in Path
      BY <2>1, CountTypes DEF Working
    <3> QED BY <2>1, <2>2, <3>1 DEF Counted, Open, Working
  <2>4. ASSUME NEW p \in Path \ {q} PROVE Budget(p)'
    BY <2>1, <2>2 DEF Counted, Budget, Seen, Pending
  <2>5. Budget(q)'
    <3>1. faults \in Nat /\ MaxAttempts \in Nat /\ faults' = faults
      BY <2>1, CountTypes
    <3>2. Seen(q)' => ledger'[q].attempts \in Nat
      BY DEF TypeOK, Entry, Seen
    <3>3. \A a \in Nat : 0 <= a + faults /\ 0 <= a + 1 + faults /\ 0 <= 1 + faults /\ 0 <= faults
      BY <3>1
    <3> QED BY <2>2, <3>1, <3>2, <3>3 DEF Budget
  <2> QED BY <2>3, <2>4, <2>5 DEF Counted
<1>2. ASSUME NEW q \in Path, DeleteFile(q)
      PROVE  Counted'
  BY <1>2 DEF DeleteFile, Counted, Open, Working, Budget, Seen, Pending
<1>3. CASE StartScan \/ EndScan
  BY <1>3 DEF StartScan, EndScan, Counted, Open, Working, Budget, Seen, Pending
<1>4. ASSUME NEW q \in Path, SkipFile(q) \/ FileVanished(q)
      PROVE  Counted'
  BY <1>4 DEF SkipFile, FileVanished, Counted, Open, Working, Budget, Seen, Pending
<1>5. ASSUME NEW q \in Path, DropDuplicate(q)
      PROVE  Counted'
  <2>1. /\ pc = "next" /\ UNCHANGED <<tries, mtime, faults, pc>>
        /\ RecordLedger(q, mtime[q], disk[q], 0, "duplicate", 0)
    BY <1>5 DEF DropDuplicate
  <2>2. ASSUME NEW p \in Path PROVE Budget(p)'
    <3>1. Budget(p) /\ ~Pending(p)
      BY <2>1 DEF Counted, Pending
    <3>2. CASE p = q
      <4>1. ledger'[p] # NoEntry /\ ledger'[p].result # "error" /\ ledger'[p].mtime = mtime[p]
        BY <2>1, <3>2 DEF RecordLedger, NoEntry, TypeOK
      <4> QED BY <2>1, <3>1, <4>1, BudgetSettled
    <3>3. CASE p # q
      <4>1. ledger'[p] = ledger[p]
        BY <2>1, <3>3 DEF RecordLedger, TypeOK
      <4>2. faults <= faults'
        BY <2>1, CountTypes
      <4> QED BY <2>1, <3>1, <4>1, <4>2, BudgetGrows
    <3> QED BY <3>2, <3>3
  <2> QED BY <2>1, <2>2 DEF Counted, Open, Working
<1>6. ASSUME NEW q \in Path, ProcessFile(q)
      PROVE  Counted'
  <2>1. /\ pc = "next" /\ pc' = "extract" /\ file'.path = q /\ file'.mtime = mtime[q] /\ ~Handled(q)
        /\ UNCHANGED <<tries, mtime, faults, ledger>>
    BY <1>6 DEF ProcessFile
  <2>2. Open'
    BY <2>1 DEF Open, Handled
  <2> QED BY <2>1, <2>2 DEF Counted, Budget, Seen, Pending
<1>7. CASE ExtractOk
  <2>1. /\ file'.path = file.path /\ file'.mtime = file.mtime /\ pc = "extract" /\ pc' = "store"
        /\ UNCHANGED <<tries, mtime, faults, ledger>>
    BY <1>7 DEF ExtractOk, HandShape, InHand
  <2> QED BY <2>1 DEF Counted, Open, Working, Budget, Seen, Pending
<1>8. CASE ExtractFails
  <2>1. /\ pc = "extract" /\ pc' = "failed" /\ UNCHANGED <<mtime, faults, ledger, file>>
        /\ file.path \in Path /\ faults \in Nat /\ Open
    BY <1>8, CountTypes DEF ExtractFails, Counted, Working
  <2>2. CASE file.mtime # mtime[file.path]
    <3>1. tries' = tries
      BY <1>8, <2>2 DEF ExtractFails
    <3> QED BY <2>1, <2>2, <3>1 DEF Counted, Open, Working, Budget, Seen, Pending
  <2>3. CASE file.mtime = mtime[file.path]
    <3>1. tries' = [tries EXCEPT ![file.path] = @ + 1]
      BY <1>8, <2>3 DEF ExtractFails
    <3>2. ASSUME NEW p \in Path \ {file.path} PROVE Budget(p)'
      <4>1. tries'[p] = tries[p]
        BY <3>1 DEF TypeOK
      <4>2. Pending(p)' = Pending(p)
        BY <2>1 DEF Pending
      <4> QED BY <2>1, <4>1, <4>2 DEF Counted, Budget, Seen
    <3>3. Budget(file.path)'
      <4> DEFINE p == file.path
      <4>1. tries'[p] = tries[p] + 1 /\ tries[p] \in Nat
        BY <2>1, <3>1 DEF TypeOK
      <4>2. Pending(p)' /\ ~Pending(p) /\ Seen(p)' = Seen(p)
        BY <2>1, <2>3 DEF Pending, Seen
      <4>3. Seen(p) => ledger[p].result = "error" /\ ledger[p].attempts \in Nat
        BY <2>1, <2>3 DEF Open, Working, Seen, TypeOK, Entry
      <4>4. \A a \in Nat : tries[p] <= a + faults => tries[p] + 1 <= a + 1 + faults
        BY <2>1, <4>1
      <4>5. tries[p] <= faults => tries[p] + 1 <= 1 + faults
        BY <2>1, <4>1
      <4>6. Budget(p) /\ p' = p
        BY <2>1 DEF Counted
      <4>7. ledger'[p] = ledger[p] /\ faults' = faults
        BY <2>1
      <4> HIDE DEF p
      <4>8. Budget(p)'
        BY <4>1, <4>2, <4>3, <4>4, <4>5, <4>6, <4>7 DEF Budget
      <4> QED BY <4>8 DEF p
    <3>4. Open'
      BY <2>1, <2>3 DEF Open, Working
    <3> QED BY <2>1, <3>2, <3>3, <3>4 DEF Counted
  <2> QED BY <2>2, <2>3
<1>9. CASE RecordError
  <2> DEFINE q == file.path
             led == ledger[q]
             prev == IF led # NoEntry /\ led.mtime = file.mtime THEN led.attempts ELSE 0
  <2>1. /\ pc = "failed" /\ pc' = "next" /\ UNCHANGED <<tries, mtime, faults>>
        /\ q \in Path /\ faults \in Nat /\ Open
        /\ RecordLedger(q, file.mtime, file.sha, 0, "error", prev + 1)
    BY <1>9, CountTypes DEF RecordError, Counted, Working
  <2>2. ASSUME NEW p \in Path \ {q} PROVE Budget(p)'
    <3>1. ledger'[p] = ledger[p] /\ ~Pending(p) /\ Budget(p)
      BY <2>1 DEF RecordLedger, TypeOK, Pending, Counted
    <3>2. faults <= faults'
      BY <2>1
    <3> QED BY <2>1, <3>1, <3>2, BudgetGrows
  <2>3. ASSUME NEW p \in Path, p = q PROVE Budget(p)'
    <3>1. /\ ledger'[p].mtime = file.mtime /\ ledger'[p].result = "error"
          /\ ledger'[p].attempts = prev + 1 /\ ledger'[p] # NoEntry
      BY <2>1, <2>3 DEF RecordLedger, TypeOK, NoEntry
    <3>2. tries'[p] = tries[p] /\ tries[p] \in Nat /\ mtime'[p] = mtime[p] /\ prev \in Nat
      BY <2>1, <2>3, CountTypes
    <3>3. CASE file.mtime = mtime[p]
      <4>1. tries[p] <= prev + 1 + faults
        <5>1. CASE Seen(p)
          <6>1. ledger[p].result = "error" /\ prev = ledger[p].attempts
            BY <2>1, <2>3, <3>3, <5>1 DEF Open, Working, Seen
          <6> QED BY <5>1, <6>1 DEF Counted, Budget
        <5>2. CASE ~Seen(p)
          <6>1. prev = 0
            BY <2>3, <3>3, <5>2 DEF Seen
          <6> QED BY <2>1, <5>2, <6>1 DEF Counted, Budget
        <5> QED BY <5>1, <5>2
      <4>2. Seen(p)'
        BY <3>1, <3>2, <3>3 DEF Seen
      <4>3. tries[p] <= (prev + 1) + faults /\ tries[p] <= (prev + 1) + 1 + faults
        BY <2>1, <3>2, <4>1
      <4> HIDE DEF prev
      <4> QED BY <2>1, <3>1, <3>2, <4>2, <4>3 DEF Budget
    <3>4. CASE file.mtime # mtime[p]
      <4>1. ~Seen(p)'
        BY <3>1, <3>2, <3>4 DEF Seen
      <4>2. tries[p] = 0
        BY <2>1, <2>3, <3>4 DEF Open, Working
      <4>3. 0 <= faults /\ 0 <= 1 + faults
        BY <2>1
      <4> QED BY <2>1, <3>2, <4>1, <4>2, <4>3 DEF Budget
    <3> QED BY <3>3, <3>4
  <2>4. Open'
    BY <2>1 DEF Open, Working
  <2> QED BY <2>2, <2>3, <2>4 DEF Counted
<1>10. CASE FindDuplicate \/ InsertRecord
  BY <1>10 DEF FindDuplicate, InsertRecord, Counted, Open, Working, Budget, Seen, Pending
<1>11. CASE RecordOutcome
  <2> DEFINE q == file.path
  <2>1. /\ pc \in {"stored", "duplicate"} /\ pc' = "next" /\ UNCHANGED <<tries, mtime, faults>>
        /\ q \in Path /\ Open
        /\ \E id, r : r \in {"ingested", "duplicate"}
                        /\ RecordLedger(q, file.mtime, file.sha, id, r, 0)
    BY <1>11, CountTypes DEF RecordOutcome, Counted, Working
  <2>2. ASSUME NEW p \in Path PROVE Budget(p)'
    <3>1. Budget(p) /\ ~Pending(p)
      BY <2>1 DEF Counted, Pending
    <3>2. CASE p = q
      <4>1. ledger'[p] # NoEntry /\ ledger'[p].result # "error" /\ ledger'[p].mtime = file.mtime
        BY <2>1, <3>2 DEF RecordLedger, NoEntry, TypeOK
      <4>2. ledger'[p].mtime = mtime[p] \/ tries[p] = 0
        BY <2>1, <3>2, <4>1 DEF Open, Working
      <4> QED BY <2>1, <3>1, <4>1, <4>2, BudgetSettled
    <3>3. CASE p # q
      <4>1. ledger'[p] = ledger[p]
        BY <2>1, <3>3 DEF RecordLedger, TypeOK
      <4>2. faults <= faults'
        BY <2>1, CountTypes
      <4> QED BY <2>1, <3>1, <4>1, <4>2, BudgetGrows
    <3> QED BY <3>2, <3>3
  <2> QED BY <2>1, <2>2 DEF Counted, Open, Working
<1>12. CASE ExtractTransient
  <2>1. /\ pc = "extract" /\ pc' = "next" /\ UNCHANGED <<tries, mtime, ledger>>
        /\ faults' = faults + 1 /\ faults <= faults'
    BY <1>12, CountTypes DEF ExtractTransient, Fault
  <2>2. ASSUME NEW p \in Path PROVE Budget(p)'
    BY <2>1, BudgetGrows DEF Counted, Pending
  <2> QED BY <2>1, <2>2 DEF Counted, Open, Working
<1>13. ASSUME NEW failed \in SUBSET uncat, Categorise(failed)
       PROVE  Counted'
  <2>1. /\ pc = "categorise" /\ pc' = "idle" /\ UNCHANGED <<tries, mtime, ledger>>
        /\ faults <= faults'
    BY <1>13, CountTypes DEF Categorise, Fault
  <2>2. ASSUME NEW p \in Path PROVE Budget(p)'
    BY <2>1, BudgetGrows DEF Counted, Pending
  <2> QED BY <2>1, <2>2 DEF Counted, Open, Working
<1>14. CASE Abort
  <2>1. pc' = "idle" /\ UNCHANGED <<tries, mtime, ledger>> /\ faults \in Nat
    BY <1>14, CountTypes DEF Abort
  <2>2. ASSUME NEW p \in Path PROVE Budget(p)'
    <3>1. CASE ~Pending(p)
      <4>1. faults <= faults'
        BY <1>14, <2>1 DEF Abort, Fault
      <4> QED BY <2>1, <3>1, <4>1, BudgetGrows DEF Counted
    <3>2. CASE Pending(p)
      <4>1. faults' = faults + 1
        BY <1>14, <3>2 DEF Abort, Fault, Pending
      <4>2. tries[p] \in Nat /\ MaxAttempts \in Nat /\ (Seen(p) => ledger[p].attempts \in Nat)
        BY CountTypes DEF Seen
      <4>3. /\ \A a \in Nat : tries[p] <= a + 1 + faults
                    => tries[p] <= a + (faults + 1) /\ tries[p] <= a + 1 + (faults + 1)
            /\ \A a \in Nat : tries[p] <= a + faults => tries[p] <= a + (faults + 1)
            /\ tries[p] <= 1 + faults => tries[p] <= faults + 1 /\ tries[p] <= 1 + (faults + 1)
        BY <2>1, <4>2
      <4>4. Seen(p)' = Seen(p) /\ tries'[p] = tries[p] /\ ledger'[p] = ledger[p]
        BY <2>1 DEF Seen
      <4> QED BY <4>1, <4>2, <4>3, <4>4 DEF Counted, Budget
    <3> QED BY <3>1, <3>2
  <2> QED BY <2>1, <2>2 DEF Counted, Open, Working
<1>15. CASE UNCHANGED vars
  BY <1>15 DEF vars, Counted, Open, Working, Budget, Seen, Pending
<1> QED
  BY <1>1, <1>2, <1>3, <1>4, <1>5, <1>6, <1>7, <1>8, <1>9, <1>10, <1>11, <1>12, <1>13,
     <1>14, <1>15 DEF Next, ScanStep

\* Of one version of a file at most MaxAttempts extractions fail, and one more for
\* each scan that was cut short before it had written the failure down
\* (scan.py:76-77, 130-132).
THEOREM RetriesAreBounded == Spec => []RetriesBounded
<1>1. Init => Counted
  <2>1. ASSUME Init, NEW p \in Path PROVE Budget(p)
    <3>1. tries[p] = 0 /\ ledger[p] = NoEntry /\ faults = 0
      BY <2>1 DEF Init
    <3> QED BY <3>1 DEF Budget, Seen
  <2> QED BY <2>1 DEF Init, Counted, Open, Working
<1>2. (TypeOK /\ HandShape) /\ (TypeOK /\ HandShape)' /\ Counted /\ [Next]_vars => Counted'
  BY CountedStep
<1>3. TypeOK /\ HandShape /\ Counted => RetriesBounded
  <2> SUFFICES ASSUME TypeOK, HandShape, Counted, NEW p \in Path
               PROVE  tries[p] <= MaxAttempts + faults
    BY DEF RetriesBounded
  <2>1. MaxAttempts \in Nat /\ MaxAttempts >= 1 /\ faults \in Nat /\ tries[p] \in Nat
    BY CountTypes
  <2>2. CASE Seen(p) /\ ledger[p].result = "error"
    <3>1. ledger[p].attempts \in 0..MaxAttempts
      BY <2>2, CountTypes DEF Seen
    <3>2. CASE Pending(p)
      <4>1. ledger[p].attempts < MaxAttempts
        BY <2>2, <3>2 DEF HandShape, Pending, Seen
      <4>2. tries[p] <= ledger[p].attempts + 1 + faults
        BY <2>2 DEF Counted, Budget
      <4> QED BY <2>1, <3>1, <4>1, <4>2
    <3>3. CASE ~Pending(p)
      <4>1. tries[p] <= ledger[p].attempts + faults
        BY <2>2, <3>3 DEF Counted, Budget
      <4> QED BY <2>1, <3>1, <4>1
    <3> QED BY <3>2, <3>3
  <2>3. CASE Seen(p) /\ ledger[p].result # "error"
    BY <2>3 DEF Counted, Budget
  <2>4. CASE ~Seen(p)
    <3>1. tries[p] <= 1 + faults
      BY <2>4 DEF Counted, Budget
    <3> QED BY <2>1, <3>1
  <2> QED BY <2>2, <2>3, <2>4
<1> QED
  BY <1>1, <1>2, <1>3, TypeInvariant, PTL DEF Spec


-----------------------------------------------------------------------------
(* What is ledgered is stored *)

Ledgered(p) == ledger[p].result = "ingested" /\ ledger[p].mtime = mtime[p]

\* Row i stands for document d of file p, inserted under id, or took its place.
StandsFor(i, p, id, d) ==
    /\ i.filename = NameOf[p] /\ i.supplier = SupplierOf(p, d)
    /\ \/ i.id = id /\ i.doc = d /\ i.path = p
       \/ i.id > id /\ i.path # p /\ HintOf[i.path] = NoHint

StoredFor(p) == \E i \in invoices : StandsFor(i, p, ledger[p].invoice_id, ledger[p].sha)

\* The file in hand is no newer than the one on disk and no older than its ledger
\* row; what was hashed is what is extracted and stored, unless it was rewritten.
\* No invoice has the name of a file that is extracted from a supplier folder, and
\* the ids of the ledger have been given out.
Honest ==
    /\ \A p \in Path : ledger[p] # NoEntry => ledger[p].mtime <= mtime[p]
    /\ \A p \in Path : Ledgered(p) => StoredFor(p)
    /\ Working =>
         /\ file.mtime <= mtime[file.path]
         /\ ledger[file.path] # NoEntry => ledger[file.path].mtime <= file.mtime
         /\ ledger[file.path].result = "ingested" => ledger[file.path].mtime # file.mtime
    /\ pc = "extract" /\ file.mtime = mtime[file.path] => disk[file.path] \in {file.sha, NoFile}
    /\ pc \in {"store", "stored", "duplicate"} /\ file.mtime = mtime[file.path]
         => file.doc = file.sha
    /\ pc = "stored" =>
         \E i \in invoices : StandsFor(i, file.path, nextId - 1, file.doc)
    /\ pc \in {"extract", "store"} => ~NamePresent(file.path)
    /\ \A p \in Path : ledger[p].invoice_id < nextId

LEMMA HonestStep ==
  ASSUME TypeOK, HandShape, Honest, [Next]_vars
  PROVE  Honest'
<1> USE DEF store
<1>0. /\ Working => file.path \in Path /\ file.mtime \in Nat
      /\ \A p \in Path : mtime[p] \in Nat
      /\ \A p \in Path : ledger[p] # NoEntry => ledger[p].mtime \in Nat
  BY DEF TypeOK, HandShape, Working, InHand, Entry
<1>n. /\ nextId \in Nat /\ nextId # 0
      /\ \A p \in Path : ledger[p].invoice_id \in Nat
  BY DEF TypeOK, HandShape, Entry, NoEntry
<1>1. ASSUME NEW q \in Path, NEW d \in Doc, WriteFile(q, d)
      PROVE  Honest'
  <2>1. /\ mtime' = [mtime EXCEPT ![q] = @ + 1] /\ disk' = [disk EXCEPT ![q] = d]
        /\ UNCHANGED <<ledger, invoices, nextId, file, pc>>
    BY <1>1 DEF WriteFile
  <2>2. /\ mtime'[q] = mtime[q] + 1
        /\ \A p \in Path \ {q} : mtime'[p] = mtime[p] /\ disk'[p] = disk[p]
    BY <2>1 DEF TypeOK
  <2>3. \A n, m \in Nat : n <= m => n <= m + 1 /\ n # m + 1
    OBVIOUS
  <2>4. \A p \in Path : (ledger[p] # NoEntry => ledger[p].mtime <= mtime[p]) /\ ~(p = q /\ Ledgered(p)')
    <3> SUFFICES ASSUME NEW p \in Path, p = q, Ledgered(p)' PROVE FALSE
      BY DEF Honest
    <3>1. ledger[p] # NoEntry /\ ledger[p].mtime = mtime[p] + 1
      BY <2>1, <2>2 DEF Ledgered, NoEntry
    <3> QED BY <1>0, <2>3, <3>1 DEF Honest
  <2>5. (\A p \in Path : ledger[p] # NoEntry => ledger[p].mtime <= mtime[p])'
    <3> SUFFICES ASSUME NEW p \in Path, ledger[p] # NoEntry PROVE ledger[p].mtime <= mtime'[p]
      BY <2>1
    <3> QED BY <1>0, <2>2, <2>3, <2>4
  <2>6. (\A p \in Path : Ledgered(p) => StoredFor(p))'
    BY <2>1, <2>2, <2>4 DEF Honest, Ledgered, StoredFor, NamePresent
  <2>7. Working => file.mtime <= mtime'[file.path]
                   /\ (file.path = q => file.mtime # mtime'[file.path])
    <3> SUFFICES ASSUME Working
                 PROVE  file.mtime <= mtime'[file.path]
                        /\ (file.path = q => file.mtime # mtime'[file.path])
      OBVIOUS
    <3>1. file.mtime <= mtime[file.path]
      BY DEF Honest
    <3> QED BY <1>0, <2>2, <2>3, <3>1
  <2> QED BY <1>0, <2>1, <2>2, <2>5, <2>6, <2>7 DEF Honest, Working, NamePresent
<1>2. ASSUME NEW q \in Path, DeleteFile(q)
      PROVE  Honest'
  BY <1>0, <1>2 DEF DeleteFile, Honest, Working, Ledgered, StoredFor, NamePresent, TypeOK
<1>3. CASE StartScan \/ EndScan
  BY <1>3 DEF StartScan, EndScan, Honest, Working, Ledgered, StoredFor, NamePresent
<1>4. ASSUME NEW q \in Path, SkipFile(q) \/ FileVanished(q)
      PROVE  Honest'
  BY <1>4 DEF SkipFile, FileVanished, Honest, Working, Ledgered, StoredFor, NamePresent
<1>5. ASSUME NEW q \in Path, DropDuplicate(q)
      PROVE  Honest'
  <2>1. /\ pc = "next" /\ UNCHANGED <<mtime, disk, invoices, nextId, file, pc>>
        /\ RecordLedger(q, mtime[q], disk[q], 0, "duplicate", 0)
    BY <1>5 DEF DropDuplicate
  <2>2. /\ ledger'[q].mtime = mtime[q] /\ ledger'[q].result = "duplicate"
        /\ ledger'[q].invoice_id = 0 /\ 0 < nextId
        /\ \A p \in Path \ {q} : ledger'[p] = ledger[p]
    BY <1>n, <2>1 DEF RecordLedger, TypeOK
  <2>3. mtime[q] <= mtime[q]
    BY <1>0
  <2> QED BY <2>1, <2>2, <2>3 DEF Honest, Working, Ledgered, StoredFor, NamePresent
<1>6. ASSUME NEW q \in Path, ProcessFile(q)
      PROVE  Honest'
  <2>1. /\ pc = "next" /\ pc' = "extract" /\ ~Handled(q) /\ ~NamePresent(q)
        /\ file'.path = q /\ file'.mtime = mtime[q] /\ file'.sha = disk[q]
        /\ UNCHANGED <<mtime, disk, ledger, invoices, nextId>>
    BY <1>6 DEF ProcessFile
  <2>2. mtime[q] <= mtime[q]
    BY <1>0
  <2>3. ledger[q].result = "ingested" => ledger[q].mtime # mtime[q]
    BY <2>1 DEF Handled, NoEntry
  <2> QED BY <2>1, <2>2, <2>3 DEF Honest, Working, Ledgered, StoredFor, NamePresent
<1>7. CASE ExtractOk
  <2>1. /\ file'.path = file.path /\ file'.mtime = file.mtime /\ file'.sha = file.sha
        /\ file'.doc = disk[file.path] /\ disk[file.path] \in Doc
        /\ pc = "extract" /\ pc' = "store"
        /\ UNCHANGED <<mtime, disk, ledger, invoices, nextId>>
    BY <1>7 DEF ExtractOk, HandShape, InHand
  <2>2. NoFile \notin Doc
    BY IngestAssumption
  <2> QED BY <2>1, <2>2 DEF Honest, Working, Ledgered, StoredFor, NamePresent
<1>8. CASE ExtractFails \/ ExtractTransient
  BY <1>8 DEF ExtractFails, ExtractTransient, Honest, Working, Ledgered, StoredFor, NamePresent
<1>9. CASE RecordError
  <2>1. /\ pc = "failed" /\ pc' = "next" /\ UNCHANGED <<mtime, disk, invoices, nextId>>
        /\ \E a : RecordLedger(file.path, file.mtime, file.sha, 0, "error", a)
    BY <1>9 DEF RecordError
  <2>2. /\ file.path \in Path /\ file.mtime <= mtime[file.path]
        /\ ledger'[file.path].mtime = file.mtime /\ ledger'[file.path].result = "error"
        /\ ledger'[file.path].invoice_id = 0 /\ 0 < nextId
        /\ \A p \in Path \ {file.path} : ledger'[p] = ledger[p]
    BY <1>0, <1>n, <2>1 DEF RecordLedger, TypeOK, Honest, Working
  <2> QED BY <2>1, <2>2 DEF Honest, Working, Ledgered, StoredFor, NamePresent
<1>10. CASE FindDuplicate
  BY <1>10 DEF FindDuplicate, Honest, Working, Ledgered, StoredFor, NamePresent
<1>11. CASE InsertRecord
  <2> DEFINE s == SupplierOf(file.path, file.doc)
             f == NameOf[file.path]
             old == {i \in invoices : i.supplier = s /\ i.filename = f}
             row == [id |-> nextId, supplier |-> s, filename |-> f, path |-> file.path,
                     number |-> NumberOf[file.doc], doc |-> file.doc]
  <2>1. /\ pc = "store" /\ pc' = "stored" /\ nextId' = nextId + 1
        /\ invoices' = (invoices \ old) \cup {row}
        /\ UNCHANGED <<mtime, disk, ledger, file>>
    BY <1>11 DEF InsertRecord
  <2>2. /\ row.id = nextId /\ row.doc = file.doc /\ row.path = file.path
        /\ row.filename = f /\ row.supplier = s
    OBVIOUS
  <2>3. \A i \in old : i \in invoices /\ i.filename = f /\ i.supplier = s
    OBVIOUS
  <2> HIDE DEF old, row
  <2>4. ASSUME NEW p \in Path, Ledgered(p) PROVE StoredFor(p)'
    <3>1. PICK i \in invoices : StandsFor(i, p, ledger[p].invoice_id, ledger[p].sha)
      BY <2>4 DEF Honest, StoredFor
    <3>2. p # file.path
      <4> SUFFICES ASSUME p = file.path PROVE FALSE
        OBVIOUS
      <4>1. ledger[p] # NoEntry
        BY <2>4 DEF Ledgered, NoEntry
      <4>2. ledger[p].mtime <= file.mtime /\ file.mtime <= mtime[p] /\ ledger[p].mtime # file.mtime
              /\ ledger[p].mtime = mtime[p]
        BY <2>1, <2>4, <4>1 DEF Honest, Working, Ledgered
      <4>3. ledger[p].mtime \in Nat /\ file.mtime \in Nat /\ mtime[p] \in Nat
        BY <1>0, <2>1, <4>1 DEF Working
      <4> QED BY <4>2, <4>3
    <3>3. CASE i \notin old
      BY <2>1, <3>1, <3>3 DEF StoredFor
    <3>4. CASE i \in old
      <4>1. HintOf[file.path] = NoHint
        BY <2>1, <2>3, <3>4 DEF Honest, NamePresent, SupplierOf
      <4>2. nextId > ledger[p].invoice_id
        BY <1>n DEF Honest
      <4>3. StandsFor(row, p, ledger[p].invoice_id, ledger[p].sha)
        BY <2>2, <2>3, <3>1, <3>2, <3>4, <4>1, <4>2 DEF StandsFor
      <4> QED BY <2>1, <4>3 DEF StoredFor
    <3> QED BY <3>3, <3>4
  <2>5. (\A p \in Path : Ledgered(p) => StoredFor(p))'
    BY <2>1, <2>4 DEF Ledgered
  <2>6. StandsFor(row, file.path, nextId' - 1, file.doc)
    <3>1. nextId' - 1 = nextId
      BY <1>n, <2>1
    <3> QED BY <2>2, <3>1 DEF StandsFor
  <2>7. \E i \in invoices' : StandsFor(i, file'.path, nextId' - 1, file'.doc)
    BY <2>1, <2>6
  <2>8. \A p \in Path : ledger[p].invoice_id < nextId'
    <3>1. \A n, m \in Nat : n < m => n < m + 1
      OBVIOUS
    <3> QED BY <1>n, <2>1, <3>1 DEF Honest
  <2> QED BY <2>1, <2>5, <2>7, <2>8 DEF Honest, Working
<1>12. CASE RecordOutcome
  <2>1. /\ pc \in {"stored", "duplicate"} /\ pc' = "next"
        /\ UNCHANGED <<mtime, disk, invoices, nextId>>
        /\ \/ /\ pc = "stored"
              /\ RecordLedger(file.path, file.mtime, file.sha, nextId - 1, "ingested", 0)
           \/ RecordLedger(file.path, file.mtime, file.sha, 0, "duplicate", 0)
    BY <1>12 DEF RecordOutcome
  <2>2. /\ file.path \in Path /\ file.mtime <= mtime[file.path]
        /\ ledger'[file.path].mtime = file.mtime
        /\ \A p \in Path \ {file.path} : ledger'[p] = ledger[p]
    BY <1>0, <2>1 DEF RecordLedger, TypeOK, Honest, Working
  <2> DEFINE q == file.path
  <2>3. ASSUME ledger'[q].result = "ingested", file.mtime = mtime[q]
        PROVE  \E i \in invoices : StandsFor(i, q, ledger'[q].invoice_id, ledger'[q].sha)
    <3>1. /\ pc = "stored" /\ ledger'[q].invoice_id = nextId - 1 /\ ledger'[q].sha = file.sha
      BY <2>1, <2>2, <2>3 DEF RecordLedger, TypeOK
    <3>2. file.doc = file.sha
      BY <2>3, <3>1 DEF Honest
    <3> QED BY <3>1, <3>2 DEF Honest
  <2>4. ASSUME NEW p \in Path, ledger'[p].result = "ingested", ledger'[p].mtime = mtime[p]
        PROVE  \E i \in invoices : StandsFor(i, p, ledger'[p].invoice_id, ledger'[p].sha)
    <3>1. CASE p = q
      BY <2>2, <2>3, <2>4, <3>1
    <3>2. CASE p # q
      BY <2>2, <2>4, <3>2 DEF Honest, Ledgered, StoredFor
    <3> QED BY <3>1, <3>2
  <2>5. \A p \in Path : ledger'[p] # NoEntry => ledger'[p].mtime <= mtime[p]
    BY <2>2 DEF Honest
  <2>6. (\A p \in Path : Ledgered(p) => StoredFor(p))'
    BY <2>1, <2>4 DEF Ledgered, StoredFor
  <2>7. \A p \in Path : ledger'[p].invoice_id < nextId
    <3>1. ledger'[q].invoice_id \in {nextId - 1, 0}
      BY <2>1, <2>2 DEF RecordLedger, TypeOK
    <3>2. nextId - 1 < nextId /\ 0 < nextId
      BY <1>n
    <3> QED BY <2>2, <3>1, <3>2 DEF Honest
  <2> QED BY <2>1, <2>5, <2>6, <2>7 DEF Honest, Working
<1>13. ASSUME NEW failed \in SUBSET uncat, Categorise(failed)
       PROVE  Honest'
  BY <1>13 DEF Categorise, Honest, Working, Ledgered, StoredFor, NamePresent
<1>14. CASE Abort
  BY <1>14 DEF Abort, Honest, Working, Ledgered, StoredFor, NamePresent
<1>15. CASE UNCHANGED vars
  BY <1>15 DEF vars, Honest, Working, Ledgered, StoredFor, NamePresent
<1> QED
  BY <1>1, <1>2, <1>3, <1>4, <1>5, <1>6, <1>7, <1>8, <1>9, <1>10, <1>11, <1>12, <1>13,
     <1>14, <1>15 DEF Next, ScanStep

\* What the ledger calls ingested is in `invoices` under the id it names, through
\* retries, crashes between the two commits and re-runs, or was replaced by the row
\* of a drop-box file of the same name and supplier, which nothing but such a file
\* does (scan.py:92-114, db/invoices.py:42).
THEOREM IngestedIsStored == Spec => []IngestedStored
<1>1. Init => Honest
  BY DEF Init, Honest, Working, Ledgered, NoEntry
<1>2. (TypeOK /\ HandShape) /\ Honest /\ [Next]_vars => Honest'
  BY HonestStep
<1>3. Honest => IngestedStored
  BY DEF Honest, IngestedStored, Ledgered, StoredFor, StandsFor
<1> QED
  BY <1>1, <1>2, <1>3, TypeInvariant, PTL DEF Spec

=============================================================================
