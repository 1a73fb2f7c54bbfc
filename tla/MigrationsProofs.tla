-------------------------- MODULE MigrationsProofs --------------------------
(***************************************************************************)
(* Theorems about Migrations, for every number of runners, every set of    *)
(* image versions and every number of crashes and failing files.           *)
(***************************************************************************)
EXTENDS Migrations, TLAPS

\* What a runner that holds the lock knows: nobody else changes the schema, so
\* the files it has left are the ones after the last applied, and the one it
\* runs is the next.
HolderKnows ==
    \A r \in Runner :
        /\ pc[r] \in {"apply", "record"} => todo[r] = (Len(schema) + 1)..version[r]
        /\ pc[r] = "record" => txn[r] = Len(schema) + 1 /\ txn[r] <= version[r]

\* schema_migrations holds the first files and no other.
RecordedPrefix == recorded = 1..Len(schema)

Inv == TypeOK /\ OneRunner /\ AppliedInOrder /\ RecordedPrefix /\ HolderKnows /\ UpIsMigrated

LEMMA InvInit == Init => Inv
BY MigrationsAssumption
   DEF Init, Inv, TypeOK, PC, OneRunner, AppliedInOrder, RecordedPrefix, HolderKnows, UpIsMigrated

LEMMA InvStep ==
  ASSUME Inv, [Next]_vars
  PROVE  Inv'
<1> USE MigrationsAssumption DEF Goto, Fault
<1>1. ASSUME NEW r \in Runner, Start(r)
      PROVE  Inv'
  <2>1. PICK v \in Version : version' = [version EXCEPT ![r] = v]
    BY <1>1 DEF Start
  <2>2. v \in Nat
    BY MigrationsAssumption
  <2>3. QED
    BY <1>1, <2>1, <2>2
       DEF Start, Inv, TypeOK, PC, OneRunner, AppliedInOrder, RecordedPrefix, HolderKnows, UpIsMigrated
<1>2. ASSUME NEW r \in Runner, AcquireLock(r)
      PROVE  Inv'
  BY <1>2 DEF AcquireLock, Inv, TypeOK, PC, OneRunner, AppliedInOrder, RecordedPrefix,
              HolderKnows, UpIsMigrated
<1>3. ASSUME NEW r \in Runner, ReadDone(r)
      PROVE  Inv'
  <2>1. todo'[r] = (Len(schema) + 1)..version[r] /\ todo' \in [Runner -> SUBSET Nat]
    BY <1>3 DEF ReadDone, Inv, TypeOK, RecordedPrefix
  <2>2. QED
    BY <1>3, <2>1 DEF ReadDone, Inv, TypeOK, PC, OneRunner, AppliedInOrder, RecordedPrefix,
                      HolderKnows, UpIsMigrated
<1>4. ASSUME NEW r \in Runner, RunFile(r)
      PROVE  Inv'
  <2>1. PICK f \in todo[r] : First(r, f) /\ txn' = [txn EXCEPT ![r] = f]
    BY <1>4 DEF RunFile
  <2>2. todo[r] = (Len(schema) + 1)..version[r] /\ Len(schema) \in Nat /\ version[r] \in Nat
    BY <1>4 DEF RunFile, Inv, TypeOK, HolderKnows
  <2>3. f = Len(schema) + 1 /\ f <= version[r] /\ f \in Nat
    BY <2>1, <2>2 DEF First
  <2>4. QED
    BY <1>4, <2>1, <2>3
       DEF RunFile, Inv, TypeOK, PC, OneRunner, AppliedInOrder, RecordedPrefix, HolderKnows, UpIsMigrated
<1>5. ASSUME NEW r \in Runner, CommitFile(r)
      PROVE  Inv'
  <2> DEFINE n == Len(schema)
  <2>1. /\ n \in Nat /\ txn[r] = n + 1 /\ txn[r] \in Nat
        /\ todo[r] = (n + 1)..version[r] /\ version[r] \in Nat
    BY <1>5 DEF CommitFile, Inv, TypeOK, HolderKnows
  <2>2. /\ schema' \in Seq(Nat) /\ Len(schema') = n + 1
        /\ \A i \in 1..n : schema'[i] = schema[i]
        /\ schema'[n + 1] = n + 1
    BY <1>5, <2>1 DEF CommitFile, Inv, TypeOK
  <2>3. AppliedInOrder'
    BY <2>1, <2>2 DEF Inv, AppliedInOrder
  <2>4. RecordedPrefix' /\ recorded' \in SUBSET Nat
    BY <1>5, <2>1, <2>2 DEF CommitFile, Inv, RecordedPrefix
  <2>5. todo'[r] = (n + 2)..version[r] /\ todo' \in [Runner -> SUBSET Nat]
    BY <1>5, <2>1 DEF CommitFile, Inv, TypeOK
  <2>6. HolderKnows'
    <3>1. ASSUME NEW q \in Runner, q # r
          PROVE  pc'[q] \notin {"apply", "record"}
      BY <1>5, <3>1 DEF CommitFile, Inv, TypeOK, OneRunner
    <3>2. pc'[r] = "apply" /\ version' = version
      BY <1>5 DEF CommitFile, Inv, TypeOK
    <3>3. ASSUME NEW q \in Runner
          PROVE  /\ pc'[q] \in {"apply", "record"} => todo'[q] = (Len(schema') + 1)..version'[q]
                 /\ pc'[q] # "record"
      <4>1. CASE q = r
        BY <2>1, <2>2, <2>5, <3>2, <4>1
      <4>2. CASE q # r
        BY <3>1, <4>2
      <4>3. QED
        BY <4>1, <4>2
    <3>4. QED
      BY <3>3 DEF HolderKnows
  <2>7. OneRunner' /\ UpIsMigrated'
    BY <1>5 DEF CommitFile, Inv, TypeOK, PC, OneRunner, UpIsMigrated
  <2>8. TypeOK'
    <3>1. pc' \in [Runner -> PC] /\ txn' \in [Runner -> Nat]
      BY <1>5 DEF CommitFile, Inv, TypeOK, PC
    <3>2. \A q \in Runner : txn'[q] # 0 <=> pc'[q] = "record"
      BY <1>5 DEF CommitFile, Inv, TypeOK
    <3>3. UNCHANGED <<lock, version, faults>>
      BY <1>5 DEF CommitFile
    <3>4. QED
      BY <2>2, <2>4, <2>5, <3>1, <3>2, <3>3 DEF Inv, TypeOK
  <2>9. QED
    BY <2>3, <2>4, <2>6, <2>7, <2>8 DEF Inv
<1>6. ASSUME NEW r \in Runner, FileFails(r)
      PROVE  Inv'
  BY <1>6 DEF FileFails, Inv, TypeOK, PC, OneRunner, AppliedInOrder, RecordedPrefix,
              HolderKnows, UpIsMigrated
<1>7. ASSUME NEW r \in Runner, Unlock(r)
      PROVE  Inv'
  <2>1. UNCHANGED <<schema, recorded, version, todo, txn, faults>> /\ lock' = NoRunner
    BY <1>7 DEF Unlock
  <2>2. CASE pc[r] = "apply"
    <3>1. todo[r] = {} /\ pc' = [pc EXCEPT ![r] = "up"]
      BY <1>7, <2>2 DEF Unlock
    <3>2. Len(schema) \in Nat /\ version[r] \in Nat /\ todo[r] = (Len(schema) + 1)..version[r]
      BY <2>2 DEF Inv, TypeOK, HolderKnows
    <3>3. ~(Len(schema) + 1 <= version[r])
      <4> SUFFICES ASSUME Len(schema) + 1 <= version[r] PROVE FALSE
        OBVIOUS
      <4>1. Len(schema) + 1 \in (Len(schema) + 1)..version[r]
        BY <3>2
      <4>2. QED
        BY <3>1, <3>2, <4>1
    <3>4. 1..version[r] \subseteq recorded
      <4>1. recorded = 1..Len(schema)
        BY DEF Inv, RecordedPrefix
      <4>2. QED
        BY <3>2, <3>3, <4>1
    <3>5. UpIsMigrated'
      BY <2>1, <3>1, <3>4 DEF Inv, TypeOK, UpIsMigrated
    <3>6. OneRunner' /\ HolderKnows' /\ TypeOK'
      BY <2>1, <2>2, <3>1 DEF Inv, TypeOK, PC, OneRunner, HolderKnows
    <3>7. QED
      BY <2>1, <3>5, <3>6 DEF Inv, AppliedInOrder, RecordedPrefix
  <2>3. CASE pc[r] = "fail"
    <3>1. pc' = [pc EXCEPT ![r] = "down"]
      BY <1>7, <2>3 DEF Unlock
    <3>2. OneRunner' /\ HolderKnows' /\ TypeOK' /\ UpIsMigrated'
      BY <2>1, <2>3, <3>1 DEF Inv, TypeOK, PC, OneRunner, HolderKnows, UpIsMigrated
    <3>3. QED
      BY <2>1, <3>2 DEF Inv, AppliedInOrder, RecordedPrefix
  <2>4. QED
    BY <1>7, <2>2, <2>3 DEF Unlock
<1>8. ASSUME NEW r \in Runner, Crash(r)
      PROVE  Inv'
  BY <1>8 DEF Crash, Inv, TypeOK, PC, OneRunner, AppliedInOrder, RecordedPrefix,
              HolderKnows, UpIsMigrated
<1>9. ASSUME NEW r \in Runner, Stop(r)
      PROVE  Inv'
  BY <1>9 DEF Stop, Inv, TypeOK, PC, OneRunner, AppliedInOrder, RecordedPrefix,
              HolderKnows, UpIsMigrated
<1>10. CASE UNCHANGED vars
  BY <1>10 DEF vars, Inv, TypeOK, OneRunner, AppliedInOrder, RecordedPrefix, HolderKnows,
               UpIsMigrated
<1>11. QED
  BY <1>1, <1>2, <1>3, <1>4, <1>5, <1>6, <1>7, <1>8, <1>9, <1>10 DEF Next, Step

LEMMA Invariant == Spec => []Inv
BY InvInit, InvStep, PTL DEF Spec

\* The locals of every runner have the types the loop needs, and a transaction
\* is open exactly while a file is run (pool.py:55-64).
THEOREM TypeCorrect == Spec => []TypeOK
BY Invariant, PTL DEF Inv

\* Mutual exclusion: concurrent container starts do not race (pool.py:44, 48, 66).
THEOREM LockExcludes == Spec => []OneRunner
BY Invariant, PTL DEF Inv

\* Whatever starts, dies or fails together, the schema is always the result of
\* the first files, each run once, in order (pool.py:43, 55).
THEOREM MigrationsInOrder == Spec => []AppliedInOrder
BY Invariant, PTL DEF Inv

\* The ledger schema_migrations tells the truth about the schema (pool.py:58-63).
THEOREM LedgerIsTrue == Spec => []RecordedIsApplied
<1>1. Inv => RecordedIsApplied
  <2> SUFFICES ASSUME Inv PROVE recorded = {schema[i] : i \in 1..Len(schema)}
    BY DEF RecordedIsApplied
  <2>1. \A i \in 1..Len(schema) : schema[i] = i
    BY DEF Inv, AppliedInOrder
  <2>2. QED
    BY <2>1 DEF Inv, RecordedPrefix
<1>2. QED
  BY <1>1, Invariant, PTL

\* A process that is up never meets a schema older than its own (start.sh:2-3).
THEOREM UpMeansMigrated == Spec => []UpIsMigrated
BY Invariant, PTL DEF Inv
=============================================================================
