----------------------------- MODULE Migrations -----------------------------
(***************************************************************************)
(* Schema migrations (epiproc/db/pool.py, run_migrations; docker/start.sh, *)
(* web/app.py).  Every container start runs them, and its web process runs *)
(* them again; containers of several versions may start on one database.   *)
(*                                                                         *)
(* A version of the image ships the files 1..v, in sorted order.  One file *)
(* is one transaction: its SQL and its row in schema_migrations.  A runner *)
(* may die at any point, and a file may fail partway.                      *)
(***************************************************************************)
EXTENDS Naturals, Sequences

CONSTANTS
    Runner,     \* processes that call run_migrations
    Version,    \* image versions in use: v ships the files 1..v
    NoRunner,
    MaxFaults   \* bound: crashes and failing files

ASSUME MigrationsAssumption ==
    /\ Version \subseteq Nat
    /\ NoRunner \notin Runner
    /\ MaxFaults \in Nat

VARIABLES
    schema,    \* the files whose SQL is committed, in commit order
    recorded,  \* schema_migrations
    lock,      \* holder of the advisory lock
    pc,        \* where each runner is
    version,   \* the image each runner started from
    todo,      \* the files a runner has still to apply
    txn,       \* the file each runner has executed and not committed; 0 if none
    faults     \* faults injected so far

vars == <<schema, recorded, lock, pc, version, todo, txn, faults>>

PC == {"down", "lock", "read", "apply", "record", "fail", "up"}

TypeOK ==
    /\ schema \in Seq(Nat)
    /\ recorded \in SUBSET Nat
    /\ lock \in Runner \cup {NoRunner}
    /\ pc \in [Runner -> PC]
    /\ version \in [Runner -> Nat]
    /\ todo \in [Runner -> SUBSET Nat]
    /\ txn \in [Runner -> Nat]
    /\ faults \in 0..MaxFaults
    /\ \A r \in Runner : txn[r] # 0 <=> pc[r] = "record"

Init ==
    /\ schema = <<>>
    /\ recorded = {}
    /\ lock = NoRunner
    /\ pc = [r \in Runner |-> "down"]
    /\ version = [r \in Runner |-> 0]
    /\ todo = [r \in Runner |-> {}]
    /\ txn = [r \in Runner |-> 0]
    /\ faults = 0

-----------------------------------------------------------------------------
Fault == faults < MaxFaults /\ faults' = faults + 1

Goto(r, label) == pc' = [pc EXCEPT ![r] = label]

\* The loop goes over the files in sorted order.
First(r, f) == f \in todo[r] /\ \A g \in todo[r] : f <= g

Start(r) ==
    /\ pc[r] = "down"
    /\ \E v \in Version : version' = [version EXCEPT ![r] = v]
    /\ Goto(r, "lock")
    /\ UNCHANGED <<schema, recorded, lock, todo, txn, faults>>

\* Mutant of AcquireLock: the lock is not awaited.
AcquireUnguarded(r) ==
    /\ pc[r] = "lock"
    /\ lock' = r
    /\ Goto(r, "read")
    /\ UNCHANGED <<schema, recorded, version, todo, txn, faults>>

AcquireLock(r) ==
    /\ pc[r] = "lock"
    /\ lock = NoRunner
    /\ lock' = r
    /\ Goto(r, "read")
    /\ UNCHANGED <<schema, recorded, version, todo, txn, faults>>

\* CREATE TABLE IF NOT EXISTS, then the set of files already done.
ReadDone(r) ==
    /\ pc[r] = "read"
    /\ todo' = [todo EXCEPT ![r] = 1..version[r] \ recorded]
    /\ Goto(r, "apply")
    /\ UNCHANGED <<schema, recorded, lock, version, txn, faults>>

\* Mutant of RunFile: the files are not sorted.
RunFileUnsorted(r) ==
    /\ pc[r] = "apply"
    /\ \E f \in todo[r] : txn' = [txn EXCEPT ![r] = f]
    /\ Goto(r, "record")
    /\ UNCHANGED <<schema, recorded, lock, version, todo, faults>>

\* The SQL of a file, inside the transaction.
RunFile(r) ==
    /\ pc[r] = "apply"
    /\ \E f \in todo[r] : First(r, f) /\ txn' = [txn EXCEPT ![r] = f]
    /\ Goto(r, "record")
    /\ UNCHANGED <<schema, recorded, lock, version, todo, faults>>

\* Mutant of CommitFile: the row of the file is inserted in a transaction of its
\* own, here lost.
CommitUnrecorded(r) ==
    /\ pc[r] = "record"
    /\ txn[r] \notin recorded
    /\ schema' = Append(schema, txn[r])
    /\ todo' = [todo EXCEPT ![r] = @ \ {txn[r]}]
    /\ txn' = [txn EXCEPT ![r] = 0]
    /\ Goto(r, "apply")
    /\ UNCHANGED <<recorded, lock, version, faults>>

\* The INSERT into schema_migrations and the commit: both take effect at once.
CommitFile(r) ==
    /\ pc[r] = "record"
    /\ txn[r] \notin recorded
    /\ schema' = Append(schema, txn[r])
    /\ recorded' = recorded \cup {txn[r]}
    /\ todo' = [todo EXCEPT ![r] = @ \ {txn[r]}]
    /\ txn' = [txn EXCEPT ![r] = 0]
    /\ Goto(r, "apply")
    /\ UNCHANGED <<lock, version, faults>>

\* The file, or its INSERT, raises: the transaction rolls back.
FileFails(r) ==
    /\ pc[r] = "record"
    /\ IF txn[r] \in recorded THEN UNCHANGED faults ELSE Fault
    /\ txn' = [txn EXCEPT ![r] = 0]
    /\ Goto(r, "fail")
    /\ UNCHANGED <<schema, recorded, lock, version, todo>>

\* Mutant of Unlock: a failure is swallowed.
UnlockSwallows(r) ==
    /\ \/ pc[r] = "apply" /\ todo[r] = {}
       \/ pc[r] = "fail"
    /\ Goto(r, "up")
    /\ lock' = NoRunner
    /\ UNCHANGED <<schema, recorded, version, todo, txn, faults>>

\* Mutant of Unlock: only a runner that succeeds unlocks, and its session lasts.
UnlockOnSuccess(r) ==
    /\ \/ pc[r] = "apply" /\ todo[r] = {} /\ Goto(r, "up") /\ lock' = NoRunner
       \/ pc[r] = "fail" /\ Goto(r, "down") /\ UNCHANGED lock
    /\ UNCHANGED <<schema, recorded, version, todo, txn, faults>>

\* finally: unlock.  A runner that raised does not come up (set -e, lifespan).
Unlock(r) ==
    /\ \/ pc[r] = "apply" /\ todo[r] = {} /\ Goto(r, "up")
       \/ pc[r] = "fail" /\ Goto(r, "down")
    /\ lock' = NoRunner
    /\ UNCHANGED <<schema, recorded, version, todo, txn, faults>>

\* The runner dies.  The server ends its session: the transaction rolls back
\* and the lock, if it held it, is released.
Crash(r) ==
    /\ pc[r] # "down"
    /\ Fault
    /\ lock' = IF lock = r THEN NoRunner ELSE lock
    /\ txn' = [txn EXCEPT ![r] = 0]
    /\ Goto(r, "down")
    /\ UNCHANGED <<schema, recorded, version, todo>>

\* A container that is up, or waits for the lock, is stopped, to be started
\* again, perhaps upgraded.
Stop(r) ==
    /\ pc[r] \in {"up", "lock"}
    /\ Goto(r, "down")
    /\ UNCHANGED <<schema, recorded, lock, version, todo, txn, faults>>

-----------------------------------------------------------------------------
Step(r) == ReadDone(r) \/ RunFile(r) \/ CommitFile(r) \/ FileFails(r) \/ Unlock(r)

Next == \E r \in Runner : Start(r) \/ AcquireLock(r) \/ Step(r) \/ Crash(r) \/ Stop(r)

Spec == Init /\ [][Next]_vars

\* Runners take their steps; the server queues those that wait for the lock.
FairSpec == Spec /\ \A r \in Runner : WF_vars(Step(r)) /\ SF_vars(AcquireLock(r))
-----------------------------------------------------------------------------
(* Properties *)

\* "Guarded by an advisory lock so concurrent container starts don't race"
\* (pool.py:44): the lock is held exactly while a runner reads, applies and fails.
OneRunner ==
    \A r \in Runner : pc[r] \in {"read", "apply", "record", "fail"} <=> lock = r

\* "Apply every migrations/*.sql once" (pool.py:43), in order, whatever runners
\* start together, die or fail: a file is never run on a schema that misses an
\* earlier one, nor run twice.
AppliedInOrder == \A i \in 1..Len(schema) : schema[i] = i

\* "a file that fails partway rolls back entirely rather than leaving partial
\* changes applied and unrecorded" (pool.py:58-60).
RecordedIsApplied == recorded = {schema[i] : i \in 1..Len(schema)}

\* "run migrations ONCE up front (before web+worker start, so the worker can't
\* race the schema)" (start.sh:2-3): what is up has the whole schema it ships.
UpIsMigrated == \A r \in Runner : pc[r] = "up" => 1..version[r] \subseteq recorded

\* A start does not hang: it comes up, or it is down to be restarted, even when
\* the runner that held the lock died.
EveryStartEnds == \A r \in Runner : pc[r] = "lock" ~> pc[r] \in {"up", "down"}
=============================================================================
