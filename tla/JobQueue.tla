------------------------------ MODULE JobQueue ------------------------------
(***************************************************************************)
(* The `jobs` table and the processes that work on it: the web process,    *)
(* which inserts (and may cancel) jobs, and any number of worker           *)
(* processes, each running worker.poll().  Sources: epiproc/worker.py,     *)
(* epiproc/db/jobs.py, docker/start.sh.                                    *)
(*                                                                         *)
(* A worker's transaction is one step where nobody can observe its middle, *)
(* and two where somebody can: a claim holds the row lock between its      *)
(* SELECT ... FOR UPDATE and its UPDATE, and a requeue acts on rows it     *)
(* read earlier without a lock.  A commit whose answer is lost with the    *)
(* connection is a step of its own: it has happened, the worker does not   *)
(* know.                                                                   *)
(***************************************************************************)
EXTENDS Naturals, FiniteSets

CONSTANTS
    MaxJobs,      \* bound: jobs ever created
    Worker,       \* worker processes
    Entry,        \* the worker docker/start.sh launches; the others are started by hand
    WorkerPid,    \* pids the kernel may give to a worker
    WebPid,       \* pids the kernel may give to the web process
    NoPid,        \* SQL NULL in jobs.worker_pid; also: the process does not run
    NoJob,        \* Python's None for the job in hand
    Poison,       \* jobs whose run always raises an OperationalError
    Cancellable,  \* jobs somebody calls cancel_job for
    MaxFaults     \* bound: lost connections, crashes and job errors of class _DB_DOWN

\* A job is named by its rank in created_at order.
Job == 1..MaxJobs
Pid == WorkerPid \cup WebPid

ASSUME JobQueueAssumption ==
    /\ MaxJobs \in Nat
    /\ MaxFaults \in Nat
    /\ Entry \in Worker
    /\ NoPid \notin Pid
    /\ NoJob \notin Job
    /\ Poison \subseteq Job
    /\ Cancellable \subseteq Job

VARIABLES
    created,  \* how many jobs have been inserted
    status,   \* jobs.status
    owner,    \* jobs.worker_pid
    webpid,   \* pid of the web process
    pid,      \* pid of each worker
    pc,       \* where each worker is in poll()
    conn,     \* the connection of poll() is usable
    cur,      \* the local variable `job`
    rows,     \* the local variable `rows` of _requeue_abandoned
    ran,      \* history: jobs whose _run_job has returned normally
    faults    \* faults injected so far

table == <<created, status, owner>>
procs == <<webpid, pid>>
vars  == <<created, status, owner, webpid, pid, pc, conn, cur, rows, ran, faults>>

Status == {"absent", "queued", "running", "done", "error", "cancelled"}
Settled == {"done", "error", "cancelled"}
PC == {"down", "boot", "bootRequeue", "reconnect", "requeue", "poll", "scan",
       "claim", "run", "returned", "raised"}
Row == [id: Job, worker_pid: Pid \cup {NoPid}]

TypeOK ==
    /\ created \in 0..MaxJobs
    /\ status \in [Job -> Status]
    /\ owner \in [Job -> Pid \cup {NoPid}]
    /\ webpid \in WebPid \cup {NoPid}
    /\ pid \in [Worker -> WorkerPid \cup {NoPid}]
    /\ pc \in [Worker -> PC]
    /\ conn \in [Worker -> BOOLEAN]
    /\ cur \in [Worker -> Job \cup {NoJob}]
    /\ rows \in [Worker -> SUBSET Row]
    /\ ran \in SUBSET Job
    /\ faults \in 0..MaxFaults

Init ==
    /\ created = 0
    /\ status = [j \in Job |-> "absent"]
    /\ owner = [j \in Job |-> NoPid]
    /\ webpid = NoPid
    /\ pid = [w \in Worker |-> NoPid]
    /\ pc = [w \in Worker |-> "down"]
    /\ conn = [w \in Worker |-> FALSE]
    /\ cur = [w \in Worker |-> NoJob]
    /\ rows = [w \in Worker |-> {}]
    /\ ran = {}
    /\ faults = 0

-----------------------------------------------------------------------------
\* The row lock of SELECT ... FOR UPDATE: gone with the connection that took it.
Locked(j) == \E w \in Worker : pc[w] = "claim" /\ cur[w] = j /\ conn[w]

\* What the claim query may return: a queued row nobody has locked.
Claimable == {j \in Job : status[j] = "queued" /\ ~Locked(j)}

\* os.kill(p, 0) succeeds for any process of the container, not only for workers.
Alive(p) == p = webpid \/ \E w \in Worker : pid[w] = p

\* Mutant: the branch for the worker's own pid is missing.
AbandonedOthersOnly(w, p) == p = NoPid \/ ~Alive(p)

\* _requeue_abandoned's test, on the pid it read: dead, or this worker's own.
Abandoned(w, p) == p = NoPid \/ p = pid[w] \/ ~Alive(p)

Fault == faults < MaxFaults /\ faults' = faults + 1

\* The ids `rows` makes worker w requeue.
ToRequeue(w) == {r.id : r \in {s \in rows[w] : Abandoned(w, s.worker_pid)}}

Goto(w, label) == pc' = [pc EXCEPT ![w] = label]

-----------------------------------------------------------------------------
(* The web process: epiproc/db/jobs.py *)

CreateJob ==
    /\ created < MaxJobs
    /\ created' = created + 1
    /\ status' = [status EXCEPT ![created + 1] = "queued"]
    /\ UNCHANGED <<owner, procs, pc, conn, cur, rows, ran, faults>>

\* The UPDATE waits for a claim that holds the row lock.
CancelJob(j) ==
    /\ j \in Cancellable
    /\ status[j] \in {"queued", "running"}
    /\ ~Locked(j)
    /\ status' = [status EXCEPT ![j] = "cancelled"]
    /\ UNCHANGED <<created, owner, procs, pc, conn, cur, rows, ran, faults>>

-----------------------------------------------------------------------------
(* Processes: docker/start.sh *)

\* Memory and connections of the workers of W are gone.
Die(W) ==
    /\ pid' = [w \in Worker |-> IF w \in W THEN NoPid ELSE pid[w]]
    /\ pc' = [w \in Worker |-> IF w \in W THEN "down" ELSE pc[w]]
    /\ conn' = [w \in Worker |-> conn[w] /\ w \notin W]
    /\ cur' = [w \in Worker |-> IF w \in W THEN NoJob ELSE cur[w]]
    /\ rows' = [w \in Worker |-> IF w \in W THEN {} ELSE rows[w]]

\* `wait -n`: the end of the web process or of the entry worker takes the container down.
ContainerUp ==
    /\ webpid = NoPid
    /\ \E q \in WebPid : \E p \in WorkerPid \ {q} :
        /\ webpid' = q
        /\ pid' = [pid EXCEPT ![Entry] = p]
    /\ Goto(Entry, "boot")
    /\ UNCHANGED <<table, conn, cur, rows, ran, faults>>

ContainerDown ==
    /\ webpid # NoPid
    /\ Fault
    /\ webpid' = NoPid
    /\ Die(Worker)
    /\ UNCHANGED <<table, ran>>

ExtraUp(w) ==
    /\ w # Entry
    /\ webpid # NoPid
    /\ pc[w] = "down"
    /\ \E p \in {x \in WorkerPid : ~Alive(x)} : pid' = [pid EXCEPT ![w] = p]
    /\ Goto(w, "boot")
    /\ UNCHANGED <<table, webpid, conn, cur, rows, ran, faults>>

ExtraDown(w) ==
    /\ w # Entry
    /\ pc[w] # "down"
    /\ Fault
    /\ Die({w})
    /\ UNCHANGED <<table, webpid, ran>>

-----------------------------------------------------------------------------
(* _requeue_abandoned, called at start-up and after every reconnect *)

\* _connect(), then the SELECT of the running rows.
Connect(w) ==
    /\ pc[w] \in {"boot", "reconnect"}
    /\ conn' = [conn EXCEPT ![w] = TRUE]
    /\ rows' = [rows EXCEPT ![w] =
                  {r \in Row : status[r.id] = "running" /\ owner[r.id] = r.worker_pid}]
    /\ Goto(w, IF pc[w] = "boot" THEN "bootRequeue" ELSE "requeue")
    /\ UNCHANGED <<table, procs, cur, ran, faults>>

\* _connect() fails after a lost connection: `pass`, and the loop goes on with
\* the closed connection.
ReconnectFails(w) ==
    /\ pc[w] = "reconnect"
    /\ Goto(w, "poll")
    /\ UNCHANGED <<table, procs, conn, cur, rows, ran, faults>>

\* The UPDATEs, by id alone, and their commit.
Requeue(w) ==
    /\ pc[w] \in {"bootRequeue", "requeue"}
    /\ conn[w]
    /\ \A j \in ToRequeue(w) : ~Locked(j)
    /\ status' = [j \in Job |-> IF j \in ToRequeue(w) THEN "queued" ELSE status[j]]
    /\ owner' = [j \in Job |-> IF j \in ToRequeue(w) THEN NoPid ELSE owner[j]]
    /\ rows' = [rows EXCEPT ![w] = {}]
    /\ Goto(w, "poll")
    /\ UNCHANGED <<created, procs, conn, cur, ran, faults>>

-----------------------------------------------------------------------------
(* The loop of poll() *)

\* Mutant: ORDER BY created_at DESC.
ClaimNewest(w) ==
    /\ pc[w] = "poll" /\ conn[w]
    /\ \E j \in Claimable :
        /\ \A k \in Claimable : j >= k
        /\ cur' = [cur EXCEPT ![w] = j]
    /\ Goto(w, "claim")
    /\ UNCHANGED <<table, procs, conn, rows, ran, faults>>

ClaimSelect(w) ==
    /\ pc[w] = "poll" /\ conn[w]
    /\ \E j \in Claimable :
        /\ \A k \in Claimable : j <= k
        /\ cur' = [cur EXCEPT ![w] = j]
    /\ Goto(w, "claim")
    /\ UNCHANGED <<table, procs, conn, rows, ran, faults>>

\* Mutant: worker_pid is not recorded.
MarkRunningAnonymous(w) ==
    /\ pc[w] = "claim" /\ conn[w]
    /\ status' = [status EXCEPT ![cur[w]] = "running"]
    /\ UNCHANGED <<created, owner, procs, rows, ran>>

MarkRunning(w) ==
    /\ pc[w] = "claim" /\ conn[w]
    /\ status' = [status EXCEPT ![cur[w]] = "running"]
    /\ owner' = [owner EXCEPT ![cur[w]] = pid[w]]
    /\ UNCHANGED <<created, procs, rows, ran>>

ClaimCommit(w) ==
    /\ MarkRunning(w)
    /\ Goto(w, "run")
    /\ UNCHANGED <<conn, cur, faults>>

\* The claim is committed but the connection is lost before the answer.
ClaimCommitLost(w) ==
    /\ MarkRunning(w)
    /\ Fault
    /\ Goto(w, "reconnect")
    /\ conn' = [conn EXCEPT ![w] = FALSE]
    /\ cur' = [cur EXCEPT ![w] = NoJob]

\* No job: the folder scan, whose errors are all swallowed, then a sleep.
IdleScan(w) ==
    /\ pc[w] = "poll" /\ conn[w]
    /\ Claimable = {}
    /\ Goto(w, "scan")
    /\ UNCHANGED <<table, procs, conn, cur, rows, ran, faults>>

ScanEnd(w) ==
    /\ pc[w] = "scan"
    /\ Goto(w, "poll")
    /\ UNCHANGED <<table, procs, conn, cur, rows, ran, faults>>

\* _run_job works on connections of the pool: it does not notice that conn is lost.
RunReturns(w) ==
    /\ pc[w] = "run" /\ cur[w] \notin Poison
    /\ ran' = ran \cup {cur[w]}
    /\ Goto(w, "returned")
    /\ UNCHANGED <<table, procs, conn, cur, rows, faults>>

\* Mutant: the exception is logged and the run counts as done.
RunRaisesSwallowed(w) ==
    /\ pc[w] = "run" /\ cur[w] \notin Poison
    /\ Goto(w, "returned")
    /\ UNCHANGED <<table, procs, conn, cur, rows, ran, faults>>

RunRaises(w) ==
    /\ pc[w] = "run" /\ cur[w] \notin Poison
    /\ Goto(w, "raised")
    /\ UNCHANGED <<table, procs, conn, cur, rows, ran, faults>>

\* `except _DB_DOWN: raise`: an OperationalError of the job itself is taken for
\* a lost connection; the outer handler closes conn.
RunRaisesDbDown(w) ==
    /\ pc[w] = "run"
    /\ IF cur[w] \in Poison THEN UNCHANGED faults ELSE Fault
    /\ Goto(w, "reconnect")
    /\ conn' = [conn EXCEPT ![w] = FALSE]
    /\ cur' = [cur EXCEPT ![w] = NoJob]
    /\ UNCHANGED <<table, procs, rows, ran>>

\* Mutant: UPDATE ... WHERE id = job
MarkFinishedUnguarded(w) ==
    /\ pc[w] \in {"returned", "raised"} /\ conn[w]
    /\ ~Locked(cur[w])
    /\ status' = [status EXCEPT ![cur[w]] = IF pc[w] = "returned" THEN "done" ELSE "error"]
    /\ cur' = [cur EXCEPT ![w] = NoJob]
    /\ UNCHANGED <<created, owner, procs, rows, ran>>

\* UPDATE ... WHERE id = job AND status = 'running'
MarkFinished(w) ==
    /\ pc[w] \in {"returned", "raised"} /\ conn[w]
    /\ ~Locked(cur[w])
    /\ status' = IF status[cur[w]] = "running"
                   THEN [status EXCEPT ![cur[w]] =
                           IF pc[w] = "returned" THEN "done" ELSE "error"]
                   ELSE status
    /\ cur' = [cur EXCEPT ![w] = NoJob]
    /\ UNCHANGED <<created, owner, procs, rows, ran>>

FinishCommit(w) ==
    /\ MarkFinished(w)
    /\ Goto(w, "poll")
    /\ UNCHANGED <<conn, faults>>

FinishCommitLost(w) ==
    /\ MarkFinished(w)
    /\ Fault
    /\ Goto(w, "reconnect")
    /\ conn' = [conn EXCEPT ![w] = FALSE]

-----------------------------------------------------------------------------
(* Postgres goes away *)

ConnectionLost(w) ==
    /\ conn[w]
    /\ Fault
    /\ conn' = [conn EXCEPT ![w] = FALSE]
    /\ UNCHANGED <<table, procs, pc, cur, rows, ran>>

\* The next statement raises, and the outer handler of poll() takes over.
NoticeLost(w) ==
    /\ pc[w] \in {"poll", "claim", "returned", "raised"}
    /\ ~conn[w]
    /\ Goto(w, "reconnect")
    /\ cur' = [cur EXCEPT ![w] = NoJob]
    /\ UNCHANGED <<table, procs, conn, rows, ran, faults>>

\* The connection is lost again inside the handler's own _requeue_abandoned.
RequeueFails(w) ==
    /\ pc[w] = "requeue" /\ ~conn[w]
    /\ rows' = [rows EXCEPT ![w] = {}]
    /\ Goto(w, "poll")
    /\ UNCHANGED <<table, procs, conn, cur, ran, faults>>

\* At start-up no handler is in place yet: when _connect() fails, or the requeue
\* after it, the worker exits.
BootFails(w) ==
    /\ pc[w] \in {"boot", "bootRequeue"} /\ ~conn[w]
    /\ Die(IF w = Entry THEN Worker ELSE {w})
    /\ webpid' = IF w = Entry THEN NoPid ELSE webpid
    /\ UNCHANGED <<table, ran, faults>>

-----------------------------------------------------------------------------
WorkerStep(w) ==
    \/ Connect(w) \/ ReconnectFails(w) \/ Requeue(w)
    \/ ClaimSelect(w) \/ ClaimCommit(w) \/ ClaimCommitLost(w)
    \/ IdleScan(w) \/ ScanEnd(w)
    \/ RunReturns(w) \/ RunRaises(w) \/ RunRaisesDbDown(w)
    \/ FinishCommit(w) \/ FinishCommitLost(w)
    \/ ConnectionLost(w) \/ NoticeLost(w) \/ RequeueFails(w) \/ BootFails(w)

Next ==
    \/ CreateJob
    \/ \E j \in Job : CancelJob(j)
    \/ ContainerUp \/ ContainerDown
    \/ \E w \in Worker : ExtraUp(w) \/ ExtraDown(w) \/ WorkerStep(w)

Spec == Init /\ [][Next]_vars

\* The steps a running worker keeps taking: the loop never blocks, a job ends.
Progress(w) ==
    \/ Requeue(w) \/ ClaimSelect(w) \/ ClaimCommit(w) \/ IdleScan(w) \/ ScanEnd(w)
    \/ RunReturns(w) \/ RunRaises(w) \/ RunRaisesDbDown(w) \/ FinishCommit(w)
    \/ NoticeLost(w) \/ RequeueFails(w) \/ BootFails(w)

\* Compose restarts the container; Postgres comes back, so a connection attempt
\* that is repeated for ever succeeds.
FairSpec ==
    /\ Spec
    /\ WF_vars(ContainerUp)
    /\ \A w \in Worker : WF_vars(Progress(w)) /\ SF_vars(Connect(w))
-----------------------------------------------------------------------------
(* Properties *)

Executing(w, j) == pc[w] \in {"run", "returned", "raised"} /\ cur[w] = j

\* A worker that is about to look for work, with a usable connection, has no
\* row left 'running' under its own pid: whatever it abandoned when a
\* connection broke, a commit went unanswered, or an earlier process had the
\* same pid, has been reclaimed.  It is what keeps such a job from sitting
\* 'running' for ever, since everybody else sees the pid alive
\* (_requeue_abandoned, worker.py:54-57).
OwnJobsReclaimed ==
    \A w \in Worker : pc[w] \in {"poll", "scan", "claim"} /\ conn[w] =>
        \A j \in Job : ~(status[j] = "running" /\ owner[j] = pid[w])

\* A job is reported done only if its work has run to the end once, whatever
\* was lost, retried or cancelled on the way (worker.py:135-155).
DoneWasRun == \A j \in Job : status[j] = "done" => j \in ran

\* Nothing but a requeue that had read the row before it was cancelled brings a
\* cancelled job back: in particular neither verdict of a run that was still
\* going on overwrites the cancellation (the AND status='running' of
\* worker.py:138 and :151).
CancelHolds ==
    [][\A j \in Job : status[j] = "cancelled" /\ status'[j] # "cancelled" =>
          /\ status'[j] = "queued"
          /\ \E w \in Worker : /\ pc[w] \in {"bootRequeue", "requeue"}
                              /\ \E r \in rows[w] : r.id = j]_vars

\* With the one worker that is deployed, a job in execution is never back in
\* the queue: its row stays running under the worker's pid, or is cancelled.
NeverQueuedWhileExecuting ==
    \A w \in Worker, j \in Job : Executing(w, j) =>
        status[j] \in {"running", "cancelled"} /\ owner[j] = pid[w]

\* With the one worker that is deployed, the verdicts done and error are final
\* although the requeue updates rows by id, without looking at their status.
VerdictIsFinal ==
    [][\A j \in Job : status[j] \in {"done", "error"} => status'[j] = status[j]]_vars

\* The row says running, and the live process its pid names is the web process.
HeldByWeb(j) == status[j] = "running" /\ owner[j] = webpid

\* Every job is eventually done, failed or cancelled, through any finite number
\* of crashes, lost connections and job failures, unless from some time on the
\* web process of a restarted container holds the pid of the worker that died
\* over the job: os.kill finds that pid alive and the row stays running
\* (worker.py:1-7, 68, 141-172).  A job that is held so is a failure of the code
\* against worker.py:52-57, which requeues what "no live worker owns".
SettlesUnlessHeld ==
    \A j \in Job :
        \/ status[j] \in {"queued", "running"} ~> status[j] \in Settled
        \/ <>[]HeldByWeb(j)

\* "a bad job must fail the JOB" (worker.py:143): a job whose run always raises
\* gets a verdict.
BadJobFails == \A j \in Poison : status[j] = "running" ~> status[j] \in Settled

\* The queue implements the life cycle of JobLifecycle (with one worker), which
\* sees the rows and what has run, and no process, pid or connection.
Lifecycle == INSTANCE JobLifecycle
    WITH MaxJobs <- MaxJobs, created <- created, status <- status, ran <- ran
LifecycleSpec == Lifecycle!Spec
=============================================================================
