--------------------------- MODULE JobQueueProofs ---------------------------
(***************************************************************************)
(* Theorems about JobQueue, for every number of jobs, workers, pids and    *)
(* faults.                                                                 *)
(***************************************************************************)
EXTENDS JobQueue, TLAPS

-----------------------------------------------------------------------------
(* Type correctness *)

\* A worker that has claimed holds a job: the loop never falls through to the
\* run with nothing in hand.
JobInHand ==
    \A w \in Worker : pc[w] \in {"claim", "run", "returned", "raised"} => cur[w] \in Job

LEMMA InHandStep ==
  ASSUME TypeOK, JobInHand, [Next]_vars
  PROVE  JobInHand'
<1> USE DEF TypeOK, JobInHand, Goto, Die, PC
<1>1. ASSUME NEW w \in Worker, WorkerStep(w)
      PROVE  JobInHand'
  <2>1. CASE ClaimSelect(w)
    BY <2>1 DEF ClaimSelect, Claimable
  <2>2. CASE ClaimCommit(w) \/ FinishCommit(w)
    BY <2>2 DEF ClaimCommit, FinishCommit, MarkRunning, MarkFinished
  <2>3. CASE ClaimCommitLost(w) \/ FinishCommitLost(w)
    BY <2>3 DEF ClaimCommitLost, FinishCommitLost, MarkRunning, MarkFinished
  <2>4. CASE RunReturns(w) \/ RunRaises(w) \/ RunRaisesDbDown(w)
    BY <2>4 DEF RunReturns, RunRaises, RunRaisesDbDown
  <2>5. CASE Connect(w) \/ ReconnectFails(w) \/ Requeue(w)
    BY <2>5 DEF Connect, ReconnectFails, Requeue
  <2>6. CASE IdleScan(w) \/ ScanEnd(w) \/ ConnectionLost(w)
    BY <2>6 DEF IdleScan, ScanEnd, ConnectionLost
  <2>7. CASE NoticeLost(w) \/ RequeueFails(w) \/ BootFails(w)
    BY <2>7 DEF NoticeLost, RequeueFails, BootFails
  <2>8. QED
    BY <1>1, <2>1, <2>2, <2>3, <2>4, <2>5, <2>6, <2>7 DEF WorkerStep
<1>2. ASSUME NEW w \in Worker, ExtraUp(w) \/ ExtraDown(w)
      PROVE  JobInHand'
  BY <1>2 DEF ExtraUp, ExtraDown
<1>3. CASE ContainerUp \/ ContainerDown
  BY <1>3, JobQueueAssumption DEF ContainerUp, ContainerDown
<1>4. CASE CreateJob \/ \E j \in Job : CancelJob(j)
  BY <1>4 DEF CreateJob, CancelJob
<1>5. CASE UNCHANGED vars
  BY <1>5 DEF vars
<1>6. QED
  BY <1>1, <1>2, <1>3, <1>4, <1>5 DEF Next

\* What a claim and a verdict write has the columns' types.
LEMMA MarkTypes ==
  ASSUME TypeOK, JobInHand, NEW w \in Worker, MarkRunning(w) \/ MarkFinished(w)
  PROVE  /\ status' \in [Job -> Status]
         /\ owner' \in [Job -> Pid \cup {NoPid}]
         /\ UNCHANGED <<created, webpid, pid, rows, ran>>
<1>1. CASE MarkRunning(w)
  BY <1>1 DEF TypeOK, JobInHand, MarkRunning, Status, Pid, procs
<1>2. CASE MarkFinished(w)
  BY <1>2 DEF TypeOK, JobInHand, MarkFinished, Status, Pid, procs
<1>3. QED
  BY <1>1, <1>2

\* One step of the queue, of a process or of a worker keeps the types.
LEMMA TypeStep ==
  ASSUME TypeOK, JobInHand, [Next]_vars
  PROVE  TypeOK'
<1> USE JobQueueAssumption DEF TypeOK, Job, Pid, PC, Status, Row
<1> USE DEF table, procs, Goto, Fault, Die
<1>1. CASE CreateJob
  BY <1>1 DEF CreateJob
<1>2. ASSUME NEW j \in Job, CancelJob(j)
      PROVE  TypeOK'
  BY <1>2 DEF CancelJob
<1>3. CASE ContainerUp
  BY <1>3 DEF ContainerUp
<1>4. CASE ContainerDown
  BY <1>4 DEF ContainerDown
<1>5. ASSUME NEW w \in Worker, ExtraUp(w) \/ ExtraDown(w)
      PROVE  TypeOK'
  <2>1. CASE ExtraUp(w)
    BY <2>1 DEF ExtraUp
  <2>2. CASE ExtraDown(w)
    BY <2>2 DEF ExtraDown
  <2>3. QED
    BY <1>5, <2>1, <2>2
<1>6. ASSUME NEW w \in Worker, WorkerStep(w)
      PROVE  TypeOK'
  <2>1. CASE Connect(w)
    BY <2>1 DEF Connect
  <2>2. CASE ReconnectFails(w)
    BY <2>2 DEF ReconnectFails
  <2>3. CASE Requeue(w)
    BY <2>3 DEF Requeue
  <2>4. CASE ClaimSelect(w)
    BY <2>4 DEF ClaimSelect, Claimable
  <2>5. CASE ClaimCommit(w)
    BY <2>5 DEF ClaimCommit, MarkRunning
  <2>6. CASE ClaimCommitLost(w)
    <3>1. conn' \in [Worker -> BOOLEAN] /\ cur' \in [Worker -> Job \cup {NoJob}]
      BY <2>6 DEF ClaimCommitLost
    <3>2. pc' \in [Worker -> PC] /\ faults' \in 0..MaxFaults
      BY <2>6 DEF ClaimCommitLost
    <3>3. QED
      BY <2>6, <3>1, <3>2, MarkTypes DEF ClaimCommitLost
  <2>7. CASE IdleScan(w)
    BY <2>7 DEF IdleScan
  <2>8. CASE ScanEnd(w)
    BY <2>8 DEF ScanEnd
  <2>10. CASE RunRaises(w)
    BY <2>10 DEF RunRaises
  <2>11. CASE RunRaisesDbDown(w)
    BY <2>11 DEF RunRaisesDbDown
  <2>12. CASE FinishCommit(w)
    BY <2>12 DEF FinishCommit, MarkFinished
  <2>13. CASE FinishCommitLost(w)
    <3>1. conn' \in [Worker -> BOOLEAN] /\ cur' \in [Worker -> Job \cup {NoJob}]
      BY <2>13 DEF FinishCommitLost, MarkFinished
    <3>2. pc' \in [Worker -> PC] /\ faults' \in 0..MaxFaults
      BY <2>13 DEF FinishCommitLost
    <3>3. QED
      BY <2>13, <3>1, <3>2, MarkTypes DEF FinishCommitLost
  <2>14. CASE ConnectionLost(w)
    BY <2>14 DEF ConnectionLost
  <2>15. CASE NoticeLost(w)
    BY <2>15 DEF NoticeLost
  <2>16. CASE RequeueFails(w)
    BY <2>16 DEF RequeueFails
  <2>17. CASE BootFails(w)
    BY <2>17 DEF BootFails
  <2>18. CASE RunReturns(w)
    BY <2>18 DEF RunReturns, JobInHand
  <2>19. QED
    BY <1>6, <2>1, <2>2, <2>3, <2>4, <2>5, <2>6, <2>7, <2>8, <2>10, <2>11,
       <2>12, <2>13, <2>14, <2>15, <2>16, <2>17, <2>18 DEF WorkerStep
<1>7. CASE UNCHANGED vars
  BY <1>7 DEF vars
<1>8. QED
  BY <1>1, <1>2, <1>3, <1>4, <1>5, <1>6, <1>7 DEF Next

\* The variables always have the types of TypeOK, and a claimed job is in hand.
THEOREM TypeCorrect == Spec => []TypeOK
<1>1. Init => TypeOK /\ JobInHand
  BY JobQueueAssumption
     DEF Init, TypeOK, JobInHand, Job, Pid, PC, Status
<1>2. TypeOK /\ JobInHand /\ [Next]_vars => (TypeOK /\ JobInHand)'
  BY TypeStep, InHandStep
<1>3. QED
  BY <1>1, <1>2, PTL DEF Spec

-----------------------------------------------------------------------------
(* The process table *)

\* A process runs exactly while it has a pid, no two workers share one, no
\* worker outlives the container, and only a worker past its connect is connected.
ProcessTable ==
    /\ \A w \in Worker : pc[w] = "down" <=> pid[w] = NoPid
    /\ \A v, w \in Worker : pid[v] = pid[w] /\ pid[v] # NoPid => v = w
    /\ webpid = NoPid => \A w \in Worker : pid[w] = NoPid
    /\ \A w \in Worker : pc[w] \in {"down", "boot", "reconnect"} => ~conn[w]

LEMMA ProcessTableStep ==
  ASSUME TypeOK, ProcessTable, [Next]_vars
  PROVE  ProcessTable'
<1> USE JobQueueAssumption DEF TypeOK, ProcessTable, Pid, PC, Goto, Die, table, procs
<1>1. CASE ContainerUp
  BY <1>1 DEF ContainerUp
<1>2. CASE ContainerDown
  BY <1>2 DEF ContainerDown
<1>3. ASSUME NEW w \in Worker, ExtraUp(w)
      PROVE  ProcessTable'
  BY <1>3 DEF ExtraUp, Alive
<1>4. ASSUME NEW w \in Worker, ExtraDown(w)
      PROVE  ProcessTable'
  BY <1>4 DEF ExtraDown
<1>5. ASSUME NEW w \in Worker, WorkerStep(w)
      PROVE  ProcessTable'
  <2>1. CASE BootFails(w)
    BY <2>1 DEF BootFails
  <2>2. CASE Connect(w) \/ ReconnectFails(w) \/ Requeue(w)
    BY <2>2 DEF Connect, ReconnectFails, Requeue
  <2>3. CASE ClaimSelect(w) \/ IdleScan(w) \/ ScanEnd(w)
    BY <2>3 DEF ClaimSelect, IdleScan, ScanEnd
  <2>4. CASE ClaimCommit(w)
    BY <2>4 DEF ClaimCommit, MarkRunning
  <2>5. CASE ClaimCommitLost(w)
    BY <2>5 DEF ClaimCommitLost, MarkRunning
  <2>6. CASE RunReturns(w) \/ RunRaises(w) \/ RunRaisesDbDown(w)
    BY <2>6 DEF RunReturns, RunRaises, RunRaisesDbDown
  <2>7. CASE FinishCommit(w)
    BY <2>7 DEF FinishCommit, MarkFinished
  <2>8. CASE FinishCommitLost(w)
    BY <2>8 DEF FinishCommitLost, MarkFinished
  <2>9. CASE ConnectionLost(w) \/ NoticeLost(w) \/ RequeueFails(w)
    BY <2>9 DEF ConnectionLost, NoticeLost, RequeueFails
  <2>10. QED
    BY <1>5, <2>1, <2>2, <2>3, <2>4, <2>5, <2>6, <2>7, <2>8, <2>9 DEF WorkerStep
<1>6. CASE CreateJob \/ \E j \in Job : CancelJob(j)
  BY <1>6 DEF CreateJob, CancelJob
<1>7. CASE UNCHANGED vars
  BY <1>7 DEF vars
<1>8. QED
  BY <1>1, <1>2, <1>3, <1>4, <1>5, <1>6, <1>7 DEF Next

-----------------------------------------------------------------------------
(* A worker reclaims its own rows before it works again *)

OwnRunning(w) == {j \in Job : status[j] = "running" /\ owner[j] = pid[w]}

\* OwnJobsReclaimed is not inductive: between the SELECT and the commit of the
\* requeue the rows are known to `rows`, and during a run the only one is the
\* job in hand.
Reclaimed(w) ==
    /\ pc[w] \in {"poll", "scan", "claim"} /\ conn[w] => OwnRunning(w) = {}
    /\ pc[w] \in {"bootRequeue", "requeue"} /\ conn[w] =>
          \A j \in OwnRunning(w) : [id |-> j, worker_pid |-> pid[w]] \in rows[w]
    /\ pc[w] \in {"run", "returned", "raised"} => OwnRunning(w) \subseteq {cur[w]}

\* A step that leaves worker v alone, and gives it no row, keeps Reclaimed(v).
LEMMA ReclaimedFrame ==
  ASSUME NEW v \in Worker, Reclaimed(v),
         pc'[v] = pc[v], conn'[v] => conn[v], cur'[v] = cur[v],
         rows'[v] = rows[v], pid'[v] = pid[v],
         OwnRunning(v)' \subseteq OwnRunning(v)
  PROVE  Reclaimed(v)'
BY DEF Reclaimed, OwnRunning

\* The owner of a row changes only to the worker that claims it.
LEMMA ClaimTakesOneRow ==
  ASSUME TypeOK, JobInHand, ProcessTable, NEW w \in Worker, MarkRunning(w), NEW v \in Worker
  PROVE  OwnRunning(v)' \subseteq OwnRunning(v) \cup (IF v = w THEN {cur[w]} ELSE {})
<1>1. pid' = pid /\ pid[w] # NoPid /\ cur[w] \in Job
  BY DEF MarkRunning, procs, ProcessTable, JobInHand
<1>2. \A j \in Job : j # cur[w] => status'[j] = status[j] /\ owner'[j] = owner[j]
  BY <1>1 DEF MarkRunning, TypeOK
<1>3. owner'[cur[w]] = pid[w]
  BY <1>1 DEF MarkRunning, TypeOK
<1>4. v # w => pid[v] # pid[w]
  BY <1>1 DEF ProcessTable
<1>5. QED
  BY <1>1, <1>2, <1>3, <1>4 DEF OwnRunning

\* A verdict only removes the job in hand from the running rows.
LEMMA VerdictFreesRow ==
  ASSUME TypeOK, JobInHand, NEW w \in Worker, MarkFinished(w), NEW v \in Worker
  PROVE  OwnRunning(v)' \subseteq OwnRunning(v) \ {cur[w]}
<1>1. cur[w] \in Job /\ pid' = pid /\ owner' = owner
  BY DEF MarkFinished, procs, JobInHand
<1>2. \A j \in Job : j # cur[w] => status'[j] = status[j]
  BY <1>1 DEF MarkFinished, TypeOK
<1>3. status'[cur[w]] # "running"
  BY <1>1 DEF MarkFinished, TypeOK
<1>4. QED
  BY <1>1, <1>2, <1>3 DEF OwnRunning

LEMMA ReclaimedStep ==
  ASSUME TypeOK, JobInHand, ProcessTable, \A w \in Worker : Reclaimed(w), [Next]_vars,
         NEW v \in Worker
  PROVE  Reclaimed(v)'
<1> USE DEF Goto, table, procs
<1>1. CASE CreateJob
  <2>1. created + 1 \in Job /\ OwnRunning(v)' \subseteq OwnRunning(v)
    BY <1>1, JobQueueAssumption DEF CreateJob, OwnRunning, TypeOK, Job
  <2>2. QED
    BY <1>1, <2>1, ReclaimedFrame DEF CreateJob
<1>2. ASSUME NEW j \in Job, CancelJob(j)
      PROVE  Reclaimed(v)'
  <2>1. OwnRunning(v)' \subseteq OwnRunning(v)
    BY <1>2 DEF CancelJob, OwnRunning, TypeOK
  <2>2. QED
    BY <1>2, <2>1, ReclaimedFrame DEF CancelJob
<1>3. CASE ContainerUp \/ ContainerDown
  BY <1>3, JobQueueAssumption
     DEF ContainerUp, ContainerDown, Die, Reclaimed, OwnRunning, TypeOK, ProcessTable
<1>4. ASSUME NEW w \in Worker, ExtraUp(w) \/ ExtraDown(w)
      PROVE  Reclaimed(v)'
  BY <1>4 DEF ExtraUp, ExtraDown, Die, Reclaimed, OwnRunning, TypeOK, ProcessTable
<1>5. ASSUME NEW w \in Worker, WorkerStep(w)
      PROVE  Reclaimed(v)'
  <2>1. CASE Connect(w)
    BY <2>1 DEF Connect, Reclaimed, OwnRunning, Row, TypeOK, ProcessTable
  <2>2. CASE Requeue(w)
    <3>1. OwnRunning(v)' \subseteq OwnRunning(v)
      BY <2>2 DEF Requeue, OwnRunning, TypeOK
    <3>2. ASSUME v = w, NEW j \in OwnRunning(v)
          PROVE  j \in ToRequeue(w)
      <4>1. [id |-> j, worker_pid |-> pid[w]] \in rows[w]
        BY <2>2, <3>2 DEF Requeue, Reclaimed
      <4>2. Abandoned(w, pid[w])
        BY DEF Abandoned
      <4>3. QED
        BY <4>1, <4>2 DEF ToRequeue
    <3>3. v = w => OwnRunning(v)' = {}
      BY <2>2, <3>2 DEF Requeue, OwnRunning, TypeOK
    <3>4. CASE v = w
      BY <2>2, <3>3, <3>4 DEF Requeue, Reclaimed, TypeOK
    <3>5. CASE v # w
      BY <2>2, <3>1, <3>5, ReclaimedFrame DEF Requeue, TypeOK
    <3>6. QED
      BY <3>4, <3>5
  <2>3. CASE ClaimCommit(w)
    <3>1. OwnRunning(v)' \subseteq OwnRunning(v) \cup (IF v = w THEN {cur[w]} ELSE {})
      BY <2>3, ClaimTakesOneRow DEF ClaimCommit
    <3>2. v = w => OwnRunning(v) = {}
      BY <2>3 DEF ClaimCommit, MarkRunning, Reclaimed
    <3>3. CASE v = w
      BY <2>3, <3>1, <3>2, <3>3 DEF ClaimCommit, MarkRunning, Reclaimed, TypeOK
    <3>4. CASE v # w
      BY <2>3, <3>1, <3>4, ReclaimedFrame DEF ClaimCommit, MarkRunning, TypeOK
    <3>5. QED
      BY <3>3, <3>4
  <2>4. CASE ClaimCommitLost(w)
    <3>1. OwnRunning(v)' \subseteq OwnRunning(v) \cup (IF v = w THEN {cur[w]} ELSE {})
      BY <2>4, ClaimTakesOneRow DEF ClaimCommitLost
    <3>2. CASE v = w
      BY <2>4, <3>2 DEF ClaimCommitLost, MarkRunning, Reclaimed, TypeOK
    <3>3. CASE v # w
      BY <2>4, <3>1, <3>3, ReclaimedFrame DEF ClaimCommitLost, MarkRunning, TypeOK
    <3>4. QED
      BY <3>2, <3>3
  <2>5. CASE FinishCommit(w)
    <3>1. OwnRunning(v)' \subseteq OwnRunning(v) \ {cur[w]}
      BY <2>5, VerdictFreesRow DEF FinishCommit
    <3>2. CASE v = w
      BY <2>5, <3>1, <3>2 DEF FinishCommit, MarkFinished, Reclaimed, TypeOK
    <3>3. CASE v # w
      BY <2>5, <3>1, <3>3, ReclaimedFrame DEF FinishCommit, MarkFinished, TypeOK
    <3>4. QED
      BY <3>2, <3>3
  <2>6. CASE FinishCommitLost(w)
    <3>1. OwnRunning(v)' \subseteq OwnRunning(v) \ {cur[w]}
      BY <2>6, VerdictFreesRow DEF FinishCommitLost
    <3>2. CASE v = w
      BY <2>6, <3>2 DEF FinishCommitLost, MarkFinished, Reclaimed, TypeOK
    <3>3. CASE v # w
      BY <2>6, <3>1, <3>3, ReclaimedFrame DEF FinishCommitLost, MarkFinished, TypeOK
    <3>4. QED
      BY <3>2, <3>3
  <2>7. CASE ClaimSelect(w) \/ IdleScan(w) \/ ScanEnd(w)
    BY <2>7 DEF ClaimSelect, IdleScan, ScanEnd, Reclaimed, OwnRunning, TypeOK
  <2>8. CASE RunReturns(w) \/ RunRaises(w)
    BY <2>8 DEF RunReturns, RunRaises, Reclaimed, OwnRunning, TypeOK
  <2>9. CASE ReconnectFails(w) \/ RunRaisesDbDown(w) \/ NoticeLost(w) \/ RequeueFails(w)
    BY <2>9 DEF ReconnectFails, RunRaisesDbDown, NoticeLost, RequeueFails,
                Reclaimed, OwnRunning, TypeOK, ProcessTable
  <2>10. CASE ConnectionLost(w) \/ BootFails(w)
    BY <2>10 DEF ConnectionLost, BootFails, Die, Reclaimed, OwnRunning, TypeOK
  <2>11. QED
    BY <1>5, <2>1, <2>2, <2>3, <2>4, <2>5, <2>6, <2>7, <2>8, <2>9, <2>10 DEF WorkerStep
<1>6. CASE UNCHANGED vars
  BY <1>6, ReclaimedFrame DEF vars, OwnRunning
<1>7. QED
  BY <1>1, <1>2, <1>3, <1>4, <1>5, <1>6 DEF Next

\* Whatever a worker abandoned is back in the queue before it looks for work
\* again, for any number of workers and any reuse of pids.
THEOREM OwnJobsAreReclaimed == Spec => []OwnJobsReclaimed
<1> DEFINE IInv == TypeOK /\ JobInHand /\ ProcessTable /\ \A w \in Worker : Reclaimed(w)
<1>1. Init => IInv
  BY JobQueueAssumption
     DEF Init, TypeOK, JobInHand, ProcessTable, Reclaimed, OwnRunning, Job, Pid, PC, Status
<1>2. IInv /\ [Next]_vars => IInv'
  BY TypeStep, InHandStep, ProcessTableStep, ReclaimedStep
<1>3. IInv => OwnJobsReclaimed
  BY DEF Reclaimed, OwnRunning, OwnJobsReclaimed
<1>4. QED
  BY <1>1, <1>2, <1>3, PTL DEF Spec

-----------------------------------------------------------------------------
(* Done means run *)

\* DoneWasRun with what makes it inductive: the run of a job about to be marked
\* done has returned.
DoneInv ==
    /\ DoneWasRun
    /\ \A w \in Worker : pc[w] = "returned" => cur[w] \in ran

LEMMA DoneInvStep ==
  ASSUME TypeOK, JobInHand, DoneInv, [Next]_vars
  PROVE  DoneInv'
<1> USE DEF TypeOK, JobInHand, DoneInv, DoneWasRun, Goto, table, procs
<1>1. CASE CreateJob \/ \E j \in Job : CancelJob(j)
  BY <1>1 DEF CreateJob, CancelJob
<1>2. CASE ContainerUp \/ ContainerDown
  BY <1>2 DEF ContainerUp, ContainerDown, Die
<1>3. ASSUME NEW w \in Worker, ExtraUp(w) \/ ExtraDown(w)
      PROVE  DoneInv'
  BY <1>3 DEF ExtraUp, ExtraDown, Die
<1>4. ASSUME NEW w \in Worker, WorkerStep(w)
      PROVE  DoneInv'
  <2>1. CASE Connect(w) \/ ReconnectFails(w) \/ Requeue(w)
    BY <2>1 DEF Connect, ReconnectFails, Requeue
  <2>2. CASE ClaimSelect(w) \/ IdleScan(w) \/ ScanEnd(w)
    BY <2>2 DEF ClaimSelect, IdleScan, ScanEnd
  <2>3. CASE ClaimCommit(w)
    BY <2>3 DEF ClaimCommit, MarkRunning
  <2>4. CASE ClaimCommitLost(w)
    BY <2>4 DEF ClaimCommitLost, MarkRunning
  <2>5. CASE RunReturns(w) \/ RunRaises(w) \/ RunRaisesDbDown(w)
    BY <2>5 DEF RunReturns, RunRaises, RunRaisesDbDown
  <2>6. CASE FinishCommit(w)
    BY <2>6 DEF FinishCommit, MarkFinished
  <2>7. CASE FinishCommitLost(w)
    BY <2>7 DEF FinishCommitLost, MarkFinished
  <2>8. CASE ConnectionLost(w) \/ NoticeLost(w) \/ RequeueFails(w) \/ BootFails(w)
    BY <2>8 DEF ConnectionLost, NoticeLost, RequeueFails, BootFails, Die
  <2>9. QED
    BY <1>4, <2>1, <2>2, <2>3, <2>4, <2>5, <2>6, <2>7, <2>8 DEF WorkerStep
<1>5. CASE UNCHANGED vars
  BY <1>5 DEF vars
<1>6. QED
  BY <1>1, <1>2, <1>3, <1>4, <1>5 DEF Next

\* No job is reported done whose work was not performed in full at least once.
THEOREM DoneMeansRun == Spec => []DoneWasRun
<1> DEFINE IInv == TypeOK /\ JobInHand /\ DoneInv
<1>1. Init => IInv
  BY JobQueueAssumption
     DEF Init, TypeOK, JobInHand, DoneInv, DoneWasRun, Job, Pid, PC, Status
<1>2. IInv /\ [Next]_vars => IInv'
  BY TypeStep, InHandStep, DoneInvStep
<1>3. IInv => DoneWasRun
  BY DEF DoneInv
<1>4. QED
  BY <1>1, <1>2, <1>3, PTL DEF Spec

-----------------------------------------------------------------------------
(* Row locks, and what a cancellation survives *)

Holds(w) == pc[w] = "claim" /\ conn[w]

\* A row lock has one holder, and a locked row stays queued until its claim.
LockInv ==
    /\ \A v, w \in Worker : Holds(v) /\ Holds(w) /\ cur[v] = cur[w] => v = w
    /\ \A w \in Worker : Holds(w) => status[cur[w]] = "queued"

LEMMA LockInvStep ==
  ASSUME TypeOK, JobInHand, LockInv, [Next]_vars
  PROVE  LockInv'
<1> USE DEF TypeOK, JobInHand, LockInv, Holds, Goto, table, procs
<1>1. CASE CreateJob
  BY <1>1 DEF CreateJob
<1>2. ASSUME NEW j \in Job, CancelJob(j)
      PROVE  LockInv'
  BY <1>2 DEF CancelJob, Locked
<1>3. CASE ContainerUp \/ ContainerDown
  BY <1>3 DEF ContainerUp, ContainerDown, Die
<1>4. ASSUME NEW w \in Worker, ExtraUp(w) \/ ExtraDown(w)
      PROVE  LockInv'
  BY <1>4 DEF ExtraUp, ExtraDown, Die
<1>5. ASSUME NEW w \in Worker, WorkerStep(w)
      PROVE  LockInv'
  <2>1. CASE Connect(w) \/ ReconnectFails(w) \/ Requeue(w)
    BY <2>1 DEF Connect, ReconnectFails, Requeue
  <2>2. CASE ClaimSelect(w)
    BY <2>2 DEF ClaimSelect, Claimable, Locked
  <2>3. CASE ClaimCommit(w)
    BY <2>3 DEF ClaimCommit, MarkRunning
  <2>4. CASE ClaimCommitLost(w)
    BY <2>4 DEF ClaimCommitLost, MarkRunning
  <2>5. CASE RunReturns(w) \/ RunRaises(w) \/ RunRaisesDbDown(w) \/ IdleScan(w) \/ ScanEnd(w)
    BY <2>5 DEF RunReturns, RunRaises, RunRaisesDbDown, IdleScan, ScanEnd
  <2>6. CASE FinishCommit(w)
    BY <2>6 DEF FinishCommit, MarkFinished, Locked
  <2>7. CASE FinishCommitLost(w)
    BY <2>7 DEF FinishCommitLost, MarkFinished, Locked
  <2>8. CASE ConnectionLost(w) \/ NoticeLost(w) \/ RequeueFails(w) \/ BootFails(w)
    BY <2>8 DEF ConnectionLost, NoticeLost, RequeueFails, BootFails, Die
  <2>9. QED
    BY <1>5, <2>1, <2>2, <2>3, <2>4, <2>5, <2>6, <2>7, <2>8 DEF WorkerStep
<1>6. CASE UNCHANGED vars
  BY <1>6 DEF vars
<1>7. QED
  BY <1>1, <1>2, <1>3, <1>4, <1>5, <1>6 DEF Next

\* The ids are given out in order: exactly the jobs up to `created` have a row,
\* and a requeue has read no other.
FreshInv ==
    /\ \A j \in Job : status[j] = "absent" <=> j > created
    /\ \A w \in Worker : \A r \in rows[w] : r.id <= created

LEMMA FreshInvStep ==
  ASSUME TypeOK, JobInHand, LockInv, FreshInv, [Next]_vars
  PROVE  FreshInv'
<1> USE DEF TypeOK, JobInHand, FreshInv, Job, table, procs
<1>0. \A w \in Worker : \A r \in rows[w] : r.id \in Job
  BY DEF Row
<1>1. CASE CreateJob
  <2>1. \A j \in Job : status'[j] = "absent" <=> j > created'
    BY <1>1, JobQueueAssumption DEF CreateJob
  <2>2. \A w \in Worker : \A r \in rows'[w] : r.id <= created'
    BY <1>0, <1>1, JobQueueAssumption DEF CreateJob
  <2>3. QED
    BY <2>1, <2>2
<1>2. ASSUME NEW j \in Job, CancelJob(j)
      PROVE  FreshInv'
  BY <1>2 DEF CancelJob
<1>3. CASE ContainerUp \/ ContainerDown
  BY <1>3 DEF ContainerUp, ContainerDown, Die
<1>4. ASSUME NEW w \in Worker, ExtraUp(w) \/ ExtraDown(w)
      PROVE  FreshInv'
  <2>1. \A v \in Worker : rows'[v] \subseteq rows[v]
    BY <1>4 DEF ExtraUp, ExtraDown, Die
  <2>2. QED
    BY <1>4, <2>1 DEF ExtraUp, ExtraDown
<1>5. ASSUME NEW w \in Worker, WorkerStep(w)
      PROVE  FreshInv'
  <2>1. CASE Connect(w)
    BY <2>1, JobQueueAssumption DEF Connect, Row
  <2>2. CASE Requeue(w)
    <3>1. \A j \in ToRequeue(w) : j \in Job /\ j <= created
      BY <1>0 DEF ToRequeue
    <3>2. \A j \in Job : status'[j] = "absent" <=> j > created'
      BY <2>2, <3>1, JobQueueAssumption DEF Requeue
    <3>3. \A v \in Worker : \A r \in rows'[v] : r.id <= created'
      BY <2>2 DEF Requeue
    <3>4. QED
      BY <3>2, <3>3
  <2>3. CASE MarkRunning(w)
    <3>1. status[cur[w]] = "queued" /\ cur[w] \in Job
      BY <2>3 DEF MarkRunning, LockInv, Holds
    <3>2. QED
      BY <2>3, <3>1 DEF MarkRunning
  <2>4. CASE MarkFinished(w)
    BY <2>4 DEF MarkFinished
  <2>5. CASE UNCHANGED <<created, status, rows>>
    BY <2>5
  <2>6. CASE RequeueFails(w) \/ BootFails(w)
    <3>1. \A v \in Worker : rows'[v] \subseteq rows[v]
      BY <2>6 DEF RequeueFails, BootFails, Die
    <3>2. QED
      BY <2>6, <3>1 DEF RequeueFails, BootFails
  <2>7. QED
    BY <1>5, <2>1, <2>2, <2>3, <2>4, <2>5, <2>6
       DEF WorkerStep, ReconnectFails, ClaimSelect, ClaimCommit, ClaimCommitLost,
           IdleScan, ScanEnd, RunReturns, RunRaises, RunRaisesDbDown, FinishCommit,
           FinishCommitLost, ConnectionLost, NoticeLost
<1>6. CASE UNCHANGED vars
  BY <1>6 DEF vars
<1>7. QED
  BY <1>1, <1>2, <1>3, <1>4, <1>5, <1>6 DEF Next

\* A cancelled row changes only in a requeue that read it before.
LEMMA CancelHoldsStep ==
  ASSUME TypeOK, JobInHand, LockInv, FreshInv, [Next]_vars,
         NEW j \in Job, status[j] = "cancelled", status'[j] # "cancelled"
  PROVE  /\ status'[j] = "queued"
         /\ \E w \in Worker : /\ pc[w] \in {"bootRequeue", "requeue"}
                             /\ \E r \in rows[w] : r.id = j
<1> USE DEF TypeOK, table
<1>1. CASE CreateJob
  BY <1>1, JobQueueAssumption DEF CreateJob, FreshInv, Job
<1>2. ASSUME NEW k \in Job, CancelJob(k)
      PROVE  FALSE
  BY <1>2 DEF CancelJob
<1>3. CASE ContainerUp \/ ContainerDown \/ \E w \in Worker : ExtraUp(w) \/ ExtraDown(w)
  BY <1>3 DEF ContainerUp, ContainerDown, ExtraUp, ExtraDown
<1>4. ASSUME NEW w \in Worker, WorkerStep(w), ~Requeue(w)
      PROVE  FALSE
  <2>1. CASE MarkRunning(w)
    BY <2>1 DEF MarkRunning, LockInv, Holds
  <2>2. CASE MarkFinished(w)
    BY <2>2 DEF MarkFinished
  <2>3. CASE UNCHANGED status
    BY <2>3
  <2>4. QED
    BY <1>4, <2>1, <2>2, <2>3
       DEF WorkerStep, Connect, ReconnectFails, ClaimSelect, ClaimCommit, ClaimCommitLost,
           IdleScan, ScanEnd, RunReturns, RunRaises, RunRaisesDbDown, FinishCommit,
           FinishCommitLost, ConnectionLost, NoticeLost, RequeueFails, BootFails
<1>5. ASSUME NEW w \in Worker, Requeue(w)
      PROVE  /\ status'[j] = "queued"
             /\ pc[w] \in {"bootRequeue", "requeue"}
             /\ \E r \in rows[w] : r.id = j
  BY <1>5 DEF Requeue, ToRequeue
<1>6. CASE UNCHANGED vars
  BY <1>6 DEF vars
<1>7. QED
  BY <1>1, <1>2, <1>3, <1>4, <1>5, <1>6 DEF Next

\* No verdict overwrites a cancellation, for any number of workers.
THEOREM CancellationHolds == Spec => CancelHolds
<1> DEFINE IInv == TypeOK /\ JobInHand /\ LockInv /\ FreshInv
<1>1. Init => IInv
  BY JobQueueAssumption
     DEF Init, TypeOK, JobInHand, LockInv, FreshInv, Holds, Job, Pid, PC, Status
<1>2. IInv /\ [Next]_vars => IInv'
  BY TypeStep, InHandStep, LockInvStep, FreshInvStep
<1>3. IInv /\ [Next]_vars =>
        [\A j \in Job : status[j] = "cancelled" /\ status'[j] # "cancelled" =>
          /\ status'[j] = "queued"
          /\ \E w \in Worker : /\ pc[w] \in {"bootRequeue", "requeue"}
                              /\ \E r \in rows[w] : r.id = j]_vars
  BY CancelHoldsStep
<1>4. QED
  BY <1>1, <1>2, <1>3, PTL DEF Spec, CancelHolds

-----------------------------------------------------------------------------
(* The deployment: one worker *)

\* With one worker nobody requeues behind a run: the job in hand stays running
\* (or is cancelled), the rows a requeue has read are still unfinished when it
\* writes, and nothing older is queued when a claim commits.
OneInv ==
    /\ pc[Entry] \in {"run", "returned", "raised"} =>
          status[cur[Entry]] \in {"running", "cancelled"} /\ owner[cur[Entry]] = pid[Entry]
    /\ pc[Entry] \in {"bootRequeue", "requeue"} =>
          \A r \in rows[Entry] : status[r.id] \in {"running", "cancelled"}
    /\ Holds(Entry) => \A k \in Job : k < cur[Entry] => status[k] # "queued"

LEMMA OneInvStep ==
  ASSUME Worker = {Entry},
         TypeOK, JobInHand, LockInv, FreshInv, OneInv, [Next]_vars
  PROVE  OneInv'
<1> USE DEF TypeOK, JobInHand, OneInv, Holds, Goto, table, procs
<1>0. Entry \in Worker /\ \A r \in rows[Entry] : r.id \in Job /\ r.id <= created
  BY JobQueueAssumption DEF Row, FreshInv
<1>1. CASE CreateJob
  <2>1. created + 1 \in Job /\ \A j \in Job : j <= created => status'[j] = status[j]
    BY <1>1, JobQueueAssumption DEF CreateJob, Job
  <2>2. pc[Entry] \in {"run", "returned", "raised"} => cur[Entry] \in Job /\ cur[Entry] <= created
    BY <1>0 DEF FreshInv, Job
  <2>3. Holds(Entry) => cur[Entry] \in Job /\ cur[Entry] <= created
    BY <1>0 DEF FreshInv, LockInv, Job
  <2>4. Holds(Entry) => \A k \in Job : k < cur[Entry] => status'[k] # "queued"
    BY <2>1, <2>3, JobQueueAssumption DEF Job
  <2>5. QED
    BY <1>0, <1>1, <2>1, <2>2, <2>4 DEF CreateJob
<1>2. ASSUME NEW j \in Job, CancelJob(j)
      PROVE  OneInv'
  BY <1>0, <1>2 DEF CancelJob
<1>3. CASE ContainerUp \/ ContainerDown
  BY <1>0, <1>3 DEF ContainerUp, ContainerDown, Die
<1>4. ASSUME NEW w \in Worker, ExtraUp(w) \/ ExtraDown(w)
      PROVE  FALSE
  BY <1>4 DEF ExtraUp, ExtraDown
<1>5. CASE WorkerStep(Entry)
  <2>1. CASE Connect(Entry)
    BY <1>0, <2>1 DEF Connect
  <2>2. CASE Requeue(Entry) \/ RequeueFails(Entry)
    BY <1>0, <2>2 DEF Requeue, RequeueFails
  <2>3. CASE ClaimSelect(Entry)
    <3>1. \A j \in Job : ~Locked(j)
      BY <2>3 DEF ClaimSelect, Locked
    <3>2. cur'[Entry] \in Claimable /\ \A k \in Claimable : cur'[Entry] <= k
      BY <1>0, <2>3 DEF ClaimSelect
    <3>3. \A k \in Job : k < cur'[Entry] => status'[k] # "queued"
      BY <2>3, <3>1, <3>2, JobQueueAssumption DEF ClaimSelect, Claimable, Job
    <3>4. QED
      BY <1>0, <2>3, <3>3 DEF ClaimSelect
  <2>4. CASE ClaimCommit(Entry)
    BY <1>0, <2>4 DEF ClaimCommit, MarkRunning
  <2>5. CASE ClaimCommitLost(Entry) \/ FinishCommitLost(Entry)
    BY <1>0, <2>5 DEF ClaimCommitLost, FinishCommitLost
  <2>6. CASE FinishCommit(Entry) \/ IdleScan(Entry) \/ ScanEnd(Entry)
    BY <1>0, <2>6 DEF FinishCommit, IdleScan, ScanEnd
  <2>7. CASE RunReturns(Entry) \/ RunRaises(Entry)
    BY <1>0, <2>7 DEF RunReturns, RunRaises
  <2>8. CASE RunRaisesDbDown(Entry) \/ NoticeLost(Entry) \/ ReconnectFails(Entry)
    BY <1>0, <2>8 DEF RunRaisesDbDown, NoticeLost, ReconnectFails
  <2>9. CASE ConnectionLost(Entry)
    BY <1>0, <2>9 DEF ConnectionLost
  <2>10. CASE BootFails(Entry)
    BY <1>0, <2>10 DEF BootFails, Die
  <2>11. QED
    BY <1>5, <2>1, <2>2, <2>3, <2>4, <2>5, <2>6, <2>7, <2>8, <2>9, <2>10 DEF WorkerStep
<1>6. CASE UNCHANGED vars
  BY <1>6 DEF vars
<1>7. QED
  BY <1>1, <1>2, <1>3, <1>4, <1>5, <1>6 DEF Next

DeployedInv ==
    TypeOK /\ JobInHand /\ LockInv /\ FreshInv /\ DoneInv /\ OneInv

LEMMA DeployedInvariant ==
  ASSUME Worker = {Entry}
  PROVE  Spec => []DeployedInv
<1>1. Init => DeployedInv
  BY JobQueueAssumption
     DEF Init, DeployedInv, TypeOK, JobInHand, LockInv, FreshInv, DoneInv, DoneWasRun,
         OneInv, Holds, Job, Pid, PC, Status
<1>2. DeployedInv /\ [Next]_vars => DeployedInv'
  BY TypeStep, InHandStep, LockInvStep, FreshInvStep, DoneInvStep, OneInvStep DEF DeployedInv
<1>3. QED
  BY <1>1, <1>2, PTL DEF Spec

\* With the one worker of the deployment a job in execution is never queued again.
THEOREM OneWorkerNeverQueuedWhileExecuting ==
  ASSUME Worker = {Entry}
  PROVE  Spec => []NeverQueuedWhileExecuting
<1>1. DeployedInv => NeverQueuedWhileExecuting
  BY DEF DeployedInv, OneInv, NeverQueuedWhileExecuting, Executing
<1>2. QED
  BY <1>1, DeployedInvariant, PTL

\* Every step of the one-worker queue is a step of the life cycle, or is not
\* visible in it.
LEMMA LifecycleStep ==
  ASSUME Worker = {Entry}, DeployedInv, [Next]_vars
  PROVE  [Lifecycle!Next]_(Lifecycle!lifecycleVars)
<1> USE DEF DeployedInv, TypeOK, table, procs, Lifecycle!lifecycleVars, Lifecycle!Set,
            Lifecycle!Job, Job
<1>0. Entry \in Worker
  BY JobQueueAssumption
<1>1. CASE CreateJob
  BY <1>1 DEF CreateJob, Lifecycle!Next, Lifecycle!Create
<1>2. ASSUME NEW j \in Job, CancelJob(j)
      PROVE  Lifecycle!Next
  BY <1>2 DEF CancelJob, Lifecycle!Next, Lifecycle!Cancel
<1>3. CASE ContainerUp \/ ContainerDown
  BY <1>3 DEF ContainerUp, ContainerDown
<1>4. ASSUME NEW w \in Worker, ExtraUp(w) \/ ExtraDown(w)
      PROVE  FALSE
  BY <1>4 DEF ExtraUp, ExtraDown
<1>5. CASE WorkerStep(Entry)
  <2>1. CASE Requeue(Entry)
    <3>1. ToRequeue(Entry) \in SUBSET Job
      BY <1>0 DEF ToRequeue, Row
    <3>2. \A j \in ToRequeue(Entry) : status[j] \in {"running", "cancelled"}
      BY <2>1 DEF ToRequeue, Requeue, OneInv
    <3>3. Lifecycle!Retry(ToRequeue(Entry))
      BY <2>1, <3>2 DEF Requeue, Lifecycle!Retry
    <3>4. QED
      BY <3>1, <3>3 DEF Lifecycle!Next
  <2>2. CASE MarkRunning(Entry)
    <3>1. cur[Entry] \in Job /\ Lifecycle!Start(cur[Entry])
      BY <1>0, <2>2 DEF MarkRunning, LockInv, OneInv, Holds, JobInHand, Lifecycle!Start
    <3>2. QED
      BY <3>1 DEF Lifecycle!Next
  <2>3. CASE RunReturns(Entry)
    <3>1. cur[Entry] \in Job /\ Lifecycle!Work(cur[Entry])
      BY <1>0, <2>3 DEF RunReturns, OneInv, JobInHand, Lifecycle!Work
    <3>2. QED
      BY <3>1 DEF Lifecycle!Next
  <2>4. CASE MarkFinished(Entry)
    <3>1. cur[Entry] \in Job
      BY <1>0, <2>4 DEF MarkFinished, JobInHand
    <3>2. CASE status[cur[Entry]] = "running" /\ pc[Entry] = "returned"
      <4>1. Lifecycle!Done(cur[Entry])
        BY <1>0, <2>4, <3>2 DEF MarkFinished, DoneInv, Lifecycle!Done
      <4>2. QED
        BY <3>1, <4>1 DEF Lifecycle!Next
    <3>3. CASE status[cur[Entry]] = "running" /\ pc[Entry] = "raised"
      <4>1. Lifecycle!Fail(cur[Entry])
        BY <2>4, <3>3 DEF MarkFinished, Lifecycle!Fail
      <4>2. QED
        BY <3>1, <4>1 DEF Lifecycle!Next
    <3>4. CASE status[cur[Entry]] # "running"
      BY <2>4, <3>4 DEF MarkFinished
    <3>5. QED
      BY <2>4, <3>2, <3>3, <3>4 DEF MarkFinished
  <2>5. CASE UNCHANGED <<created, status, ran>>
    BY <2>5
  <2>6. QED
    BY <1>5, <2>1, <2>2, <2>3, <2>4, <2>5
       DEF WorkerStep, Connect, ReconnectFails, ClaimSelect, ClaimCommit, ClaimCommitLost,
           IdleScan, ScanEnd, RunRaises, RunRaisesDbDown, FinishCommit, FinishCommitLost,
           ConnectionLost, NoticeLost, RequeueFails, BootFails
<1>6. CASE UNCHANGED vars
  BY <1>6 DEF vars
<1>7. QED
  BY <1>1, <1>2, <1>3, <1>4, <1>5, <1>6 DEF Next

\* The deployed queue implements the life cycle its users are promised.
THEOREM ImplementsLifecycle ==
  ASSUME Worker = {Entry}
  PROVE  Spec => LifecycleSpec
<1>1. Init => Lifecycle!Init
  BY DEF Init, Lifecycle!Init, Lifecycle!Job, Job
<1>2. DeployedInv /\ [Next]_vars => [Lifecycle!Next]_(Lifecycle!lifecycleVars)
  BY LifecycleStep
<1>3. QED
  BY <1>1, <1>2, DeployedInvariant, PTL DEF Spec, LifecycleSpec, Lifecycle!Spec

\* No step of the life cycle touches a row that is done or has failed.
LEMMA VerdictStep ==
  ASSUME Worker = {Entry}, DeployedInv, [Next]_vars,
         NEW j \in Job, status[j] \in {"done", "error"}
  PROVE  status'[j] = status[j]
<1>1. [Lifecycle!Next]_(Lifecycle!lifecycleVars)
  BY LifecycleStep
<1>2. ASSUME Lifecycle!Create
      PROVE  status'[j] = status[j]
  BY <1>2, JobQueueAssumption
     DEF Lifecycle!Create, Lifecycle!Set, DeployedInv, FreshInv, TypeOK, Job
<1>3. QED
  BY <1>1, <1>2
     DEF Lifecycle!Next, Lifecycle!lifecycleVars, Lifecycle!Set, Lifecycle!Job,
         Lifecycle!Start, Lifecycle!Work, Lifecycle!Done, Lifecycle!Fail, Lifecycle!Cancel,
         Lifecycle!Retry, DeployedInv, TypeOK, Job

\* A verdict is final, although the requeue updates rows by id alone.
THEOREM OneWorkerVerdictIsFinal ==
  ASSUME Worker = {Entry}
  PROVE  Spec => VerdictIsFinal
<1>1. DeployedInv /\ [Next]_vars =>
        [\A j \in Job : status[j] \in {"done", "error"} => status'[j] = status[j]]_vars
  BY VerdictStep
<1>2. QED
  BY <1>1, DeployedInvariant, PTL DEF Spec, VerdictIsFinal

=============================================================================
