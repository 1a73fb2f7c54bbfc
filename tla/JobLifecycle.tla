---------------------------- MODULE JobLifecycle ----------------------------
(***************************************************************************)
(* What the job queue promises to whoever creates a job, with no workers,  *)
(* processes or connections in it: a job is started in the order of its    *)
(* creation, may be retried any number of times, is reported done only     *)
(* once its work has been performed in full, and keeps its verdict.  A     *)
(* cancellation holds against the end of the work but not against a retry  *)
(* that was already being decided: the requeue does not look at the status *)
(* again (epiproc/worker.py, _requeue_abandoned).                          *)
(***************************************************************************)
EXTENDS Naturals

CONSTANT MaxJobs

Job == 1..MaxJobs

VARIABLES created, status, ran

lifecycleVars == <<created, status, ran>>

Init ==
    /\ created = 0
    /\ status = [j \in Job |-> "absent"]
    /\ ran = {}

Set(j, s) == status' = [status EXCEPT ![j] = s]

Create ==
    /\ created < MaxJobs
    /\ created' = created + 1
    /\ Set(created + 1, "queued")
    /\ UNCHANGED ran

\* Oldest first.
Start(j) ==
    /\ status[j] = "queued"
    /\ \A k \in Job : k < j => status[k] # "queued"
    /\ Set(j, "running")
    /\ UNCHANGED <<created, ran>>

\* The work of a started job is complete; it may have been cancelled meanwhile.
Work(j) ==
    /\ status[j] \in {"running", "cancelled"}
    /\ ran' = ran \cup {j}
    /\ UNCHANGED <<created, status>>

Done(j) ==
    /\ status[j] = "running"
    /\ j \in ran
    /\ Set(j, "done")
    /\ UNCHANGED <<created, ran>>

Fail(j) ==
    /\ status[j] = "running"
    /\ Set(j, "error")
    /\ UNCHANGED <<created, ran>>

Cancel(j) ==
    /\ status[j] \in {"queued", "running"}
    /\ Set(j, "cancelled")
    /\ UNCHANGED <<created, ran>>

Retry(S) ==
    /\ \A j \in S : status[j] \in {"running", "cancelled"}
    /\ status' = [j \in Job |-> IF j \in S THEN "queued" ELSE status[j]]
    /\ UNCHANGED <<created, ran>>

Next ==
    \/ Create
    \/ \E j \in Job : Start(j) \/ Work(j) \/ Done(j) \/ Fail(j) \/ Cancel(j)
    \/ \E S \in SUBSET Job : Retry(S)

Spec == Init /\ [][Next]_lifecycleVars
=============================================================================
