----------------------------- MODULE JobQueueMC -----------------------------
(* TLC instances of JobQueue. *)
EXTENDS JobQueue, TLC

\* Pids only the workers may get are interchangeable.
Pids == Permutations(WorkerPid \ WebPid)
=============================================================================
