----------------------------- MODULE MCWorkerJobs -----------------------------
(* Small instances of WorkerJobs. *)
EXTENDS WorkerJobs

CONSTANTS j1, j2

\* Both workers can run everything.
AllCapable == Worker \X Job
=============================================================================
