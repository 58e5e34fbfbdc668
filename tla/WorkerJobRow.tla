----------------------------- MODULE WorkerJobRow -----------------------------
(***************************************************************************)
(* One row of the `worker_jobs` table, reduced to the two columns every    *)
(* guard of crates/worker/src/service.rs reads: `status` and `worker_id`.  *)
(***************************************************************************)
EXTENDS Naturals

CONSTANTS
    Job,        \* ids of the rows that may be created
    Worker      \* device ids of paired workers

\* `worker_id IS NULL`.
NoWorker == 0

\* WorkerJobStatus, with "absent" for a row that was not inserted yet.
Status == {"absent", "queued", "claimed", "running", "done", "failed", "needs_worker"}

\* WorkerJobStatus::is_terminal.
is_terminal(s) == s \in {"done", "failed"}

\* WorkerJobStatus::is_assigned.
is_assigned(s) == s \in {"queued", "claimed", "running"}

\* A row as the model keeps it, and the row that does not exist.
Row == [status : Status, worker : Worker \cup {NoWorker}]
Absent == [status |-> "absent", worker |-> NoWorker]
=============================================================================
