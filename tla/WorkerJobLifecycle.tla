-------------------------- MODULE WorkerJobLifecycle --------------------------
(***************************************************************************)
(* What a `worker_jobs` row promises to whoever reads it: the console, the *)
(* worker holding it, the caller awaiting it.  A job is one row with a     *)
(* status and a holder; this module lists the only ways a row may move.    *)
(*                                                                         *)
(* It is the specification `WorkerJobs` implements.  Nothing here knows    *)
(* about tasks, sockets or awaits: each step below is one conditional      *)
(* UPDATE of crates/worker/src/service.rs seen from the table.             *)
(***************************************************************************)
EXTENDS WorkerJobRow

VARIABLE rows   \* rows[j]: the row of job j

LifecycleInit == rows = [j \in Job |-> Absent]

-----------------------------------------------------------------------------

\* Row j, if its status is one of `from`, becomes <<to, w>>.
Moves(j, from, to, w) ==
    /\ rows[j].status \in from
    /\ rows' = [rows EXCEPT ![j] = [status |-> to, worker |-> w]]

\* The INSERT of enqueue.
Create(j) == Moves(j, {"absent"}, "queued", NoWorker)

\* The job is offered to w.
Offer(j, w) == Moves(j, {"queued", "needs_worker"}, "queued", w)

\* An unclaimed offer is withdrawn.
Withdraw(j) == Moves(j, {"queued"}, "queued", NoWorker)

\* Nobody can run the job now; and somebody may again.
Park(j) == Moves(j, {"queued"}, "needs_worker", rows[j].worker)
Unpark(j) == Moves(j, {"needs_worker"}, "queued", rows[j].worker)

\* The worker the job was offered to takes it.
Claim(j) == rows[j].worker # NoWorker /\ Moves(j, {"queued"}, "claimed", rows[j].worker)

\* The server starts the job itself.
StartLocal(j) == Moves(j, {"queued"}, "running", rows[j].worker)

\* The first progress frame of a claimed job.
Report(j) == Moves(j, {"claimed", "running"}, "running", rows[j].worker)

\* The job ends; whoever held it is kept for the record.
Finish(j, to) ==
    Moves(j, {"queued", "claimed", "running"}, to, rows[j].worker)

\* An operator gives up on the job.
GiveUp(j) ==
    Moves(j, {"queued", "claimed", "running", "needs_worker"}, "failed", rows[j].worker)

LifecycleNext ==
    \E j \in Job :
        \/ Create(j)
        \/ \E w \in Worker : Offer(j, w)
        \/ Withdraw(j)
        \/ Park(j)
        \/ Unpark(j)
        \/ Claim(j)
        \/ StartLocal(j)
        \/ Report(j)
        \/ \E to \in {"done", "failed"} : Finish(j, to)
        \/ GiveUp(j)

LifecycleSpec == LifecycleInit /\ [][LifecycleNext]_rows
=============================================================================
