------------------------------ MODULE WorkerJobs ------------------------------
(***************************************************************************)
(* The server side of the remote worker queue: `WorkerJobs`                *)
(* (crates/worker/src/service.rs), its `WorkerHub` (hub.rs) and the serve  *)
(* loop of one worker socket (apps/server/src/routers/api/v2/workers.rs).  *)
(*                                                                         *)
(* Every operation is an async function on a multi-threaded runtime, so it *)
(* is modelled as a task with a program counter: one step per database     *)
(* statement, hub access, file operation or waiter-map access, and any     *)
(* other task may run in between.  Each UPDATE is guarded and atomic, as   *)
(* in the code.  The workers themselves are the environment: a connected   *)
(* device may send any frame about any job at any time, and its socket may *)
(* close at any time.  Time is abstracted: a deadline may pass whenever it *)
(* could.                                                                  *)
(***************************************************************************)
EXTENDS WorkerJobRow

CONSTANTS
    NoJob,          \* the `job` field of a task that is working on none
    Sweeper,        \* the task of start_claim_sweep
    Local,          \* jobs whose kind has a local runner in the KindRegistry
    Capable,        \* pairs <<w, j>>: w's capabilities satisfy j's `requires`
    Awaited,        \* jobs created by enqueue_and_wait; the others by enqueue
    Cancellable,    \* jobs an operator may cancel in this instance
    Uploader,       \* workers that upload bytes in this instance
    MaxSessions,    \* bound: sockets opened between two restarts
    MaxRestarts,    \* bound: server restarts
    MaxDrops        \* bound: requests whose HTTP client goes away

Session == 1 .. MaxSessions

\* The tasks that route jobs: the request that enqueued j, the serve loop of a
\* socket (while it attaches and while it detaches), and the claim sweep.
Task == Job \cup Session \cup {Sweeper}

ASSUME ConstantsAreSane ==
    /\ Worker \subseteq Nat \ {0}
    /\ Local \subseteq Job
    /\ Awaited \subseteq Job
    /\ Cancellable \subseteq Job
    /\ Uploader \subseteq Worker
    /\ Capable \subseteq Worker \X Job
    /\ MaxSessions \in Nat
    /\ MaxRestarts \in Nat
    /\ MaxDrops \in Nat
    /\ NoJob \notin Job
    /\ Job \cap Session = {}
    /\ Sweeper \notin Job \cup Session

VARIABLES
    rows,       \* the worker_jobs table
    bytes,      \* bytes[j]: a file exists at output_path(j)
    hub,        \* hub[w]: the session whose connection the hub holds for w, or 0
    epochs,     \* the hub's epoch counter; session s is the one attached at epoch s
    device,     \* device[s]: the worker whose socket session s serves, or NoWorker
    pc,         \* pc[t]: where routing task t is
    job,        \* job[t]: the job it works on
    dev,        \* dev[t]: the worker its dispatch chose
    avoid,      \* avoid[t]: the avoid_worker of its dispatch
    todo,       \* todo[t]: rows it read and has not handled, as <<id, worker_id>>
    ret,        \* ret[t]: where its dispatch returns to
    local,      \* local[j]: where the spawned local run of j is
    cancel,     \* cancel[j]: where the cancel of j is
    was,        \* was[j]: the status that cancel goes by
    upload,     \* upload[w]: the job whose upload by w was authorised and not written yet
    waiters,    \* jobs with an entry in the waiter map
    reply,      \* reply[j]: what enqueue_and_wait returned, or will return
    restarts,   \* number of restarts so far
    drops       \* number of dropped requests so far

hubvars == <<hub, epochs, device>>
taskvars == <<pc, job, dev, avoid, todo, ret>>
cancelvars == <<cancel, was>>
callvars == <<waiters, reply>>
faultvars == <<restarts, drops>>
vars == <<rows, bytes, hubvars, taskvars, local, cancelvars, upload, callvars, faultvars>>

-----------------------------------------------------------------------------
(* Tasks and types. *)

\* dispatch_avoiding, as a subroutine: `prefer` and `select` choose a worker,
\* `send` pushes the frame, `assign` writes worker_id, `fallback` is the rest.
DispatchPc == {"prefer", "select", "send", "assign", "fallback"}

\* The last stretch of `complete`: the terminal write has happened.
CompletedPc == {"drop_bytes", "wake_done", "wake_failed"}

TaskPc == DispatchPc \cup CompletedPc \cup
    {"idle",                                                \* not started
     "reread", "routed", "returned",                        \* enqueue_and_wait
     "hello", "parked", "unpark",                           \* on_worker_connected
     "serving", "claim", "progress", "validate", "write_done", "write_failed",
     "detach", "detached", "release", "closed", "refused",  \* the serve loop
     "expired"}                                             \* the claim sweep

\* Where a dispatch returns to.
Loop == {"routed", "parked", "release", "expired"}

LocalPc == {"none", "spawned", "running", "validate", "write_done", "write_failed",
            "wake_done", "wake_failed"}

CancelPc == {"idle", "send", "mark", "remove", "wake"}

Outcome == {"done", "failed", "needs_worker"}
Reply == Outcome \cup {"none", "timeout", "error"}

TypeOK ==
    /\ rows \in [Job -> Row]
    /\ bytes \in [Job -> BOOLEAN]
    /\ hub \in [Worker -> Session \cup {0}]
    /\ epochs \in 0 .. MaxSessions
    /\ device \in [Session -> Worker \cup {NoWorker}]
    /\ pc \in [Task -> TaskPc]
    /\ job \in [Task -> Job \cup {NoJob}]
    /\ dev \in [Task -> Worker \cup {NoWorker}]
    /\ avoid \in [Task -> Worker \cup {NoWorker}]
    /\ todo \in [Task -> SUBSET (Job \X (Worker \cup {NoWorker}))]
    /\ ret \in [Task -> Loop]
    /\ local \in [Job -> LocalPc]
    /\ cancel \in [Job -> CancelPc]
    /\ was \in [Job -> Status]
    /\ upload \in [Worker -> Job \cup {NoJob}]
    /\ waiters \in SUBSET Job
    /\ reply \in [Job -> Reply]
    /\ restarts \in 0 .. MaxRestarts
    /\ drops \in 0 .. MaxDrops

Init ==
    /\ rows = [j \in Job |-> Absent]
    /\ bytes = [j \in Job |-> FALSE]
    /\ hub = [w \in Worker |-> 0]
    /\ epochs = 0
    /\ device = [s \in Session |-> NoWorker]
    /\ pc = [t \in Task |-> "idle"]
    /\ job = [t \in Task |-> NoJob]
    /\ dev = [t \in Task |-> NoWorker]
    /\ avoid = [t \in Task |-> NoWorker]
    /\ todo = [t \in Task |-> {}]
    /\ ret = [t \in Task |-> "routed"]
    /\ local = [j \in Job |-> "none"]
    /\ cancel = [j \in Job |-> "idle"]
    /\ was = [j \in Job |-> "absent"]
    /\ upload = [w \in Worker |-> NoJob]
    /\ waiters = {}
    /\ reply = [j \in Job |-> "none"]
    /\ restarts = 0
    /\ drops = 0

-----------------------------------------------------------------------------
(* The building blocks: the guarded UPDATE, the hub, the waiter map. *)

\* The WHERE clause of update_status: the row exists in one of `from`.
Matches(j, from) == rows[j].status \in from

\* The SET clause.
SetRow(j, to, w) == rows' = [rows EXCEPT ![j] = [status |-> to, worker |-> w]]

\* Task t moves to p and keeps the rest of its state ...
Goto(t, p) == pc' = [pc EXCEPT ![t] = p] /\ UNCHANGED <<job, dev, avoid, todo, ret>>

\* ... or takes up job j ...
Handle(t, p, j, rest) ==
    /\ pc' = [pc EXCEPT ![t] = p]
    /\ job' = [job EXCEPT ![t] = j]
    /\ todo' = [todo EXCEPT ![t] = rest]
    /\ UNCHANGED <<dev, avoid, ret>>

\* ... or keeps only the rows it still has to handle.
Keep(t, p, rest) ==
    /\ pc' = [pc EXCEPT ![t] = p]
    /\ todo' = [todo EXCEPT ![t] = rest]
    /\ job' = [job EXCEPT ![t] = NoJob]
    /\ dev' = [dev EXCEPT ![t] = NoWorker]
    /\ avoid' = [avoid EXCEPT ![t] = NoWorker]
    /\ ret' = [ret EXCEPT ![t] = "routed"]
BackTo(t, p) == Keep(t, p, todo[t])

\* WorkerHub::connected.
connected == {w \in Worker : hub[w] # 0}

\* WorkerHub::send answers true: a connection is registered and its receiver was
\* not dropped by a serve loop that gave up while attaching.
Sendable(w) == hub[w] # 0 /\ pc[hub[w]] # "refused"

\* Connected workers that satisfy j's requirements, and the first by device id.
CapableFor(j) == {w \in connected : <<w, j>> \in Capable}
IsFirst(w, S) == w \in S /\ \A v \in S : w <= v

\* Variant: the status itself as the answer.
outcome_of_Status(st) == st

\* outcome_of, for a row whose status is st.
outcome_of(st) ==
    IF st = "done" THEN "done" ELSE IF st = "needs_worker" THEN "needs_worker" ELSE "failed"

\* wake_waiters: the entry leaves the map and its receiver, if the caller still
\* holds it, gets the outcome.
wake_waiters(j, outcome) ==
    /\ waiters' = waiters \ {j}
    /\ reply' = IF j \in waiters /\ reply[j] = "none"
                THEN [reply EXCEPT ![j] = outcome] ELSE reply

\* Variant: a terminal write that does not look at the status it leaves.
FinishFrom_Any == Status \ {"absent"}

\* Statuses the terminal write of `finish` may leave.
FinishFrom == {"queued", "claimed", "running"}

-----------------------------------------------------------------------------
(* dispatch_avoiding, run by task t for job[t]. *)

\* Task t starts to dispatch j and returns to `back` with `rest` left to handle.
Dispatch(t, j, a, rest, back) ==
    /\ pc' = [pc EXCEPT ![t] = IF a = NoWorker THEN "select" ELSE "prefer"]
    /\ job' = [job EXCEPT ![t] = j]
    /\ dev' = [dev EXCEPT ![t] = NoWorker]
    /\ avoid' = [avoid EXCEPT ![t] = a]
    /\ todo' = [todo EXCEPT ![t] = rest]
    /\ ret' = [ret EXCEPT ![t] = back]

\* It chose the first of the able workers, or there is none and it goes to p.
Choose(t, able, p) ==
    \/ /\ pc' = [pc EXCEPT ![t] = "send"]
       /\ \E w \in Worker : IsFirst(w, able) /\ dev' = [dev EXCEPT ![t] = w]
       /\ UNCHANGED <<job, avoid, todo, ret>>
    \/ able = {} /\ Goto(t, p)

\* After a withdrawn offer: another capable worker first.
Prefer(t) ==
    /\ pc[t] = "prefer"
    /\ Choose(t, CapableFor(job[t]) \ {avoid[t]}, "select")
    /\ UNCHANGED <<rows, bytes, hubvars, local, cancelvars, upload, callvars, faultvars>>

\* Variant: no fallback, wait for a worker.
Select_Waits(t) ==
    /\ pc[t] = "select"
    /\ CapableFor(job[t]) # {}
    /\ Choose(t, CapableFor(job[t]), "fallback")
    /\ UNCHANGED <<rows, bytes, hubvars, local, cancelvars, upload, callvars, faultvars>>

\* WorkerHub::capable_worker.
Select(t) ==
    /\ pc[t] = "select"
    /\ Choose(t, CapableFor(job[t]), "fallback")
    /\ UNCHANGED <<rows, bytes, hubvars, local, cancelvars, upload, callvars, faultvars>>

\* offer, first half: the frame leaves before the row is assigned.
Send(t) ==
    /\ pc[t] = "send"
    /\ Goto(t, IF Sendable(dev[t]) THEN "assign" ELSE "fallback")
    /\ UNCHANGED <<rows, bytes, hubvars, local, cancelvars, upload, callvars, faultvars>>

\* offer, second half: the guarded UPDATE that records the assignment.
Assign(t) ==
    /\ pc[t] = "assign"
    /\ \/ /\ Matches(job[t], {"queued", "needs_worker"})
          /\ SetRow(job[t], "queued", dev[t])
          /\ BackTo(t, ret[t])
       \/ /\ ~ Matches(job[t], {"queued", "needs_worker"})
          /\ Goto(t, "fallback")
          /\ UNCHANGED rows
    /\ UNCHANGED <<bytes, hubvars, local, cancelvars, upload, callvars, faultvars>>

\* Where an error of dispatch leaves its caller: `?` ends the whole operation.
AbortTo(back) ==
    IF back = "routed" THEN "returned"
    ELSE IF back = "parked" THEN "refused"
    ELSE IF back = "release" THEN "closed" ELSE "idle"

\* No worker took the job: spawn the local runner, or park the row.  A park that
\* finds the row gone from `queued` is WorkerError::NotFound.  A second spawned
\* run is not kept: of two that are spawned the first UPDATE to `running` wins,
\* and one spawned later finds the row out of `queued` and returns.
Fallback(t) ==
    LET j == job[t]
    IN  /\ pc[t] = "fallback"
        /\ \/ /\ j \in Local
              /\ local' = IF local[j] = "none" THEN [local EXCEPT ![j] = "spawned"]
                          ELSE local
              /\ BackTo(t, ret[t])
              /\ UNCHANGED <<rows, reply>>
           \/ /\ j \notin Local
              /\ Matches(j, {"queued"})
              /\ SetRow(j, "needs_worker", rows[j].worker)
              /\ BackTo(t, IF ret[t] = "routed" THEN "reread" ELSE ret[t])
              /\ UNCHANGED <<local, reply>>
           \/ /\ j \notin Local
              /\ ~ Matches(j, {"queued"})
              /\ Keep(t, AbortTo(ret[t]), {})
              /\ reply' = IF ret[t] = "routed" THEN [reply EXCEPT ![j] = "error"]
                          ELSE reply
              /\ UNCHANGED <<rows, local>>
        /\ UNCHANGED <<bytes, hubvars, cancelvars, upload, waiters, faultvars>>

DispatchStep(t) == Prefer(t) \/ Select(t) \/ Send(t) \/ Assign(t) \/ Fallback(t)

-----------------------------------------------------------------------------
(* enqueue and enqueue_and_wait. *)

\* The INSERT.  enqueue_and_wait registers its waiter first, under an id nobody
\* else knows before the INSERT, so the two are one step.
Enqueue(j) ==
    /\ rows[j].status = "absent"
    /\ pc[j] = "idle"
    /\ SetRow(j, "queued", NoWorker)
    /\ waiters' = waiters \cup (Awaited \cap {j})
    /\ Dispatch(j, j, NoWorker, {}, "routed")
    /\ UNCHANGED <<bytes, hubvars, local, cancelvars, upload, reply, faultvars>>

\* update_status reads the row back after parking it; only a row that is still
\* parked makes enqueue_and_wait give up at once.
Reread(j) ==
    /\ pc[j] = "reread"
    /\ IF rows[j].status = "needs_worker"
       THEN /\ Goto(j, "returned")
            /\ reply' = [reply EXCEPT ![j] = "needs_worker"]
            /\ waiters' = waiters \ {j}
       ELSE Goto(j, "routed") /\ UNCHANGED callvars
    /\ UNCHANGED <<rows, bytes, hubvars, local, cancelvars, upload, faultvars>>

\* The caller's timeout.
Timeout(j) ==
    /\ pc[j] = "routed"
    /\ j \in waiters
    /\ Goto(j, "returned")
    /\ waiters' = waiters \ {j}
    /\ reply' = [reply EXCEPT ![j] = "timeout"]
    /\ UNCHANGED <<rows, bytes, hubvars, local, cancelvars, upload, faultvars>>

\* The HTTP client of the request goes away and the runtime drops the handler's
\* future at the await it is suspended on: nothing after it runs.
Abandon(j) ==
    /\ drops < MaxDrops
    /\ drops' = drops + 1
    /\ pc[j] \in DispatchPc \cup {"reread", "routed"}
    /\ BackTo(j, "returned")
    /\ reply' = [reply EXCEPT ![j] = "error"]
    /\ UNCHANGED <<rows, bytes, hubvars, local, cancelvars, upload, waiters, restarts>>

-----------------------------------------------------------------------------
(* The serve loop of session s: attach, frames, detach. *)

\* attach_worker up to the registration; a second hello of the same device
\* replaces the first connection.  The frames on_worker_connected re-sends for
\* rows the device still holds change nothing on the server.
Attach(w) ==
    LET s == epochs + 1
    IN  /\ epochs < MaxSessions
        /\ epochs' = s
        /\ hub' = [hub EXCEPT ![w] = s]
        /\ device' = [device EXCEPT ![s] = w]
        /\ Goto(s, "hello")
        /\ UNCHANGED <<rows, bytes, local, cancelvars, upload, callvars, faultvars>>

\* on_worker_connected reads the parked rows ...
ReadParked(s) ==
    /\ pc[s] = "hello"
    /\ Keep(s, "parked", {<<j, rows[j].worker>> : j \in
                              {i \in Job : rows[i].status = "needs_worker"}})
    /\ UNCHANGED <<rows, bytes, hubvars, local, cancelvars, upload, callvars, faultvars>>

\* ... skips those no connected worker can run, and when none is left serves.
NextParked(s) ==
    /\ pc[s] = "parked"
    /\ \/ \E r \in todo[s] :
            \/ CapableFor(r[1]) = {} /\ Keep(s, "parked", todo[s] \ {r})
            \/ /\ CapableFor(r[1]) # {}
               /\ Handle(s, "unpark", r[1], todo[s] \ {r})
       \/ todo[s] = {} /\ Goto(s, "serving")
    /\ UNCHANGED <<rows, bytes, hubvars, local, cancelvars, upload, callvars, faultvars>>

\* The guarded UPDATE back to `queued`, then dispatch.
Unpark(s) ==
    LET j == job[s]
    IN  /\ pc[s] = "unpark"
        /\ \/ /\ Matches(j, {"needs_worker"})
              /\ SetRow(j, "queued", rows[j].worker)
              /\ Dispatch(s, j, NoWorker, todo[s], "parked")
           \/ /\ ~ Matches(j, {"needs_worker"})
              /\ BackTo(s, "parked")
              /\ UNCHANGED rows
        /\ UNCHANGED <<bytes, hubvars, local, cancelvars, upload, callvars, faultvars>>

\* A frame arrives and assert_holder passes.  A frame from a device that does
\* not hold the job changes nothing and has no step.
Frame(s, kind, j) ==
    /\ pc[s] = "serving"
    /\ rows[j].status # "absent"
    /\ rows[j].worker = device[s]
    /\ Handle(s, kind, j, {})
    /\ UNCHANGED <<rows, bytes, hubvars, local, cancelvars, upload, callvars, faultvars>>

FrameKind == {"claim", "progress", "validate", "write_failed"}

\* `claim`: the UPDATE repeats the holder in its guard.
ApplyClaim(s) ==
    LET j == job[s]
    IN  /\ pc[s] = "claim"
        /\ IF Matches(j, {"queued"}) /\ rows[j].worker = device[s]
           THEN SetRow(j, "claimed", rows[j].worker) ELSE UNCHANGED rows
        /\ BackTo(s, "serving")
        /\ UNCHANGED <<bytes, hubvars, local, cancelvars, upload, callvars, faultvars>>

\* `progress`: the UPDATE is guarded by the status alone.
ApplyProgress(s) ==
    LET j == job[s]
    IN  /\ pc[s] = "progress"
        /\ IF Matches(j, {"claimed", "running"})
           THEN SetRow(j, "running", rows[j].worker) ELSE UNCHANGED rows
        /\ BackTo(s, "serving")
        /\ UNCHANGED <<bytes, hubvars, local, cancelvars, upload, callvars, faultvars>>

\* `result`: the validator's read and verdict.
Validate(s) ==
    /\ pc[s] = "validate"
    /\ \/ ~ Matches(job[s], FinishFrom) /\ BackTo(s, "serving")
       \/ /\ Matches(job[s], FinishFrom)
          /\ \E verdict \in {"write_done", "write_failed"} : Goto(s, verdict)
    /\ UNCHANGED <<rows, bytes, hubvars, local, cancelvars, upload, callvars, faultvars>>

\* `result` and `fail`: the terminal write of finish.
Complete(s) ==
    LET j == job[s]
        done == pc[s] = "write_done"
    IN  /\ pc[s] \in {"write_done", "write_failed"}
        /\ \/ /\ Matches(j, FinishFrom)
              /\ SetRow(j, IF done THEN "done" ELSE "failed", rows[j].worker)
              /\ Goto(s, IF done THEN "wake_done" ELSE "drop_bytes")
           \/ /\ ~ Matches(j, FinishFrom)
              /\ BackTo(s, "serving")
              /\ UNCHANGED rows
        /\ UNCHANGED <<bytes, hubvars, local, cancelvars, upload, callvars, faultvars>>

\* Variant: a failed job wakes nobody.
DropBytes_Silent(s) ==
    /\ pc[s] = "drop_bytes"
    /\ bytes' = [bytes EXCEPT ![job[s]] = FALSE]
    /\ BackTo(s, "serving")
    /\ UNCHANGED <<rows, hubvars, local, cancelvars, upload, callvars, faultvars>>

\* complete removes what a failed job uploaded, then wakes.
DropBytes(s) ==
    /\ pc[s] = "drop_bytes"
    /\ bytes' = [bytes EXCEPT ![job[s]] = FALSE]
    /\ Goto(s, "wake_failed")
    /\ UNCHANGED <<rows, hubvars, local, cancelvars, upload, callvars, faultvars>>

WakeAfterFrame(s) ==
    /\ pc[s] \in {"wake_done", "wake_failed"}
    /\ wake_waiters(job[s], IF pc[s] = "wake_done" THEN "done" ELSE "failed")
    /\ BackTo(s, "serving")
    /\ UNCHANGED <<rows, bytes, hubvars, local, cancelvars, upload, faultvars>>

\* The loop ends: the socket closed, the connection was replaced, or the
\* credential stopped being live.
EndServe(s) ==
    /\ pc[s] = "serving"
    /\ Goto(s, "detach")
    /\ UNCHANGED <<rows, bytes, hubvars, local, cancelvars, upload, callvars, faultvars>>

\* Variant: detach by device alone.
Detach_AnyEpoch(s) ==
    /\ pc[s] = "detach"
    /\ hub' = [hub EXCEPT ![device[s]] = 0]
    /\ Goto(s, "detached")
    /\ UNCHANGED <<rows, bytes, epochs, device, local, cancelvars, upload, callvars, faultvars>>

\* WorkerHub::detach: only the connection of this epoch is removed.
Detach(s) ==
    /\ pc[s] = "detach"
    /\ IF hub[device[s]] = s
       THEN hub' = [hub EXCEPT ![device[s]] = 0] /\ Goto(s, "detached")
       ELSE Goto(s, "closed") /\ UNCHANGED hub
    /\ UNCHANGED <<rows, bytes, epochs, device, local, cancelvars, upload, callvars, faultvars>>

\* on_worker_disconnected reads the device's unclaimed offers ...
ReadUnclaimed(s) ==
    /\ pc[s] = "detached"
    /\ Keep(s, "release", {<<j, rows[j].worker>> : j \in
                {i \in Job : rows[i] = [status |-> "queued", worker |-> device[s]]}})
    /\ UNCHANGED <<rows, bytes, hubvars, local, cancelvars, upload, callvars, faultvars>>

\* Variant: the withdrawal takes back started work too.
Release_Started(s) ==
    /\ pc[s] = "release"
    /\ \/ \E r \in todo[s] :
            /\ SetRow(r[1], "queued", NoWorker)
            /\ Dispatch(s, r[1], NoWorker, todo[s] \ {r}, "release")
       \/ /\ todo[s] = {}
          /\ Goto(s, "closed")
          /\ UNCHANGED rows
    /\ UNCHANGED <<bytes, hubvars, local, cancelvars, upload, callvars, faultvars>>

\* ... and withdraws and dispatches them one by one.  The UPDATE is guarded by
\* the status alone.
Release(s) ==
    /\ pc[s] = "release"
    /\ \/ \E r \in todo[s] :
            IF Matches(r[1], {"queued"})
            THEN /\ SetRow(r[1], "queued", NoWorker)
                 /\ Dispatch(s, r[1], NoWorker, todo[s] \ {r}, "release")
            ELSE /\ Keep(s, "release", todo[s] \ {r})
                 /\ UNCHANGED rows
       \/ /\ todo[s] = {}
          /\ Goto(s, "closed")
          /\ UNCHANGED rows
    /\ UNCHANGED <<bytes, hubvars, local, cancelvars, upload, callvars, faultvars>>

\* The steps a serve loop takes by itself once it has something to do.
ServeStep(s) ==
    \/ ReadParked(s) \/ NextParked(s) \/ Unpark(s)
    \/ ApplyClaim(s) \/ ApplyProgress(s) \/ Validate(s) \/ Complete(s)
    \/ DropBytes(s) \/ WakeAfterFrame(s)
    \/ Detach(s) \/ ReadUnclaimed(s) \/ Release(s)

-----------------------------------------------------------------------------
(* sweep_claim_deadlines. *)

\* Variant: only offers to connected workers expire.
ReadExpired_Connected ==
    LET offered == {<<j, rows[j].worker>> : j \in
                      {i \in Job : rows[i].status = "queued" /\ rows[i].worker \in connected}}
    IN  /\ pc[Sweeper] = "idle"
        /\ \E late \in SUBSET offered \ {{}} :
             Keep(Sweeper, "expired", late)
        /\ UNCHANGED <<rows, bytes, hubvars, local, cancelvars, upload, callvars, faultvars>>

\* The offers it reads are those unclaimed for longer than the deadline: any
\* of the unclaimed ones.
ReadExpired ==
    LET offered == {<<j, rows[j].worker>> : j \in
                      {i \in Job : rows[i].status = "queued" /\ rows[i].worker # NoWorker}}
    IN  /\ pc[Sweeper] = "idle"
        /\ \E late \in SUBSET offered \ {{}} :
             Keep(Sweeper, "expired", late)
        /\ UNCHANGED <<rows, bytes, hubvars, local, cancelvars, upload, callvars, faultvars>>

\* Variant: the offer is withdrawn and the row left for somebody else to find.
Expire_Forgets ==
    /\ pc[Sweeper] = "expired"
    /\ \/ \E r \in todo[Sweeper] :
            /\ IF rows[r[1]] = [status |-> "queued", worker |-> r[2]]
               THEN SetRow(r[1], "queued", NoWorker) ELSE UNCHANGED rows
            /\ Keep(Sweeper, "expired", todo[Sweeper] \ {r})
       \/ /\ todo[Sweeper] = {}
          /\ Goto(Sweeper, "idle")
          /\ UNCHANGED rows
    /\ UNCHANGED <<bytes, hubvars, local, cancelvars, upload, callvars, faultvars>>

\* The UPDATE repeats the holder the sweep read, so a claim or a new offer in
\* between wins.
Expire ==
    /\ pc[Sweeper] = "expired"
    /\ \/ \E r \in todo[Sweeper] :
            IF rows[r[1]] = [status |-> "queued", worker |-> r[2]]
            THEN /\ SetRow(r[1], "queued", NoWorker)
                 /\ Dispatch(Sweeper, r[1], r[2], todo[Sweeper] \ {r}, "expired")
            ELSE /\ Keep(Sweeper, "expired", todo[Sweeper] \ {r})
                 /\ UNCHANGED rows
       \/ /\ todo[Sweeper] = {}
          /\ Goto(Sweeper, "idle")
          /\ UNCHANGED rows
    /\ UNCHANGED <<bytes, hubvars, local, cancelvars, upload, callvars, faultvars>>

-----------------------------------------------------------------------------
(* cancel. *)

\* The read; a terminal row is returned as it is.
Cancel(j) ==
    /\ j \in Cancellable
    /\ cancel[j] = "idle"
    /\ rows[j].status # "absent"
    /\ ~ is_terminal(rows[j].status)
    /\ cancel' = [cancel EXCEPT ![j] = "send"]
    /\ was' = [was EXCEPT ![j] = rows[j].status]
    /\ UNCHANGED <<rows, bytes, hubvars, taskvars, local, upload, callvars, faultvars>>

\* The cancel frame to the holder that was read.  It changes nothing here.
CancelSend(j) ==
    /\ cancel[j] = "send"
    /\ cancel' = [cancel EXCEPT ![j] = "mark"] /\ UNCHANGED was
    /\ UNCHANGED <<rows, bytes, hubvars, taskvars, local, upload, callvars, faultvars>>

\* Variant: the UPDATE does not repeat the status.
CancelMark_Unguarded(j) ==
    /\ cancel[j] = "mark"
    /\ SetRow(j, "failed", rows[j].worker)
    /\ cancel' = [cancel EXCEPT ![j] = "remove"] /\ was' = [was EXCEPT ![j] = "failed"]
    /\ UNCHANGED <<bytes, hubvars, taskvars, local, upload, callvars, faultvars>>

\* The UPDATE; when it misses, cancel keeps the row it read first.
CancelMark(j) ==
    /\ cancel[j] = "mark"
    /\ IF rows[j].status # "absent" /\ ~ is_terminal(rows[j].status)
       THEN /\ SetRow(j, "failed", rows[j].worker)
            /\ cancel' = [cancel EXCEPT ![j] = "remove"] /\ was' = [was EXCEPT ![j] = "failed"]
       ELSE /\ cancel' = [cancel EXCEPT ![j] = "remove"]
            /\ UNCHANGED <<rows, was>>
    /\ UNCHANGED <<bytes, hubvars, taskvars, local, upload, callvars, faultvars>>

CancelRemove(j) ==
    /\ cancel[j] = "remove"
    /\ bytes' = [bytes EXCEPT ![j] = FALSE]
    /\ cancel' = [cancel EXCEPT ![j] = "wake"] /\ UNCHANGED was
    /\ UNCHANGED <<rows, hubvars, taskvars, local, upload, callvars, faultvars>>

CancelWake(j) ==
    /\ cancel[j] = "wake"
    /\ wake_waiters(j, outcome_of(was[j]))
    /\ cancel' = [cancel EXCEPT ![j] = "idle"]
    /\ was' = [was EXCEPT ![j] = "absent"]
    /\ UNCHANGED <<rows, bytes, hubvars, taskvars, local, upload, faultvars>>

\* The operator's HTTP client goes away and the mutation's future is dropped.
AbandonCancel(j) ==
    /\ drops < MaxDrops
    /\ drops' = drops + 1
    /\ cancel[j] # "idle"
    /\ cancel' = [cancel EXCEPT ![j] = "idle"]
    /\ was' = [was EXCEPT ![j] = "absent"]
    /\ UNCHANGED <<rows, bytes, hubvars, taskvars, local, upload, callvars, restarts>>

CancelStep(j) == CancelSend(j) \/ CancelMark(j) \/ CancelRemove(j) \/ CancelWake(j)

-----------------------------------------------------------------------------
(* The task run_locally spawns. *)

LocalGoto(j, p) == local' = [local EXCEPT ![j] = p]

\* The guarded UPDATE to `running`; a row that moved on ends the task.
LocalStart(j) ==
    /\ local[j] = "spawned"
    /\ \/ /\ Matches(j, {"queued"})
          /\ SetRow(j, "running", rows[j].worker)
          /\ LocalGoto(j, "running")
       \/ /\ ~ Matches(j, {"queued"})
          /\ LocalGoto(j, "none")
          /\ UNCHANGED rows
    /\ UNCHANGED <<bytes, hubvars, taskvars, cancelvars, upload, callvars, faultvars>>

\* The runner leaves its bytes at output_path, or fails with or without them.
LocalRun(j) ==
    /\ local[j] = "running"
    /\ \/ LocalGoto(j, "validate") /\ bytes' = [bytes EXCEPT ![j] = TRUE]
       \/ LocalGoto(j, "write_failed") /\ \E b \in {bytes[j], TRUE} :
                                             bytes' = [bytes EXCEPT ![j] = b]
    /\ UNCHANGED <<rows, hubvars, taskvars, cancelvars, upload, callvars, faultvars>>

\* Variant: a rejected result ends the task without a write.
LocalValidate_Drops(j) ==
    /\ local[j] = "validate"
    /\ \/ LocalGoto(j, "none")
       \/ Matches(j, FinishFrom) /\ LocalGoto(j, "write_done")
    /\ UNCHANGED <<rows, bytes, hubvars, taskvars, cancelvars, upload, callvars, faultvars>>

\* The validator's read and verdict.
LocalValidate(j) ==
    /\ local[j] = "validate"
    /\ \/ ~ Matches(j, FinishFrom) /\ LocalGoto(j, "none")
       \/ /\ Matches(j, FinishFrom)
          /\ \E verdict \in {"write_done", "write_failed"} : LocalGoto(j, verdict)
    /\ UNCHANGED <<rows, bytes, hubvars, taskvars, cancelvars, upload, callvars, faultvars>>

\* Variant: a failed local run wakes nobody.
LocalFinish_Silent(j) ==
    LET done == local[j] = "write_done"
    IN  /\ local[j] \in {"write_done", "write_failed"}
        /\ IF Matches(j, FinishFrom)
           THEN SetRow(j, IF done THEN "done" ELSE "failed", rows[j].worker)
           ELSE UNCHANGED rows
        /\ LocalGoto(j, IF done /\ Matches(j, FinishFrom) THEN "wake_done" ELSE "none")
        /\ UNCHANGED <<bytes, hubvars, taskvars, cancelvars, upload, callvars, faultvars>>

\* The terminal write of finish; a run that lost it wakes nobody.
LocalFinish(j) ==
    LET done == local[j] = "write_done"
    IN  /\ local[j] \in {"write_done", "write_failed"}
        /\ \/ /\ Matches(j, FinishFrom)
              /\ SetRow(j, IF done THEN "done" ELSE "failed", rows[j].worker)
              /\ LocalGoto(j, IF done THEN "wake_done" ELSE "wake_failed")
           \/ /\ ~ Matches(j, FinishFrom)
              /\ LocalGoto(j, "none")
              /\ UNCHANGED rows
        /\ UNCHANGED <<bytes, hubvars, taskvars, cancelvars, upload, callvars, faultvars>>

LocalWake(j) ==
    /\ local[j] \in {"wake_done", "wake_failed"}
    /\ wake_waiters(j, IF local[j] = "wake_done" THEN "done" ELSE "failed")
    /\ LocalGoto(j, "none")
    /\ UNCHANGED <<rows, bytes, hubvars, taskvars, cancelvars, upload, faultvars>>

LocalStep(j) ==
    LocalStart(j) \/ LocalRun(j) \/ LocalValidate(j) \/ LocalFinish(j) \/ LocalWake(j)

-----------------------------------------------------------------------------
(* upload_output. *)

\* upload_path: the assignment is the authorisation.
Authorise(w, j) ==
    /\ w \in Uploader
    /\ upload[w] = NoJob
    /\ rows[j].worker = w
    /\ is_assigned(rows[j].status)
    /\ upload' = [upload EXCEPT ![w] = j]
    /\ UNCHANGED <<rows, bytes, hubvars, taskvars, local, cancelvars, callvars, faultvars>>

\* The staged file is renamed to output_path; or the digest does not match.
Publish(w) ==
    /\ upload[w] # NoJob
    /\ bytes' \in {bytes, [bytes EXCEPT ![upload[w]] = TRUE]}
    /\ upload' = [upload EXCEPT ![w] = NoJob]
    /\ UNCHANGED <<rows, hubvars, taskvars, local, cancelvars, callvars, faultvars>>

-----------------------------------------------------------------------------
(* The process dies and comes back: the table and the files are what is left. *)

Restart ==
    /\ restarts < MaxRestarts
    /\ restarts' = restarts + 1
    /\ hub' = [w \in Worker |-> 0]
    /\ epochs' = 0
    /\ device' = [s \in Session |-> NoWorker]
    /\ pc' = [t \in Task |-> "idle"]
    /\ job' = [t \in Task |-> NoJob]
    /\ dev' = [t \in Task |-> NoWorker]
    /\ avoid' = [t \in Task |-> NoWorker]
    /\ todo' = [t \in Task |-> {}]
    /\ ret' = [t \in Task |-> "routed"]
    /\ local' = [j \in Job |-> "none"]
    /\ cancel' = [j \in Job |-> "idle"]
    /\ was' = [j \in Job |-> "absent"]
    /\ upload' = [w \in Worker |-> NoJob]
    /\ waiters' = {}
    /\ UNCHANGED <<rows, bytes, reply, drops>>

-----------------------------------------------------------------------------

Next ==
    \/ \E t \in Task : DispatchStep(t)
    \/ \E j \in Job : \/ Enqueue(j) \/ Reread(j) \/ Timeout(j) \/ Abandon(j)
                      \/ Cancel(j) \/ CancelStep(j) \/ AbandonCancel(j)
                      \/ LocalStep(j)
    \/ \E w \in Worker : \/ Attach(w)
                         \/ \E j \in Job : Authorise(w, j)
                         \/ Publish(w)
    \/ \E s \in Session : \/ ServeStep(s) \/ EndServe(s)
                          \/ \E kind \in FrameKind, j \in Job : Frame(s, kind, j)
    \/ ReadExpired
    \/ Expire
    \/ Restart

Spec == Init /\ [][Next]_vars

\* The runtime polls every woken task, and the sweep's interval keeps ticking, so
\* an offer that stays unclaimed is read sooner or later.  Nothing is owed to
\* operators, clients and sockets: enqueueing, cancelling, timeouts, frames,
\* connections and restarts are not fair.
Fairness ==
    /\ \A t \in Task : WF_vars(DispatchStep(t))
    /\ \A j \in Job : /\ WF_vars(Reread(j)) /\ WF_vars(CancelStep(j)) /\ WF_vars(LocalStep(j))
                      /\ SF_vars(ReadExpired /\ \E r \in todo'[Sweeper] : r[1] = j)
    /\ \A s \in Session : WF_vars(ServeStep(s))
    /\ WF_vars(Expire)

FairSpec == Spec /\ Fairness

-----------------------------------------------------------------------------
(* Properties. *)

\* Task t is between taking job j and handing it to a worker, the local runner
\* or the parking lot.
Dispatching(t, j) == pc[t] \in DispatchPc /\ job[t] = j

LocalActive(j) == local[j] \in {"running", "validate", "write_done", "write_failed"}

\* Somebody is responsible for row j.
Owned(j) ==
    /\ rows[j] = [status |-> "queued", worker |-> NoWorker]
          => local[j] = "spawned" \/ \E t \in Task : Dispatching(t, j)
    /\ rows[j].status = "claimed" => rows[j].worker # NoWorker
    /\ rows[j].status = "running" => rows[j].worker # NoWorker \/ LocalActive(j)

\* No live row is nobody's business.  An unassigned `queued` row is being
\* dispatched or waits for a spawned local run, a `claimed` row has a holder,
\* and a `running` row has a holder or a local run.  The withdrawals of the
\* sweep and of a disconnect, and dispatches that cross them, all keep this:
\* whoever NULLs worker_id routes the row again.  (A restart or a dropped request
\* forfeits it: nothing re-reads unassigned rows.)
NoJobIsStranded == restarts = 0 /\ drops = 0 => \A j \in Job : Owned(j)

\* At most one runner: the guarded UPDATE of the spawned task and the claim of a
\* worker both leave `queued`, so a row with a local run underway was never
\* claimed and is never put back on the queue.
SingleRunner ==
    \A j \in Job : LocalActive(j) => rows[j].status \in {"running", "done", "failed"}

\* Somebody is about to call wake_waiters for job j.
Waking(j) ==
    \/ \E s \in Session : pc[s] \in CompletedPc /\ job[s] = j
    \/ local[j] \in {"wake_done", "wake_failed"}
    \/ cancel[j] \in {"remove", "wake"}

\* No caller is forgotten: while enqueue_and_wait has an entry in the waiter map
\* the row is not terminal, or the task that made it terminal has yet to call
\* wake_waiters.  It holds across restarts; only a cancel dropped half way breaks it.
NoWaiterIsForgotten ==
    drops = 0 => \A j \in waiters : is_terminal(rows[j].status) => Waking(j)

\* A session the hub still owes its frames to.
Attached(s) == pc[s] \notin {"idle", "detached", "release", "closed"}
                 /\ ~ (Dispatching(s, job[s]) /\ ret[s] = "release")

\* One device, one connection: the newest socket of a device stays registered
\* until it detaches itself, whatever older sockets of the device do.
NewestSocketIsRegistered ==
    \A s \in Session :
        Attached(s) /\ (\A r \in Session : r > s => device[r] # device[s])
            => hub[device[s]] = s

\* Every move of a row is one the lifecycle allows: terminal rows are final, a
\* claimed row keeps its holder, only an offered row can be claimed.
Lifecycle == INSTANCE WorkerJobLifecycle
ImplementsLifecycle == Lifecycle!LifecycleSpec

\* An unassigned queued job is eventually offered, run here, parked or ended.
UnassignedIsRouted ==
    \A j \in Job :
        rows[j] = [status |-> "queued", worker |-> NoWorker]
            ~> rows[j] # [status |-> "queued", worker |-> NoWorker]

\* The caller that awaits a job that ended learns it without its timeout.
EndedJobFreesItsCaller ==
    \A j \in Job :
        j \in waiters /\ is_terminal(rows[j].status) ~> j \notin waiters

\* An offer does not stay with a worker that is gone: either the disconnect or,
\* when the assignment was written after the disconnect read the table, the
\* claim sweep takes it back.
OfferLeavesAbsentWorker ==
    \A j \in Job, w \in Worker :
        rows[j] = [status |-> "queued", worker |-> w] /\ hub[w] = 0
            ~> rows[j] # [status |-> "queued", worker |-> w] \/ hub[w] # 0

-----------------------------------------------------------------------------
(* What the documentation says and the code does not keep. *)

Settled(t) == pc[t] \in {"idle", "routed", "returned", "serving", "closed"}

\* WorkerJobStatus::NeedsWorker: "No connected worker advertises what this job
\* needs".  A worker that attaches between the selection and the park is missed.
ParkedMeansNobodyCan ==
    (\A t \in Task : Settled(t)) =>
        \A j \in Job : rows[j].status = "needs_worker" => CapableFor(j) = {}

\* JobOutcome::Done: "its bytes, if any, are at `output_path`".  A cancel that lost
\* the race to a result removes them all the same.
DoneKeepsItsBytes ==
    [][\A j \in Job : rows[j].status = "done" /\ bytes[j] => bytes'[j]]_vars

\* WorkerHub: "The set of workers currently holding a socket."
HubHoldsSockets == \A w \in Worker : hub[w] # 0 => pc[hub[w]] # "refused"
=============================================================================
