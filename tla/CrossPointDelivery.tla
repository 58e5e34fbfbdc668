-------------------------- MODULE CrossPointDelivery --------------------------
(***************************************************************************)
(* The durable CrossPoint delivery queue (core/src/crosspoint_delivery/     *)
(* service.rs): queue rows and attempt rows in the database, one polling    *)
(* loop that spawns a worker task per due row, one permit per device, the   *)
(* upload to the device, database errors at every query of a worker, a user *)
(* who sends, retries and cancels, and a process that dies and recovers.    *)
(*                                                                         *)
(* A row stands for one idempotency key: sending the same book again finds  *)
(* the row that is there (OnConflict::do_nothing) and changes nothing.      *)
(***************************************************************************)
EXTENDS Naturals, Sequences, Functions

CONSTANTS
  Rows,         \* the deliveries (idempotency keys)
  Devices,
  MaxTasks,     \* worker tasks alive at once (a bound on detached ones)
  MaxDue,       \* MAX_DUE_ROWS, rows one poll takes
  MaxAttempts,  \* the row's max_attempts: one attempt and its retries
  MaxRetries,   \* bound on the user's retries of one row
  MaxFaults,    \* bound on the database errors
  MaxCrashes    \* bound on the restarts of the process

ASSUME DeliveryAssumption ==
  /\ MaxTasks \in Nat \ {0} /\ MaxDue \in Nat \ {0} /\ MaxAttempts \in Nat \ {0}
  /\ MaxRetries \in Nat /\ MaxFaults \in Nat /\ MaxCrashes \in Nat

VARIABLES
  device,   \* device[r]: the target of the row, fixed when it was sent
  row,      \* row[r]: status, attempts, later (next_attempt_at is to come)
  queued,   \* rows in the order of queued_at
  log,      \* log[r]: the attempt rows, oldest first
  stored,   \* rows whose file is complete on the device (external)
  task,     \* the spawned workers
  gate,     \* gate[d]: the task holding the device's permit, or Nobody
  poll,     \* the polling loop: where it is, and what it still has to do
  retries,  \* retries[r]: times the user asked to retry
  faults,   \* database errors so far
  crashes   \* restarts so far

vars == <<device, row, queued, log, stored, task, gate, poll, retries, faults, crashes>>
store == <<queued, log, stored>>
past == <<device, retries, faults, crashes>>

Tasks == 1..MaxTasks
Nobody == 0
InFlight == {"Preparing", "Transferring"}
Terminal == {"Completed", "Failed", "Cancelled"}
Statuses == {"Absent", "Queued"} \cup InFlight \cup Terminal
Steps == {"gate", "read", "claim", "insert", "prepare", "mark", "upload",
          "finish", "write"}
Owning == Steps \ {"gate", "read", "claim"}
Entry(status, attempts, later) ==
  [status |-> status, attempts |-> attempts, later |-> later]
Free == [pc |-> "free"]
Over(err) == [pc |-> "over", err |-> err]
Working(pc, r, res) == [pc |-> pc, row |-> r, res |-> res]
PollAt(pc, rows, tasks) == [pc |-> pc, rows |-> rows, tasks |-> tasks]

TypeOK ==
  /\ device \in [Rows -> Devices]
  /\ row \in [Rows -> [status : Statuses, attempts : 0..(MaxAttempts + MaxRetries),
                       later : BOOLEAN]]
  /\ queued \in Seq(Rows) /\ IsInjective(queued)
  /\ Range(queued) = {r \in Rows : row[r].status # "Absent"}
  /\ \A r \in Rows : log[r] \in Seq([no : 1..(MaxAttempts + MaxRetries),
                                     status : {"Preparing", "Completed", "Failed"}])
  /\ stored \subseteq Rows
  /\ \A t \in Tasks : \/ task[t] = Free
                      \/ \E e \in BOOLEAN : task[t] = Over(e)
                      \/ /\ task[t].pc \in Steps /\ task[t].row \in Rows
                         /\ task[t].res \in {"none", "ok", "retryable", "final"}
  /\ gate \in [Devices -> Tasks \cup {Nobody}]
  /\ poll.pc \in {"boot", "recover", "poll", "await"}
  /\ poll.rows \subseteq Rows /\ poll.tasks \in Seq(Tasks)
  /\ retries \in [Rows -> 0..MaxRetries]
  /\ faults \in 0..MaxFaults /\ crashes \in 0..MaxCrashes

Init ==
  /\ device \in [Rows -> Devices]
  /\ row = [r \in Rows |-> Entry("Absent", 0, FALSE)]
  /\ queued = <<>>
  /\ log = [r \in Rows |-> <<>>]
  /\ stored = {}
  /\ task = [t \in Tasks |-> Free]
  /\ gate = [d \in Devices |-> Nobody]
  /\ poll = PollAt("boot", {}, <<>>)
  /\ retries = [r \in Rows |-> 0]
  /\ faults = 0 /\ crashes = 0

-------------------------------------------------------------------------------
(* What the user does (the GraphQL mutations call these). *)

\* enqueue_for_media: the target is verified and the source readable; an
\* existing row with the same idempotency key is returned as it is.
Enqueue(r) ==
  /\ row[r].status = "Absent"
  /\ row' = [row EXCEPT ![r] = Entry("Queued", 0, FALSE)]
  /\ queued' = Append(queued, r)
  /\ UNCHANGED <<log, stored, task, gate, poll, past>>

\* retry: only a failed row goes back, due at once; the attempts it has used
\* stay counted.
Retry(r) ==
  /\ row[r].status = "Failed"
  /\ retries[r] < MaxRetries
  /\ row' = [row EXCEPT ![r] = Entry("Queued", row[r].attempts, FALSE)]
  /\ retries' = [retries EXCEPT ![r] = @ + 1]
  /\ UNCHANGED <<store, task, gate, poll, device, faults, crashes>>

\* cancel: only a queued row.
Cancel(r) ==
  /\ row[r].status = "Queued"
  /\ row' = [row EXCEPT ![r] = Entry("Cancelled", row[r].attempts, FALSE)]
  /\ UNCHANGED <<store, task, gate, poll, past>>

\* The clock passes next_attempt_at.
Elapse(r) ==
  /\ row[r].later
  /\ row' = [row EXCEPT ![r] = Entry(row[r].status, row[r].attempts, FALSE)]
  /\ UNCHANGED <<store, task, gate, poll, past>>

-------------------------------------------------------------------------------
(* The polling loop: recover_inflight, then process_due again and again. *)

\* recover_inflight reads the rows a dead process left in flight.
Boot_OnlyTransferring ==
  /\ poll.pc = "boot"
  /\ poll' = PollAt("recover", {r \in Rows : row[r].status = "Transferring"}, <<>>)
  /\ UNCHANGED <<row, store, task, gate, past>>

Boot ==
  /\ poll.pc = "boot"
  /\ poll' = PollAt("recover", {r \in Rows : row[r].status \in InFlight}, <<>>)
  /\ UNCHANGED <<row, store, task, gate, past>>

\* Its loop: one unguarded update per row it read.
Recovered(r) ==
  IF row[r].attempts >= MaxAttempts THEN "Failed" ELSE "Queued"

RecoverOne(r) ==
  /\ poll.pc = "recover" /\ r \in poll.rows
  /\ row' = [row EXCEPT ![r] = Entry(Recovered(r), row[r].attempts, FALSE)]
  /\ poll' = PollAt("recover", poll.rows \ {r}, <<>>)
  /\ UNCHANGED <<store, task, gate, past>>

RecoverDone ==
  /\ poll.pc = "recover" /\ poll.rows = {}
  /\ poll' = PollAt("poll", {}, <<>>)
  /\ UNCHANGED <<row, store, task, gate, past>>

\* A database error is logged and the rest of the rows stay as they are.
RecoverFails ==
  /\ poll.pc \in {"boot", "recover"}
  /\ faults < MaxFaults /\ faults' = faults + 1
  /\ poll' = PollAt("poll", {}, <<>>)
  /\ UNCHANGED <<row, store, task, gate, device, retries, crashes>>

Due(r) == row[r].status = "Queued" /\ ~row[r].later
FirstDue ==
  LET due == SelectSeq(queued, Due)
  IN  SubSeq(due, 1, IF Len(due) < MaxDue THEN Len(due) ELSE MaxDue)

Spawned(r) == Working("gate", r, "none")
FreeTasks == {t \in Tasks : task[t] = Free}

\* The due rows take the lowest free slots, in their order.
InOrder(slots) ==
  \A i \in DOMAIN slots : \A t \in FreeTasks :
    t < slots[i] <=> \E j \in 1..(i - 1) : slots[j] = t

\* Slot t is the one of row r.
Assigned(slots, t, r) == \E i \in DOMAIN slots : slots[i] = t /\ FirstDue[i] = r

\* process_due: the due rows, oldest first, each with a task of its own. The
\* poll that finds nothing sleeps, which changes nothing. (Without a slot for
\* each the poll waits: MaxTasks bounds the tasks of earlier polls that are
\* still running.)
Poll ==
  /\ poll.pc = "poll"
  /\ Len(FirstDue) \in 1..MaxTasks
  /\ \E slots \in [1..Len(FirstDue) -> FreeTasks] :
       /\ InOrder(slots)
       /\ task' = [t \in Tasks |->
                     IF \E r \in Rows : Assigned(slots, t, r)
                     THEN Spawned(CHOOSE r \in Rows : Assigned(slots, t, r))
                     ELSE task[t]]
       /\ poll' = PollAt("await", {}, slots)
  /\ UNCHANGED <<row, store, gate, past>>

\* The workers are awaited in the order of the rows.
Await ==
  /\ poll.pc = "await" /\ poll.tasks # <<>>
  /\ task[Head(poll.tasks)] = Over(FALSE)
  /\ task' = [task EXCEPT ![Head(poll.tasks)] = Free]
  /\ poll' = PollAt("await", {}, Tail(poll.tasks))
  /\ UNCHANGED <<row, store, gate, past>>

AwaitDone ==
  /\ poll.pc = "await" /\ poll.tasks = <<>>
  /\ poll' = PollAt("poll", {}, <<>>)
  /\ UNCHANGED <<row, store, task, gate, past>>

\* The first error ends the poll; the workers after it are detached and run on.
AwaitFails ==
  /\ poll.pc = "await" /\ poll.tasks # <<>>
  /\ task[Head(poll.tasks)] = Over(TRUE)
  /\ task' = [t \in Tasks |->
                IF t \in Range(poll.tasks) /\ task[t].pc = "over" THEN Free ELSE task[t]]
  /\ poll' = PollAt("poll", {}, <<>>)
  /\ UNCHANGED <<row, store, gate, past>>

-------------------------------------------------------------------------------
(* A worker: the permit of the device, then process_one. *)

At(t, pc) == task[t].pc = pc
Row(t) == task[t].row
Goto(t, pc) == task' = [task EXCEPT ![t] = Working(pc, Row(t), task[t].res)]
GateOf(t) == device[Row(t)]

\* The task returns: its permit is released and its handle, if the loop still
\* awaits it, holds the result.
Returned(t, err) ==
  [task EXCEPT ![t] = IF t \in Range(poll.tasks) THEN Over(err) ELSE Free]

Return(t, err) ==
  /\ task' = Returned(t, err)
  /\ gate' = [gate EXCEPT ![GateOf(t)] = Nobody]

Acquire_PerRow(t) ==
  /\ At(t, "gate")
  /\ \A u \in Tasks : task[u].pc \in Steps \ {"gate"} => Row(u) # Row(t)
  /\ gate' = [gate EXCEPT ![GateOf(t)] = t]
  /\ Goto(t, "read")
  /\ UNCHANGED <<row, store, poll, past>>

\* device_gate and acquire_owned.
Acquire(t) ==
  /\ At(t, "gate")
  /\ gate[GateOf(t)] = Nobody
  /\ gate' = [gate EXCEPT ![GateOf(t)] = t]
  /\ Goto(t, "read")
  /\ UNCHANGED <<row, store, poll, past>>

\* The row is read; anything that is not queued any more is left alone.
ReadRow(t) ==
  /\ At(t, "read")
  /\ IF row[Row(t)].status = "Queued"
     THEN Goto(t, "claim") /\ UNCHANGED gate
     ELSE Return(t, FALSE)
  /\ UNCHANGED <<row, store, poll, past>>

Claims(t, may) ==
  /\ At(t, "claim")
  /\ IF may
     THEN /\ row' = [row EXCEPT ![Row(t)] =
                         Entry("Preparing", row[Row(t)].attempts + 1, row[Row(t)].later)]
          /\ Goto(t, "insert")
          /\ UNCHANGED gate
     ELSE Return(t, FALSE) /\ UNCHANGED row
  /\ UNCHANGED <<store, poll, past>>

Claim_Uncounted(t) ==
  /\ At(t, "claim") /\ Due(Row(t))
  /\ row' = [row EXCEPT ![Row(t)].status = "Preparing",
                        ![Row(t)].attempts = IF @ = 0 THEN 1 ELSE @]
  /\ Goto(t, "insert")
  /\ UNCHANGED <<store, gate, poll, past>>

Claim_AnyStatus(t) == Claims(t, ~row[Row(t)].later)
Claim_AnyTime(t) == Claims(t, row[Row(t)].status = "Queued")

\* The claim is one guarded update: still queued and still due.
Claim(t) == Claims(t, Due(Row(t)))

\* The claimed row is read back and the attempt it counts is recorded (two
\* queries; an error of either leaves the same state).
InsertAttempt(t) ==
  /\ At(t, "insert")
  /\ log' = [log EXCEPT ![Row(t)] =
                Append(@, [no |-> row[Row(t)].attempts, status |-> "Preparing"])]
  /\ Goto(t, "prepare")
  /\ UNCHANGED <<row, queued, stored, gate, poll, past>>

Result(t, pc, res) == task' = [task EXCEPT ![t] = Working(pc, Row(t), res)]

\* prepare_source: media, target and profile are checked again and the file is
\* staged. None of its errors is retryable, a database error included.
Prepare(t) ==
  /\ At(t, "prepare")
  /\ Goto(t, "mark") \/ Result(t, "finish", "final")
  /\ UNCHANGED <<row, store, gate, poll, past>>

\* update_queue_status: unguarded.
MarkTransferring(t) ==
  /\ At(t, "mark")
  /\ row' = [row EXCEPT ![Row(t)] =
                 Entry("Transferring", row[Row(t)].attempts, row[Row(t)].later)]
  /\ Goto(t, "upload")
  /\ UNCHANGED <<store, gate, poll, past>>

\* transfer: the target is read and its identity probed again, then the file
\* is sent. DONE means that the device holds the file. Without DONE (no
\* answer, a timeout or a broken connection: retryable; another identity, an
\* ERROR or a close: final) it may hold it or not. The device does not
\* overwrite: what it holds already it refuses (final).
Uploaded(t) == Result(t, "finish", "ok") /\ stored' = stored \cup {Row(t)}

Upload_ClosedIsDone(t) ==
  /\ At(t, "upload")
  /\ \/ Row(t) \notin stored /\ Uploaded(t)
     \/ Result(t, "finish", "ok") /\ UNCHANGED stored
     \/ \E res \in {"retryable", "final"} :
          /\ Result(t, "finish", res)
          /\ stored' \in {stored, stored \cup {Row(t)}}
  /\ UNCHANGED <<row, queued, log, gate, poll, past>>

Upload(t) ==
  /\ At(t, "upload")
  /\ \/ Row(t) \notin stored /\ Uploaded(t)
     \/ \E res \in {"retryable", "final"} :
          /\ Result(t, "finish", res)
          /\ stored' \in {stored, stored \cup {Row(t)}}
  /\ UNCHANGED <<row, queued, log, gate, poll, past>>

\* finish_attempt: the attempt row of this task, the last one of the row.
FinishAttempt(t) ==
  /\ At(t, "finish")
  /\ log' = [log EXCEPT ![Row(t)][Len(log[Row(t)])].status =
                IF task[t].res = "ok" THEN "Completed" ELSE "Failed"]
  /\ Goto(t, "write")
  /\ UNCHANGED <<row, queued, stored, gate, poll, past>>

MayRetry_OneMore(t) ==
  task[t].res = "retryable" /\ row[Row(t)].attempts <= MaxAttempts

\* A retryable error with budget left (row.attempts < row.max_attempts).
MayRetry(t) ==
  task[t].res = "retryable" /\ row[Row(t)].attempts < MaxAttempts

Outcome(t) ==
  IF task[t].res = "ok" THEN "Completed" ELSE IF MayRetry(t) THEN "Queued" ELSE "Failed"

\* update_queue, unguarded, with the outcome; a retry waits for its delay.
WriteOutcome(t) ==
  /\ At(t, "write")
  /\ row' = [row EXCEPT ![Row(t)] = Entry(Outcome(t), row[Row(t)].attempts, MayRetry(t))]
  /\ Return(t, FALSE)
  /\ UNCHANGED <<store, poll, past>>

DbSteps == {"read", "claim", "insert", "mark", "finish", "write"}

Faulted(t) ==
  /\ task[t].pc \in DbSteps
  /\ faults < MaxFaults /\ faults' = faults + 1
  /\ UNCHANGED <<row, store, poll, device, retries, crashes>>

DbError_KeepsPermit(t) == Faulted(t) /\ task' = Returned(t, TRUE) /\ UNCHANGED gate

\* Every query of process_one ends it with `?`: the row stays as it is.
DbError(t) == Faulted(t) /\ Return(t, TRUE)

-------------------------------------------------------------------------------
\* The process dies at any point and starts again: tasks, permits and loop are
\* gone, and an upload on the wire may or may not have been the last byte.
Crash ==
  /\ crashes < MaxCrashes /\ crashes' = crashes + 1
  /\ task' = [t \in Tasks |-> Free]
  /\ gate' = [d \in Devices |-> Nobody]
  /\ poll' = PollAt("boot", {}, <<>>)
  /\ \E up \in SUBSET {Row(t) : t \in {u \in Tasks : At(u, "upload")}} :
       stored' = stored \cup up
  /\ UNCHANGED <<row, queued, log, device, retries, faults>>

Worker(t) ==
  \/ ReadRow(t) \/ Claim(t) \/ InsertAttempt(t) \/ Prepare(t)
  \/ MarkTransferring(t) \/ Upload(t) \/ FinishAttempt(t)
  \/ WriteOutcome(t)

Loop ==
  \/ Boot \/ RecoverDone \/ Poll \/ Await \/ AwaitDone \/ AwaitFails
  \/ \E r \in Rows : RecoverOne(r)

User(r) == Enqueue(r) \/ Retry(r) \/ Cancel(r)

Next ==
  \/ \E r \in Rows : User(r) \/ Elapse(r)
  \/ \E t \in Tasks : Acquire(t) \/ Worker(t) \/ DbError(t)
  \/ Loop \/ RecoverFails \/ Crash

Spec == Init /\ [][Next]_vars

\* The loop and the workers are tokio tasks and every await of theirs is a
\* query, a local file or an exchange under a timeout; the semaphore hands its
\* permit out in the order of the requests; the clock runs. Nothing is assumed
\* of the user, of errors or of crashes.
FairSpec ==
  /\ Spec
  /\ WF_vars(Loop)
  /\ \A t \in Tasks : WF_vars(Worker(t)) /\ SF_vars(Acquire(t))
  /\ \A r \in Rows : WF_vars(Elapse(r))

-------------------------------------------------------------------------------
(* What must hold. *)

\* "one semaphore per device (so a target receives one transfer at a time)"
\* (service.rs:3-4): whatever polls, errors and detached workers do, at most
\* one worker is past the permit of a device, hence at most one uploads to it.
OneTransferPerDevice ==
  \A t, u \in {v \in Tasks : At(v, "upload")} : GateOf(t) = GateOf(u) => t = u

\* A row in flight has the worker that claimed it, unless a database error or
\* a crash took that worker away, and a crash only until the recovery is over
\* (recover_inflight, service.rs:308-355).
InFlightIsOwned ==
  \A r \in Rows :
    row[r].status \in InFlight /\ faults = 0 =>
      \/ \E t \in Tasks : /\ task[t].pc \in Owning
                          /\ Row(t) = r
      \/ poll.pc = "boot"
      \/ poll.pc = "recover" /\ r \in poll.rows

\* The budget: the attempts made never exceed max_attempts and one more for
\* each time the user asked for a retry, across errors, restarts and workers
\* spawned twice for one row (service.rs:308-309, 606-646, 652-687).
BudgetHolds ==
  \A r \in Rows :
    /\ row[r].attempts <= MaxAttempts + retries[r]
    /\ row[r].status = "Queued" => row[r].attempts < MaxAttempts + retries[r]

\* A row says Completed only when the device confirmed the whole file and the
\* attempt that sent it is recorded as completed (service.rs:588-605).
CompletedWasDelivered ==
  \A r \in Rows :
    row[r].status = "Completed" =>
      /\ r \in stored
      /\ log[r] # <<>> /\ log[r][Len(log[r])].status = "Completed"
      /\ log[r][Len(log[r])].no = row[r].attempts

\* Attempt rows are a history: their numbers rise, so no attempt is recorded
\* twice, whatever worker, process or retry made it (service.rs:562-574).
AttemptsRise ==
  \A r \in Rows : \A j \in DOMAIN log[r] : \A i \in 1..(j - 1) : log[r][i].no < log[r][j].no

\* "Terminal rows are retained": what is completed or cancelled stays so, and a
\* failed row moves only when the user retries it, however a cancellation falls
\* between the steps of a worker (service.rs:510-511, 650-651, 689-690).
HistoryStands ==
  [][\A r \in Rows :
       row[r].status \in Terminal /\ row'[r].status # row[r].status =>
         row[r].status = "Failed" /\ retries'[r] = retries[r] + 1]_vars

\* A retry waits for its delay: no attempt starts while next_attempt_at is to
\* come, not even by a worker an earlier poll spawned for the same row
\* (service.rs:530-534).
RetryWaits ==
  [][\A r \in Rows : row'[r].attempts # row[r].attempts => ~row[r].later]_vars

\* A queued row is served: it is claimed, or the user cancels it, even when
\* database errors end the poll that took it (service.rs:358-374, 474-508).
QueuedIsServed ==
  \A r \in Rows : row[r].status = "Queued" ~> row[r].status # "Queued"

\* Without a database error every delivery reaches a verdict, through retries
\* and restarts.
DeliveriesSettle ==
  \A r \in Rows :
    row[r].status = "Queued" ~> row[r].status \in Terminal \/ faults > 0

===============================================================================
