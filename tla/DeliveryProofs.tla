---------------------------- MODULE DeliveryProofs ----------------------------
(***************************************************************************)
(* The delivery queue's safety, for any rows, devices, workers, budgets,    *)
(* errors and restarts. IInv (DeliverySteps) is inductive: GateHeld makes   *)
(* owners unique, OwnerInFlight and Quiet make the unguarded updates safe.  *)
(* Recorded, inductive relative to it, is about the attempt rows and what   *)
(* the device holds; Listed and Sized are the rest of the types.            *)
(***************************************************************************)
EXTENDS DeliverySteps

USE SMTT(30)

LEMMA FaultsGrow ==
  ASSUME Types, faults' = 0, [Next]_vars
  PROVE  faults = 0
BY FaultsCounted, FaultsCount

\* Each effect keeps the budget.
LEMMA BudgetStep ==
  ASSUME Types, BudgetHolds, [Next]_vars
  PROVE  BudgetHolds'
<1> SUFFICES ASSUME NEW q \in Rows
             PROVE  /\ row'[q].attempts <= MaxAttempts + retries'[q]
                    /\ row'[q].status = "Queued" =>
                         row'[q].attempts < MaxAttempts + retries'[q]
  BY DEF BudgetHolds
<1>1. RowEffect(q)
  BY ZenonT(40), RowEffects
<1>2. row[q].attempts \in Nat /\ retries[q] \in Nat /\ MaxAttempts \in Nat \ {0}
  BY ZenonT(40), RowShape, DeliveryAssumption DEF Types
<1>3. /\ row[q].attempts <= MaxAttempts + retries[q]
      /\ row[q].status = "Queued" => row[q].attempts < MaxAttempts + retries[q]
  BY ZenonT(40) DEF BudgetHolds
<1>4. CASE row'[q].status = row[q].status /\ Same(q)
  BY ZenonT(40), <1>3, <1>4 DEF Same
<1>5. CASE Sent(q)
  BY <1>2, <1>5 DEF Sent
<1>6. CASE Retried(q)
  BY <1>2, <1>3, <1>6 DEF Retried
<1>7. CASE Dropped(q)
  BY ZenonT(40), <1>3, <1>7 DEF Dropped, Same
<1>8. CASE Claimed(q)
  BY <1>2, <1>3, <1>8 DEF Claimed
<1>9. ASSUME Settled(q)
      PROVE  /\ row'[q].attempts <= MaxAttempts + retries'[q]
             /\ row'[q].status = "Queued" => row'[q].attempts < MaxAttempts + retries'[q]
  BY <1>2, <1>3, <1>9 DEF Settled, Same
<1>10. CASE Written(q)
  BY ZenonT(40), <1>3, <1>9, <1>10 DEF Written, Same
<1>. QED
  BY ZenonT(40), <1>1, <1>4, <1>5, <1>6, <1>7, <1>8, <1>9, <1>10 DEF RowEffect

\* The row of an owner is written by that owner only, because its device has
\* one permit.
LEMMA OwnerAlone ==
  ASSUME Types, GateHeld, NEW t \in Tasks, NEW u \in Tasks,
         task[t].pc \in Owning, task[u].pc \in Owning, task[t].row = task[u].row
  PROVE  t = u
BY ZenonT(40) DEF GateHeld, GateOf, Row, Owning, Steps

\* A row in flight stays in flight until its owner settles it.
LEMMA OwnerStep ==
  ASSUME Types, GateHeld, Quiet, OwnerInFlight, [Next]_vars
  PROVE  OwnerInFlight'
<1> SUFFICES ASSUME NEW u \in Tasks, task'[u].pc \in Owning
             PROVE  row'[task'[u].row].status \in InFlight
  BY DEF OwnerInFlight, Row
<1>1. TaskEffect(u)
  BY ZenonT(40), TaskEffects
<1>2. CASE task[u].pc = "claim" /\ row'[task'[u].row].status = "Preparing"
  BY ZenonT(40), <1>2 DEF InFlight
<1>3. CASE task[u].pc \in Owning /\ task'[u].row = task[u].row
  <2> DEFINE q == task[u].row
  <2>1. q \in Rows /\ row[q].status \in InFlight
    BY ZenonT(40), <1>3, WorkerShape DEF OwnerInFlight, Row, Owning
  <2>2. RowEffect(q)
    BY ZenonT(40), <2>1, RowEffects
  <2>3. poll.pc # "recover"
    BY ZenonT(40), <1>3, Fields DEF Quiet, Owning, Steps
  <2>4. ASSUME Written(q)
        PROVE  row'[q].status = "Transferring"
    BY ZenonT(40), <1>3, <2>4, OwnerAlone DEF Written
  <2>5. ~(Sent(q) \/ Retried(q) \/ Dropped(q) \/ Claimed(q))
    BY ZenonT(40), <2>1 DEF Sent, Retried, Dropped, Claimed, InFlight
  <2>. QED
    BY ZenonT(40), <1>3, <2>1, <2>2, <2>3, <2>4, <2>5 DEF RowEffect, InFlight
<1>. QED
  BY ZenonT(40), <1>1, <1>2, <1>3 DEF TaskEffect

\* A row in flight keeps an owner.
LEMMA OwnedStep ==
  ASSUME Types, Quiet, InFlightIsOwned, [Next]_vars
  PROVE  InFlightIsOwned'
<1> DEFINE Owned(q) == \E t \in Tasks : task[t].pc \in Owning /\ task[t].row = q
<1> SUFFICES ASSUME NEW q \in Rows, row'[q].status \in InFlight, faults' = 0
             PROVE  Owned(q)' \/ Recovering(q)'
  BY DEF InFlightIsOwned, Recovering, Row
<1>1. RowEffect(q) /\ PollEffect(q)
  BY ZenonT(40), RowEffects, PollEffects
<1>2. faults = 0
  BY ZenonT(40), FaultsGrow DEF Types
<1>3. CASE row[q].status \in InFlight
  <2>1. Owned(q) \/ Recovering(q)
    BY ZenonT(40), <1>2, <1>3 DEF InFlightIsOwned, Recovering, Row
  <2>2. CASE Recovering(q)
    BY <1>1, <2>2 DEF PollEffect
  <2>3. ASSUME NEW t \in Tasks, task[t].pc \in Owning, task[t].row = q
        PROVE  Owned(q)' \/ poll'.pc = "boot"
    <3>1. TaskEffect(t) /\ ~(faults' > 0)
      BY TaskEffects
    <3>2. poll'.pc = "boot" \/ (task'[t].pc \in Owning /\ task'[t].row = q)
      BY ZenonT(40), <2>3, <3>1 DEF TaskEffect, Owning
    <3>. QED
      BY <3>2
  <2>. QED
    BY ZenonT(40), <2>1, <2>2, <2>3 DEF Recovering
<1>4. CASE row[q].status \notin InFlight
  <2>1. Claimed(q) \/ Written(q)
    BY ZenonT(40), <1>1, <1>4 DEF RowEffect, Sent, Retried, Dropped, Settled, InFlight, Quiet
  <2>. QED
    BY ZenonT(40), <2>1 DEF Claimed, Written, Settled, InFlight
<1>. QED
  BY ZenonT(40), <1>3, <1>4

-------------------------------------------------------------------------------
LEMMA InitInv == Init => IInv
<1> SUFFICES ASSUME Init PROVE IInv
  BY ZenonT(40)
<1>1. Types
  BY Fields, DeliveryAssumption DEF Init, Types, EntryType, TaskType, Entry, Free, PollPcs,
     Statuses, Nobody
<1>2. \A t \in Tasks : task[t] = Free
  BY ZenonT(40) DEF Init
<1>3. \A r \in Rows : row[r].status = "Absent" /\ row[r].attempts = 0 /\ retries[r] = 0
  BY ZenonT(40) DEF Init, Entry
<1>4. GateHeld /\ OwnerInFlight
  BY ZenonT(40), <1>2, Fields DEF GateHeld, OwnerInFlight, Owning, Steps
<1>5. poll.pc = "boot"
  BY Fields DEF Init
<1>6. Quiet /\ InFlightIsOwned
  BY ZenonT(40), <1>2, <1>5 DEF Quiet, InFlightIsOwned
<1>7. BudgetHolds
  BY <1>3, DeliveryAssumption DEF BudgetHolds
<1>. QED
  BY ZenonT(40), <1>1, <1>4, <1>6, <1>7 DEF IInv

LEMMA NextInv ==
  ASSUME IInv, [Next]_vars
  PROVE  IInv'
BY ZenonT(40), TypesStep, GateStep, QuietStep, OwnerStep, OwnedStep, BudgetStep DEF IInv

\* The inductive invariant.
THEOREM Inductive == Spec => []IInv
<1>1. Init => IInv
  BY ZenonT(40), InitInv
<1>2. IInv /\ [Next]_vars => IInv'
  BY ZenonT(40), NextInv
<1>. QED
  BY <1>1, <1>2, PTL DEF Spec

\* The permits work: a device receives one transfer at a time (service.rs:3-4,
\* 494-500), for any number of rows, devices, detached workers and errors.
THEOREM OneTransfer == Spec => []OneTransferPerDevice
<1>1. IInv => OneTransferPerDevice
  BY ZenonT(40) DEF IInv, GateHeld, OneTransferPerDevice, At, Steps
<1>. QED
  BY <1>1, Inductive, PTL

\* The retry budget is respected through retries, restarts and duplicate
\* workers (service.rs:308-355, 606-646, 652-687).
THEOREM Budget == Spec => []BudgetHolds
<1>1. IInv => BudgetHolds
  BY ZenonT(40) DEF IInv
<1>. QED
  BY <1>1, Inductive, PTL

\* Without a database error no delivery is left in flight without a worker
\* (service.rs:310-355, 512-648).
THEOREM Owned == Spec => []InFlightIsOwned
<1>1. IInv => InFlightIsOwned
  BY DEF IInv
<1>. QED
  BY <1>1, Inductive, PTL

\* History stands: the unguarded updates of process_one and recover_inflight
\* (service.rs:872-932) never touch a row that is over.
THEOREM History == Spec => HistoryStands
<1>1. ASSUME IInv, [Next]_vars, NEW q \in Rows, row[q].status \in Terminal,
             row'[q].status # row[q].status
      PROVE  row[q].status = "Failed" /\ retries'[q] = retries[q] + 1
  <2>1. RowEffect(q)
    BY ZenonT(40), <1>1, RowEffects DEF IInv
  <2>2. ~Written(q)
    BY ZenonT(40), <1>1 DEF Written, IInv, OwnerInFlight, Row, Terminal, InFlight
  <2>3. ~(poll.pc = "recover" /\ q \in poll.rows)
    BY ZenonT(40), <1>1 DEF IInv, Quiet, Terminal, InFlight
  <2>4. ~(Sent(q) \/ Dropped(q) \/ Claimed(q))
    BY ZenonT(40), <1>1 DEF Sent, Dropped, Claimed, Terminal
  <2>. QED
    BY ZenonT(40), <1>1, <2>1, <2>2, <2>3, <2>4 DEF RowEffect, Retried
<1>2. IInv /\ [Next]_vars =>
        [\A r \in Rows :
           row[r].status \in Terminal /\ row'[r].status # row[r].status =>
             row[r].status = "Failed" /\ retries'[r] = retries[r] + 1]_vars
  BY ZenonT(40), <1>1
<1>. QED
  BY <1>2, Inductive, PTL DEF Spec, HistoryStands

-------------------------------------------------------------------------------
(* The attempt rows. *)

Recording == Owning \ {"insert"}
Attempt == [no : Nat, status : {"Preparing", "Completed", "Failed"}]

\* What a worker past its claim may rely on: its attempt is not recorded before
\* it inserts it and is the last one after; an upload that went well left the file
\* on the device, and finish_attempt recorded it.
Standing(t, q) ==
  task[t].pc \in Owning /\ task[t].row = q =>
    /\ row[q].attempts > 0
    /\ task[t].pc = "insert" => \A i \in DOMAIN log[q] : log[q][i].no < row[q].attempts
    /\ task[t].pc \in Recording => log[q] # <<>> /\ log[q][Len(log[q])].no = row[q].attempts
    /\ task[t].pc \in {"finish", "write"} /\ task[t].res = "ok" => q \in stored
    /\ task[t].pc = "write" /\ task[t].res = "ok" => log[q][Len(log[q])].status = "Completed"

Unsent(q) == row[q].status = "Absent" => row[q].attempts = 0
Counted(q) == \A i \in DOMAIN log[q] : log[q][i].no \in 1..row[q].attempts
Rising(q) == \A i, j \in DOMAIN log[q] : i < j => log[q][i].no < log[q][j].no
Delivered(q) ==
  row[q].status = "Completed" =>
    /\ q \in stored
    /\ log[q] # <<>> /\ log[q][Len(log[q])].status = "Completed"
    /\ log[q][Len(log[q])].no = row[q].attempts

LogTyped == log \in [Rows -> Seq(Attempt)]
Record(q) ==
  /\ Unsent(q) /\ Counted(q) /\ Rising(q) /\ Delivered(q)
  /\ \A t \in Tasks : Standing(t, q)
Recorded == LogTyped /\ \A q \in Rows : Record(q)

\* A worker of row q goes on with what it had, or towards an attempt's end.
Follows(t, q) ==
  task'[t].pc \in Owning /\ task'[t].row = q =>
    \/ task'[t] = task[t]
    \/ /\ task[t].row = q /\ task[t].pc \in Recording /\ task'[t].pc \in Recording \ {"write"}
       /\ task'[t].pc = "finish" /\ task'[t].res = "ok" => q \in stored'

\* The workers but t stay.
Alone(t) == \A u \in Tasks \ {t} : task'[u] = task[u]

Resting(q) ==
  /\ log'[q] = log[q] /\ stored \subseteq stored'
  /\ \A t \in Tasks : Follows(t, q)
Starting(t, q) ==
  /\ Alone(t) /\ task[t].row = q /\ task[t].pc = "claim"
  /\ task'[t].row = q /\ task'[t].pc = "insert"
  /\ log'[q] = log[q] /\ stored' = stored
  /\ row[q].status = "Queued" /\ row'[q].status = "Preparing"
  /\ row'[q].attempts = row[q].attempts + 1
Inserting(t, q) ==
  /\ Alone(t) /\ task[t].row = q /\ task[t].pc = "insert"
  /\ task'[t].row = q /\ task'[t].pc = "prepare"
  /\ row' = row /\ stored' = stored
  /\ log'[q] = Append(log[q], [no |-> row[q].attempts, status |-> "Preparing"])
Ending(t, q) ==
  /\ Alone(t) /\ task[t].row = q /\ task[t].pc = "finish"
  /\ task'[t].row = q /\ task'[t].pc = "write" /\ task'[t].res = task[t].res
  /\ row' = row /\ stored' = stored
  /\ log'[q] = [log[q] EXCEPT ![Len(log[q])].status =
                  IF task[t].res = "ok" THEN "Completed" ELSE "Failed"]

RecordEffect(q) ==
  Resting(q) \/ \E t \in Tasks : Starting(t, q) \/ Inserting(t, q) \/ Ending(t, q)

\* A worker that moves on, and the others.
LEMMA GotoAlone ==
  ASSUME Types, NEW t \in Tasks, NEW pc, Goto(t, pc)
  PROVE  /\ Alone(t) /\ task'[t].pc = pc
         /\ task'[t].row = task[t].row /\ task'[t].res = task[t].res
<1>1. task' = [task EXCEPT ![t] = Working(pc, task[t].row, task[t].res)]
  BY ZenonT(40) DEF Goto, Row
<1>2. task'[t] = Working(pc, task[t].row, task[t].res) /\ Alone(t)
  BY ZenonT(40), <1>1 DEF Types, Alone
<1>. QED
  BY <1>2, Fields

\* ... seen from a row that is not its own, or before its attempt ends.
LEMMA GotoFollows ==
  ASSUME Types, NEW t \in Tasks, NEW q \in Rows, NEW pc, Goto(t, pc),
         \/ task[t].row # q \/ pc \notin Owning
         \/ task[t].pc \in Recording /\ pc \in Recording \ {"finish", "write"},
         NEW u \in Tasks
  PROVE  Follows(u, q)
<1>1. /\ u # t => task'[u] = task[u]
      /\ task'[t].pc = pc /\ task'[t].row = task[t].row
  BY ZenonT(40), GotoAlone DEF Alone
<1>2. CASE u # t
  BY ZenonT(40), <1>1, <1>2 DEF Follows
<1>3. CASE u = t
  BY ZenonT(40), <1>1, <1>3 DEF Follows
<1>. QED
  BY ZenonT(40), <1>2, <1>3

\* ... and with the outcome of its attempt.
LEMMA FinishFollows ==
  ASSUME Types, NEW t \in Tasks, NEW q \in Rows, NEW x, Result(t, "finish", x),
         task[t].pc \in Recording, task[t].row = q /\ x = "ok" => q \in stored',
         NEW u \in Tasks
  PROVE  Follows(u, q)
<1>1. task' = [task EXCEPT ![t] = Working("finish", task[t].row, x)]
  BY ZenonT(40) DEF Result, Row
<1>2. CASE u # t
  BY ZenonT(40), <1>1, <1>2 DEF Types, Follows
<1>3. CASE u = t
  <2>1. task'[t].pc = "finish" /\ task'[t].row = task[t].row /\ task'[t].res = x
    BY <1>1, Fields DEF Types
  <2>2. "finish" \in Recording \ {"write"}
    BY ZenonT(40) DEF Recording, Owning, Steps
  <2>. QED
    BY ZenonT(40), <1>3, <2>1, <2>2 DEF Follows
<1>. QED
  BY ZenonT(40), <1>2, <1>3

LEMMA ReturnFollows ==
  ASSUME Types, NEW t \in Tasks, NEW q, NEW e, Return(t, e), NEW u \in Tasks
  PROVE  Follows(u, q)
<1>1. /\ u = t => task'[u].pc \in {"free", "over"}
      /\ u # t => task'[u] = task[u]
  BY ZenonT(40), ReturnAt DEF Return
<1>. QED
  BY ZenonT(40), <1>1 DEF Follows, Owning, Steps

\* Who writes the attempt rows, and who the device.
LEMMA Stores ==
  ASSUME [Next]_vars
  PROVE  /\ log' = log \/ \E t \in Tasks : InsertAttempt(t) \/ FinishAttempt(t)
         /\ stored' = stored \/ Crash \/ \E t \in Tasks : Upload(t)
<1>1. ASSUME NEW t \in Tasks, Acquire(t) \/ Worker(t) \/ DbError(t)
      PROVE  /\ log' = log \/ InsertAttempt(t) \/ FinishAttempt(t)
             /\ stored' = stored \/ Upload(t)
  BY Zenon, <1>1 DEF Worker, Acquire, ReadRow, Claim, Claims, InsertAttempt, Prepare,
     MarkTransferring,
     Upload, FinishAttempt, WriteOutcome, DbError, Faulted, store
<1>2. ASSUME Poll \/ Await \/ AwaitFails \/ Crash
      PROVE  log' = log /\ (stored' = stored \/ Crash)
  BY ZenonT(40), <1>2 DEF Poll, Await, AwaitFails, Crash, store
<1>. QED
  BY ZenonT(40), <1>1, <1>2, TasksStill DEF Next, Loop

\* What every step does to the records of a row.
LEMMA RecordEffects ==
  ASSUME Types, LogTyped, NEW q \in Rows, [Next]_vars
  PROVE  RecordEffect(q)
<1>0. ASSUME UNCHANGED <<log, stored, task>>
      PROVE  RecordEffect(q)
  BY ZenonT(40), <1>0 DEF RecordEffect, Resting, Follows
<1>1. ASSUME log'[q] = log[q], stored \subseteq stored', \A u \in Tasks : Follows(u, q)
      PROVE  RecordEffect(q)
  BY ZenonT(40), <1>1 DEF RecordEffect, Resting
<1>2. ASSUME Poll \/ Await \/ AwaitFails
      PROVE  RecordEffect(q)
  <2>1. log' = log /\ stored' = stored
    BY ZenonT(40), <1>2 DEF Poll, Await, AwaitFails, store
  <2>2. \A u \in Tasks : Follows(u, q)
    BY ZenonT(40), <1>2, LoopTasks DEF Follows, Owning, Steps
  <2>. QED
    BY ZenonT(40), <1>1, <2>1, <2>2
<1>3. ASSUME NEW t \in Tasks, Acquire(t) \/ ReadRow(t) \/ WriteOutcome(t) \/ DbError(t)
      PROVE  RecordEffect(q)
  <2>1. log' = log /\ stored' = stored
    BY Zenon, <1>3 DEF Acquire, ReadRow, WriteOutcome, DbError, Faulted, store
  <2>2. (\E pc \in {"read", "claim"} : Goto(t, pc)) \/ \E e : Return(t, e)
    BY ZenonT(40), <1>3 DEF Acquire, ReadRow, WriteOutcome, DbError
  <2>3. ASSUME NEW u \in Tasks
        PROVE  Follows(u, q)
    <3>1. ASSUME NEW pc \in {"read", "claim"}, Goto(t, pc)
          PROVE  Follows(u, q)
      <4>1. pc \notin Owning
        BY ZenonT(40) DEF Owning, Steps
      <4>. QED
        BY ZenonT(40), <3>1, <4>1, GotoFollows
    <3>. QED
      BY ZenonT(40), <2>2, <3>1, ReturnFollows
  <2>. QED
    BY ZenonT(40), <1>1, <2>1, <2>3
<1>4. ASSUME NEW t \in Tasks, Claim(t)
      PROVE  RecordEffect(q)
  <2>1. log' = log /\ stored' = stored /\ task[t].pc = "claim"
    BY ZenonT(40), <1>4 DEF Claim, Claims, At, store
  <2>2. CASE ~Due(Row(t))
    <3>1. Return(t, FALSE)
      BY Zenon, <1>4, <2>2 DEF Claim, Claims
    <3>2. \A u \in Tasks : Follows(u, q)
      BY ZenonT(40), <3>1, ReturnFollows
    <3>. QED
      BY ZenonT(40), <1>1, <2>1, <3>2
  <2>3. CASE Due(Row(t)) /\ task[t].row # q
    <3>1. Goto(t, "insert")
      BY ZenonT(40), <1>4, <2>3 DEF Claim, Claims
    <3>2. \A u \in Tasks : Follows(u, q)
      BY ZenonT(40), <2>3, <3>1, GotoFollows
    <3>. QED
      BY <1>1, <2>1, <3>2
  <2>4. CASE Due(Row(t)) /\ task[t].row = q
    <3>1. Goto(t, "insert") /\ Puts(q, "Preparing", row[q].attempts + 1, row[q].later)
      BY ZenonT(40), <1>4, <2>4 DEF Claim, Claims, Row, Puts
    <3>2. row'[q].status = "Preparing" /\ row'[q].attempts = row[q].attempts + 1
      BY <3>1, RowAt
    <3>3. Alone(t) /\ task'[t].row = q /\ task'[t].pc = "insert"
      BY ZenonT(40), <2>4, <3>1, GotoAlone
    <3>4. row[q].status = "Queued"
      BY ZenonT(40), <2>4 DEF Due, Row
    <3>5. Starting(t, q)
      BY ZenonT(40), <2>1, <2>4, <3>2, <3>3, <3>4 DEF Starting
    <3>. QED
      BY ZenonT(40), <3>5 DEF RecordEffect
  <2>. QED
    BY ZenonT(40), <2>2, <2>3, <2>4
<1>5. ASSUME NEW t \in Tasks, Prepare(t) \/ MarkTransferring(t)
      PROVE  RecordEffect(q)
  <2>1. log' = log /\ stored' = stored
    BY ZenonT(40), <1>5 DEF Prepare, MarkTransferring, store
  <2>2. /\ task[t].pc \in Recording
        /\ (\E pc \in {"mark", "upload"} : Goto(t, pc)) \/ Result(t, "finish", "final")
    BY ZenonT(40), <1>5 DEF Prepare, MarkTransferring, At, Recording, Owning, Steps
  <2>3. ASSUME NEW u \in Tasks
        PROVE  Follows(u, q)
    <3>1. ASSUME NEW pc \in {"mark", "upload"}, Goto(t, pc)
          PROVE  Follows(u, q)
      <4>1. pc \in Recording \ {"finish", "write"}
        BY ZenonT(40) DEF Recording, Owning, Steps
      <4>. QED
        BY ZenonT(40), <2>2, <3>1, <4>1, GotoFollows
    <3>2. CASE Result(t, "finish", "final")
      <4>1. "final" # "ok"
        BY ZenonT(40)
      <4>. QED
        BY ZenonT(40), <2>2, <3>2, <4>1, FinishFollows
    <3>. QED
      BY ZenonT(40), <2>2, <3>1, <3>2
  <2>. QED
    BY <1>1, <2>1, <2>3
<1>6. ASSUME NEW t \in Tasks, Upload(t)
      PROVE  RecordEffect(q)
  <2>1. log' = log /\ stored \subseteq stored' /\ task[t].pc \in Recording
    BY ZenonT(40), <1>6 DEF Upload, Uploaded, At, Recording, Owning, Steps
  <2>2. PICK x \in {"ok", "retryable", "final"} :
          Result(t, "finish", x) /\ (x = "ok" => task[t].row \in stored')
    BY ZenonT(40), <1>6 DEF Upload, Uploaded, Row
  <2>3. \A u \in Tasks : Follows(u, q)
    BY ZenonT(40), <2>1, <2>2, FinishFollows
  <2>. QED
    BY ZenonT(40), <1>1, <2>1, <2>3
<1>7. ASSUME NEW t \in Tasks, InsertAttempt(t)
      PROVE  RecordEffect(q)
  <2>1. /\ row' = row /\ stored' = stored /\ Goto(t, "prepare") /\ task[t].pc = "insert"
        /\ log' = [log EXCEPT ![task[t].row] =
                Append(@, [no |-> row[task[t].row].attempts, status |-> "Preparing"])]
    BY ZenonT(40), <1>7 DEF InsertAttempt, At, Row
  <2>2. CASE task[t].row # q
    <3>1. log'[q] = log[q]
      BY ZenonT(40), <2>1, <2>2 DEF LogTyped
    <3>2. \A u \in Tasks : Follows(u, q)
      BY ZenonT(40), <2>1, <2>2, GotoFollows
    <3>. QED
      BY ZenonT(40), <1>1, <2>1, <3>1, <3>2
  <2>3. CASE task[t].row = q
    <3>1. log'[q] = Append(log[q], [no |-> row[q].attempts, status |-> "Preparing"])
      BY ZenonT(40), <2>1, <2>3 DEF LogTyped
    <3>2. Alone(t) /\ task'[t].row = q /\ task'[t].pc = "prepare"
      BY ZenonT(40), <2>1, <2>3, GotoAlone
    <3>3. Inserting(t, q)
      BY ZenonT(40), <2>1, <2>3, <3>1, <3>2 DEF Inserting
    <3>. QED
      BY ZenonT(40), <3>3 DEF RecordEffect
  <2>. QED
    BY ZenonT(40), <2>2, <2>3
<1>8. ASSUME NEW t \in Tasks, FinishAttempt(t)
      PROVE  RecordEffect(q)
  <2> DEFINE S == IF task[t].res = "ok" THEN "Completed" ELSE "Failed"
  <2>1. /\ row' = row /\ stored' = stored /\ Goto(t, "write") /\ task[t].pc = "finish"
        /\ log' = [log EXCEPT ![task[t].row][Len(log[task[t].row])].status = S]
    BY ZenonT(40), <1>8 DEF FinishAttempt, At, Row
  <2>2. CASE task[t].row # q
    <3>1. log'[q] = log[q]
      BY ZenonT(40), <2>1, <2>2 DEF LogTyped
    <3>2. \A u \in Tasks : Follows(u, q)
      BY ZenonT(40), <2>1, <2>2, GotoFollows
    <3>. QED
      BY ZenonT(40), <1>1, <2>1, <3>1, <3>2
  <2>3. CASE task[t].row = q
    <3>1. log'[q] = [log[q] EXCEPT ![Len(log[q])].status = S]
      BY ZenonT(40), <2>1, <2>3 DEF LogTyped
    <3>2. Alone(t) /\ task'[t].row = q /\ task'[t].pc = "write" /\ task'[t].res = task[t].res
      BY ZenonT(40), <2>1, <2>3, GotoAlone
    <3>3. Ending(t, q)
      BY ZenonT(40), <2>1, <2>3, <3>1, <3>2 DEF Ending
    <3>. QED
      BY ZenonT(40), <3>3 DEF RecordEffect
  <2>. QED
    BY <2>2, <2>3
<1>9. ASSUME Crash
      PROVE  RecordEffect(q)
  <2>1. log' = log /\ stored \subseteq stored'
    BY ZenonT(40), <1>9 DEF Crash
  <2>2. \A u \in Tasks : task'[u].pc \notin Owning
    BY ZenonT(40), <1>9, Fields DEF Crash, Owning, Steps
  <2>3. \A u \in Tasks : Follows(u, q)
    BY ZenonT(40), <2>2 DEF Follows
  <2>. QED
    BY ZenonT(40), <1>1, <2>1, <2>3
<1>. QED
  BY ZenonT(40), <1>0, <1>2, <1>3, <1>4, <1>5, <1>6, <1>7, <1>8, <1>9, TasksStill DEF Next, Worker,
     Loop

\* A row at rest keeps its record, whatever its status becomes, unless that is
\* Completed.
LEMMA RestKeeps ==
  ASSUME NEW q \in Rows, Record(q), Resting(q), row'[q].attempts = row[q].attempts,
         row'[q].status = row[q].status \/ row'[q].status \notin {"Absent", "Completed"}
  PROVE  Record(q)'
<1>1. log'[q] = log[q] /\ stored \subseteq stored'
  BY ZenonT(40) DEF Resting
<1>2. (Unsent(q) /\ Counted(q) /\ Rising(q) /\ Delivered(q))'
  BY ZenonT(40), <1>1 DEF Record, Unsent, Counted, Rising, Delivered
<1>3. ASSUME NEW t \in Tasks
      PROVE  Standing(t, q)'
  <2>1. Standing(t, q) /\ Follows(t, q)
    BY ZenonT(40) DEF Record, Resting
  <2>2. CASE task'[t] = task[t]
    BY ZenonT(40), <1>1, <2>1, <2>2 DEF Standing
  <2>3. CASE task'[t] # task[t] /\ task'[t].pc \in Owning /\ task'[t].row = q
    <3>1. /\ task[t].row = q /\ task[t].pc \in Recording /\ task'[t].pc \in Recording \ {"write"}
          /\ task'[t].pc = "finish" /\ task'[t].res = "ok" => q \in stored'
      BY ZenonT(40), <2>1, <2>3 DEF Follows
    <3>. QED
      BY ZenonT(40), <1>1, <2>1, <3>1 DEF Standing, Recording
  <2>. QED
    BY ZenonT(40), <2>2, <2>3 DEF Standing
<1>. QED
  BY ZenonT(40), <1>2, <1>3 DEF Record

\* The attempts a row counts are its own.
LEMMA RecordStep ==
  ASSUME IInv, Recorded, [Next]_vars, NEW q \in Rows
  PROVE  Record(q)'
<1>0. /\ Types /\ GateHeld /\ Quiet /\ OwnerInFlight /\ LogTyped /\ Record(q)
      /\ row[q].attempts \in Nat /\ log[q] \in Seq(Attempt)
  BY ZenonT(40), RowShape DEF IInv, Recorded, LogTyped
<1>1. RecordEffect(q) /\ RowEffect(q)
  BY ZenonT(40), <1>0, RecordEffects, RowEffects
<1>2. CASE Resting(q)
  <2>1. CASE row'[q].status = row[q].status /\ Same(q)
    BY ZenonT(40), <1>0, <1>2, <2>1, RestKeeps DEF Same
  <2>2. CASE Sent(q)
    BY ZenonT(40), <1>0, <1>2, <2>2, RestKeeps DEF Sent, Record, Unsent
  <2>3. CASE Retried(q) \/ Dropped(q)
    BY ZenonT(40), <1>0, <1>2, <2>3, RestKeeps DEF Retried, Dropped, Same
  <2>4. CASE Claimed(q)
    <3>1. PICK t \in Tasks : task'[t].pc \in Owning /\ task'[t].row = q
      BY ZenonT(40), <2>4 DEF Claimed
    <3>2. Follows(t, q)
      BY ZenonT(40), <1>2 DEF Resting
    <3>3. task[t].pc \in Owning /\ task[t].row = q
      BY ZenonT(40), <3>1, <3>2 DEF Follows, Recording
    <3>. QED
      BY ZenonT(40), <1>0, <2>4, <3>3 DEF OwnerInFlight, Row, Claimed, InFlight
  <2>5. CASE Written(q) /\ row'[q].status # "Completed"
    BY ZenonT(40), <1>0, <1>2, <2>5, RestKeeps DEF Written, Settled, Same
  <2>6. CASE Written(q) /\ row'[q].status = "Completed"
    <3>1. PICK t \in Tasks : /\ task[t].row = q /\ task[t].pc = "write" /\ task[t].res = "ok"
                             /\ task'[t].pc \notin Owning
      BY ZenonT(40), <2>6 DEF Written
    <3>2. row'[q].attempts = row[q].attempts
      BY ZenonT(40), <2>6 DEF Written, Settled, Same
    <3>3. Standing(t, q) /\ task[t].pc \in Owning /\ task[t].pc \in Recording
      BY ZenonT(40), <1>0, <3>1 DEF Record, Recording, Owning, Steps
    <3>4. Delivered(q)'
      BY ZenonT(40), <1>2, <3>1, <3>2, <3>3 DEF Standing, Delivered, Resting
    <3>5. (Unsent(q) /\ Counted(q) /\ Rising(q))'
      BY ZenonT(40), <1>0, <1>2, <2>6, <3>2 DEF Record, Unsent, Counted, Rising, Resting
    <3>6. ASSUME NEW u \in Tasks
          PROVE  Standing(u, q)'
      <4>1. CASE u = t
        BY ZenonT(40), <3>1, <4>1 DEF Standing
      <4>2. CASE u # t /\ task'[u].pc \in Owning /\ task'[u].row = q
        <5>1. task[u].pc \in Owning /\ task[u].row = q
          BY ZenonT(40), <1>2, <4>2 DEF Resting, Follows, Recording
        <5>. QED
          BY ZenonT(40), <1>0, <3>1, <3>3, <4>2, <5>1, OwnerAlone
      <4>. QED
        BY ZenonT(40), <4>1, <4>2 DEF Standing
    <3>. QED
      BY ZenonT(40), <3>4, <3>5, <3>6 DEF Record
  <2>7. CASE poll.pc = "recover" /\ q \in poll.rows /\ Settled(q) /\ row'[q].status # "Completed"
    BY ZenonT(40), <1>0, <1>2, <2>7, RestKeeps DEF Settled, Same
  <2>. QED
    BY ZenonT(40), <1>1, <2>1, <2>2, <2>3, <2>4, <2>5, <2>6, <2>7 DEF RowEffect
<1>3. ASSUME NEW t \in Tasks, Starting(t, q)
      PROVE  Record(q)'
  <2>1. \A u \in Tasks \ {t} : ~(task'[u].pc \in Owning /\ task'[u].row = q)
    BY ZenonT(40), <1>0, <1>3 DEF Starting, Alone, OwnerInFlight, Row, InFlight
  <2>2. /\ log'[q] = log[q] /\ row'[q].attempts = row[q].attempts + 1
        /\ row'[q].status = "Preparing" /\ task'[t].pc = "insert"
    BY ZenonT(40), <1>3 DEF Starting
  <2>3. \A i \in DOMAIN log[q] : log[q][i].no \in 1..row[q].attempts
    BY ZenonT(40), <1>0 DEF Record, Counted
  <2>4. (Unsent(q) /\ Counted(q) /\ Rising(q) /\ Delivered(q))'
    BY <1>0, <2>2, <2>3 DEF Record, Unsent, Counted, Rising, Delivered
  <2>5. Standing(t, q)'
    BY <1>0, <2>2, <2>3 DEF Standing, Recording
  <2>. QED
    BY ZenonT(40), <2>1, <2>4, <2>5 DEF Record, Standing
<1>4. ASSUME NEW t \in Tasks, Inserting(t, q) \/ Ending(t, q)
      PROVE  \A u \in Tasks \ {t} : ~(task'[u].pc \in Owning /\ task'[u].row = q)
  BY <1>0, <1>4, OwnerAlone DEF Inserting, Ending, Alone, Owning, Steps
<1>5. ASSUME NEW t \in Tasks, Inserting(t, q) \/ Ending(t, q)
      PROVE  row'[q].status # "Completed" /\ row'[q] = row[q] /\ row[q].attempts > 0 /\ Standing(t, q)
  BY ZenonT(40), <1>0, <1>5 DEF Inserting, Ending, Owning, Steps, OwnerInFlight, Row, InFlight,
     Record, Standing
<1>6. ASSUME NEW t \in Tasks, Inserting(t, q)
      PROVE  Record(q)'
  <2>1. \A i \in DOMAIN log[q] : log[q][i].no < row[q].attempts
    BY ZenonT(40), <1>5, <1>6 DEF Standing, Inserting, Owning, Steps
  <2>2. /\ Len(log'[q]) = Len(log[q]) + 1 /\ DOMAIN log'[q] = 1..(Len(log[q]) + 1)
        /\ log'[q][Len(log[q]) + 1].no = row[q].attempts
        /\ \A i \in 1..Len(log[q]) : log'[q][i] = log[q][i]
        /\ DOMAIN log[q] = 1..Len(log[q]) /\ Len(log[q]) \in Nat /\ log'[q] # <<>>
    BY <1>0, <1>6 DEF Inserting
  <2>3. \A i \in DOMAIN log[q] : log[q][i].no \in 1..row[q].attempts
    BY <1>0 DEF Record, Counted
  <2>4. Counted(q)'
    <3> SUFFICES ASSUME NEW i \in 1..(Len(log[q]) + 1)
                 PROVE  log'[q][i].no \in 1..row[q].attempts
      BY ZenonT(40), <1>5, <1>6, <2>2 DEF Counted
    <3>1. CASE i \in DOMAIN log[q]
      BY ZenonT(40), <2>2, <2>3, <3>1
    <3>2. CASE i = Len(log[q]) + 1
      BY <1>0, <1>5, <1>6, <2>2, <3>2
    <3>. QED
      BY <2>2, <3>1, <3>2
  <2>5. Rising(q)'
    <3> SUFFICES ASSUME NEW i \in 1..(Len(log[q]) + 1), NEW j \in 1..(Len(log[q]) + 1), i < j
                 PROVE  log'[q][i].no < log'[q][j].no
      BY ZenonT(40), <2>2 DEF Rising
    <3>1. i \in DOMAIN log[q] /\ log'[q][i] = log[q][i]
      BY <2>2
    <3>2. CASE j \in DOMAIN log[q]
      BY ZenonT(40), <1>0, <2>2, <3>1, <3>2 DEF Record, Rising
    <3>3. CASE j = Len(log[q]) + 1
      BY ZenonT(40), <2>1, <2>2, <3>1, <3>3
    <3>. QED
      BY <2>2, <3>2, <3>3
  <2>6. Unsent(q)' /\ Delivered(q)'
    BY ZenonT(40), <1>0, <1>5, <1>6 DEF Record, Unsent, Delivered
  <2>7. Standing(t, q)'
    BY ZenonT(40), <1>5, <1>6, <2>2 DEF Standing, Inserting, Recording
  <2>. QED
    BY ZenonT(40), <1>4, <1>6, <2>4, <2>5, <2>6, <2>7 DEF Record, Standing
<1>7. ASSUME NEW t \in Tasks, Ending(t, q)
      PROVE  Record(q)'
  <2>1. /\ log[q] # <<>> /\ log[q][Len(log[q])].no = row[q].attempts
        /\ task[t].res = "ok" => q \in stored
    BY ZenonT(40), <1>5, <1>7 DEF Standing, Ending, Recording, Owning, Steps
  <2>2. /\ Len(log[q]) \in DOMAIN log[q] /\ DOMAIN log[q] = 1..Len(log[q])
        /\ log[q][Len(log[q])] \in Attempt
    BY <1>0, <2>1
  <2>3. /\ DOMAIN log'[q] = DOMAIN log[q] /\ Len(log'[q]) = Len(log[q])
        /\ \A i \in DOMAIN log[q] : log'[q][i].no = log[q][i].no
        /\ task[t].res = "ok" => log'[q][Len(log[q])].status = "Completed"
        /\ log'[q] # <<>>
    BY <1>0, <1>7, <2>1, <2>2 DEF Ending, Attempt
  <2>4. (Unsent(q) /\ Counted(q) /\ Rising(q) /\ Delivered(q))'
    BY ZenonT(40), <1>0, <1>5, <1>7, <2>3 DEF Record, Unsent, Counted, Rising, Delivered
  <2>5. Standing(t, q)'
    BY ZenonT(40), <1>5, <1>7, <2>1, <2>2, <2>3 DEF Standing, Ending, Recording
  <2>. QED
    BY ZenonT(40), <1>4, <1>7, <2>4, <2>5 DEF Record, Standing
<1>. QED
  BY ZenonT(40), <1>1, <1>2, <1>3, <1>6, <1>7 DEF RecordEffect

LEMMA LogTypedStep ==
  ASSUME Types, Recorded, [Next]_vars
  PROVE  LogTyped'
<1>0. LogTyped
  BY ZenonT(40) DEF Recorded
<1>1. ASSUME NEW t \in Tasks, InsertAttempt(t)
      PROVE  LogTyped'
  <2>1. Row(t) \in Rows /\ row[Row(t)].attempts \in Nat
    BY ZenonT(40), <1>1, WorkerShape, RowShape DEF InsertAttempt, At, Steps
  <2>2. Append(log[Row(t)], [no |-> row[Row(t)].attempts, status |-> "Preparing"]) \in Seq(Attempt)
    BY <1>0, <2>1 DEF LogTyped, Attempt
  <2>. QED
    BY ZenonT(40), <1>0, <1>1, <2>1, <2>2 DEF InsertAttempt, LogTyped
<1>2. ASSUME NEW t \in Tasks, FinishAttempt(t)
      PROVE  LogTyped'
  <2> DEFINE q == Row(t)
             n == Len(log[q])
             S == IF task[t].res = "ok" THEN "Completed" ELSE "Failed"
             new == [log[q] EXCEPT ![n] = [log[q][n] EXCEPT !.status = S]]
  <2>1. q \in Rows /\ task[t].pc = "finish" /\ log[q] \in Seq(Attempt)
    BY ZenonT(40), <1>0, <1>2, WorkerShape DEF FinishAttempt, At, Steps, LogTyped
  <2>2. log[q] # <<>>
    BY ZenonT(40), <2>1 DEF Recorded, Record, Standing, Recording, Owning, Steps, Row
  <2>3. n \in DOMAIN log[q] /\ log[q][n] \in Attempt
    BY <2>1, <2>2
  <2>4. [log[q][n] EXCEPT !.status = S] \in Attempt
    BY ZenonT(40), <2>3 DEF Attempt
  <2>5. new \in Seq(Attempt)
    <3> HIDE DEF S
    <3> DEFINE v == [log[q][n] EXCEPT !.status = S]
    <3>1. v \in Attempt
      BY ZenonT(40), <2>4
    <3> HIDE DEF v
    <3>2. [log[q] EXCEPT ![n] = v] \in Seq(Attempt)
      BY ZenonT(40), <2>1, <3>1, ReplacedInSeq
    <3>. QED
      BY ZenonT(40), <3>2 DEF v
  <2>6. log' = [log EXCEPT ![q] = new]
    BY ZenonT(40), <1>2 DEF FinishAttempt
  <2> HIDE DEF new
  <2>. QED
    BY ZenonT(40), <1>0, <2>1, <2>5, <2>6 DEF LogTyped
<1>3. ASSUME log' = log
      PROVE  LogTyped'
  BY ZenonT(40), <1>0, <1>3 DEF LogTyped
<1>. QED
  BY ZenonT(40), <1>1, <1>2, <1>3, Stores

LEMMA RecordsInit == Init => Recorded
<1> SUFFICES ASSUME Init PROVE Recorded
  OBVIOUS
<1>1. /\ log = [r \in Rows |-> <<>>] /\ \A t \in Tasks : task[t].pc = "free"
      /\ \A r \in Rows : row[r].status = "Absent" /\ row[r].attempts = 0
  <2>1. /\ log = [r \in Rows |-> <<>>] /\ \A t \in Tasks : task[t] = Free
        /\ \A r \in Rows : row[r] = Entry("Absent", 0, FALSE)
    BY ZenonT(40) DEF Init
  <2>. QED
    BY <2>1 DEF Entry, Free
<1>2. LogTyped /\ \A q \in Rows : log[q] = <<>>
  BY <1>1 DEF LogTyped
<1>3. \A q \in Rows : \A i \in DOMAIN log[q] : FALSE
  BY <1>2
<1>4. \A t \in Tasks, q \in Rows : Standing(t, q)
  BY ZenonT(40), <1>1 DEF Standing, Owning, Steps
<1>5. \A q \in Rows : Unsent(q) /\ Counted(q) /\ Rising(q) /\ Delivered(q)
  BY ZenonT(40), <1>1, <1>3 DEF Unsent, Counted, Rising, Delivered
<1>. QED
  BY ZenonT(40), <1>2, <1>4, <1>5 DEF Recorded, Record

\* The records of every row are in order.
THEOREM Records == Spec => []Recorded
<1>1. Init => Recorded
  BY RecordsInit
<1>2. IInv /\ Recorded /\ [Next]_vars => Recorded'
  BY ZenonT(40), RecordStep, LogTypedStep DEF Recorded, IInv
<1>. QED
  BY <1>1, <1>2, Inductive, PTL DEF Spec

\* A row says Completed only when the device confirmed the whole file and the
\* attempt that sent it is recorded as completed (service.rs:588-605), through
\* errors after the upload, detached workers and restarts.
THEOREM DeliveredWhenCompleted == Spec => []CompletedWasDelivered
<1>1. Recorded => CompletedWasDelivered
  BY ZenonT(40) DEF Recorded, Record, Delivered, CompletedWasDelivered
<1>. QED
  BY <1>1, Records, PTL

\* No attempt is recorded twice: the numbers of a row's attempts rise
\* (service.rs:562-574).
THEOREM NumbersRise == Spec => []AttemptsRise
<1>1. Recorded => AttemptsRise
  <2>1. SUFFICES ASSUME Recorded, NEW r \in Rows, NEW j \in DOMAIN log[r], NEW i \in 1..(j - 1)
                 PROVE  log[r][i].no < log[r][j].no
    BY <2>1 DEF AttemptsRise
  <2>2. log[r] \in Seq(Attempt)
    BY <2>1 DEF Recorded, LogTyped
  <2>3. i \in DOMAIN log[r] /\ i < j
    BY <2>1, <2>2
  <2>. QED
    BY Zenon, <2>1, <2>3 DEF Recorded, Record, Rising
<1>. QED
  BY <1>1, Records, PTL

\* The guarded update of the claim (service.rs:530-534) keeps an attempt from
\* starting while its delay runs.
THEOREM DelaysHold == Spec => RetryWaits
<1>1. ASSUME IInv, Recorded, [Next]_vars, NEW q \in Rows, row'[q].attempts # row[q].attempts
      PROVE  ~row[q].later
  <2>1. RowEffect(q) /\ Unsent(q)
    BY ZenonT(40), <1>1, RowEffects DEF IInv, Recorded, Record
  <2>2. ~Sent(q)
    BY ZenonT(40), <1>1, <2>1 DEF Sent, Unsent
  <2>. QED
    BY ZenonT(40), <1>1, <2>1, <2>2 DEF RowEffect, Same, Retried, Dropped, Claimed, Written, Settled
<1>2. IInv /\ Recorded /\ [Next]_vars =>
        [\A r \in Rows : row'[r].attempts # row[r].attempts => ~row[r].later]_vars
  BY ZenonT(40), <1>1
<1>. QED
  BY <1>2, Inductive, Records, PTL DEF Spec, RetryWaits

-------------------------------------------------------------------------------
(* The rest of the types: the order of the rows, the device, the loop's tasks
   and the counters. *)

Listed ==
  /\ queued \in Seq(Rows) /\ IsInjective(queued)
  /\ Range(queued) = {r \in Rows : row[r].status # "Absent"}
Sized ==
  /\ stored \subseteq Rows
  /\ poll.tasks \in Seq(Tasks)
  /\ retries \in [Rows -> 0..MaxRetries]
  /\ faults \in 0..MaxFaults /\ crashes \in 0..MaxCrashes

\* Only sending a row lists it.
LEMMA QueueGrows ==
  ASSUME [Next]_vars
  PROVE  queued' = queued \/ \E r \in Rows : Enqueue(r)
<1>1. ASSUME NEW t \in Tasks, Worker(t)
      PROVE  queued' = queued
  BY Zenon, <1>1 DEF Worker, ReadRow, Claim, Claims, InsertAttempt, Prepare, MarkTransferring,
     Upload,
     FinishAttempt, WriteOutcome, store
<1>2. ASSUME NEW r \in Rows, Retry(r) \/ Cancel(r) \/ Elapse(r) \/ RecoverOne(r)
      PROVE  queued' = queued
  BY Zenon, <1>2 DEF Retry, Cancel, Elapse, RecoverOne, store
<1>. QED
  BY ZenonT(40), <1>1, <1>2, RowsStill DEF Next, Loop, User

\* Every row that was sent is listed once, and stays.
LEMMA ListedStep ==
  ASSUME IInv, Listed, [Next]_vars
  PROVE  Listed'
<1>0. Types /\ Quiet /\ OwnerInFlight /\ queued \in Seq(Rows)
  BY ZenonT(40) DEF IInv, Listed
<1>1. CASE queued' = queued
  <2>1. ASSUME NEW q \in Rows
        PROVE  row'[q].status = "Absent" <=> row[q].status = "Absent"
    <3>1. RowEffect(q)
      BY ZenonT(40), <1>0, RowEffects
    <3>2. Append(queued, q) # queued
      BY <1>0
    <3>3. ~Sent(q)
      BY ZenonT(40), <1>1, <3>2 DEF Sent
    <3>4. Written(q) => row[q].status \in InFlight
      BY ZenonT(40), <1>0 DEF Written, OwnerInFlight, Row
    <3>5. poll.pc = "recover" /\ q \in poll.rows => row[q].status \in InFlight
      BY ZenonT(40), <1>0 DEF Quiet
    <3>6. Written(q) \/ Settled(q) => row'[q].status # "Absent"
      BY ZenonT(40) DEF Written, Settled
    <3>. QED
      BY ZenonT(40), <3>1, <3>3, <3>4, <3>5, <3>6 DEF RowEffect, Retried, Dropped, Claimed, InFlight
  <2>2. {r \in Rows : row[r].status # "Absent"}' = {r \in Rows : row[r].status # "Absent"}
    BY ZenonT(40), <2>1
  <2>. QED
    BY <1>1, <2>2 DEF Listed, Range, IsInjective
<1>2. ASSUME NEW r \in Rows, Enqueue(r)
      PROVE  Listed'
  <2>1. queued' = Append(queued, r) /\ row[r].status = "Absent"
    BY ZenonT(40), <1>2 DEF Enqueue
  <2>2. \A q \in Rows : row'[q].status # "Absent" <=> row[q].status # "Absent" \/ q = r
    <3>1. \A q \in Rows : row'[q] = IF q = r THEN Entry("Queued", 0, FALSE) ELSE row[q]
      BY ZenonT(40), <1>0, <1>2 DEF Enqueue, Types
    <3>. QED
      BY <2>1, <3>1 DEF Entry
  <2>3. /\ queued' \in Seq(Rows) /\ DOMAIN queued' = 1..(Len(queued) + 1)
        /\ DOMAIN queued = 1..Len(queued) /\ Len(queued) \in Nat
        /\ queued'[Len(queued) + 1] = r
        /\ \A i \in 1..Len(queued) : queued'[i] = queued[i]
    BY <1>0, <2>1
  <2>4. Range(queued)' = Range(queued) \cup {r}
    BY <2>3 DEF Range
  <2>5. \A i \in DOMAIN queued : queued[i] # r
    BY ZenonT(40), <2>1 DEF Listed, Range
  <2>6. IsInjective(queued)'
    BY <2>3, <2>5 DEF Listed, IsInjective
  <2>7. {q \in Rows : row[q].status # "Absent"}' = {q \in Rows : row[q].status # "Absent"} \cup {r}
    BY ZenonT(40), <2>2
  <2>. QED
    BY ZenonT(40), <2>3, <2>4, <2>6, <2>7 DEF Listed
<1>. QED
  BY ZenonT(40), <1>1, <1>2, QueueGrows

LEMMA SizedStep ==
  ASSUME IInv, Sized, [Next]_vars
  PROVE  Sized'
<1>0. Types
  BY ZenonT(40) DEF IInv
<1>1. stored' \subseteq Rows
  <2>1. ASSUME NEW t \in Tasks, Upload(t)
        PROVE  stored' \subseteq Rows
    BY <1>0, <2>1, WorkerShape DEF Upload, Uploaded, At, Steps, Sized
  <2>2. ASSUME Crash
        PROVE  stored' \subseteq Rows
    <3>1. \A t \in Tasks : At(t, "upload") => Row(t) \in Rows
      BY ZenonT(40), <1>0, WorkerShape DEF At, Steps
    <3>. QED
      BY ZenonT(40), <2>2, <3>1 DEF Crash, Sized
  <2>. QED
    BY ZenonT(40), <2>1, <2>2, Stores DEF Sized
<1>2. poll'.tasks \in Seq(Tasks)
  <2>1. CASE Poll
    <3> DEFINE n == Len(FirstDue)
    <3> HIDE DEF n
    <3>1. n \in 1..MaxTasks /\ \E s \in [1..n -> FreeTasks] : poll' = PollAt("await", {}, s)
      BY ZenonT(40), <2>1 DEF Poll, n
    <3>2. PICK slots \in [1..n -> FreeTasks] : poll' = PollAt("await", {}, slots)
      BY ZenonT(40), <3>1
    <3>3. slots \in [1..n -> Tasks] /\ n \in Nat /\ poll'.tasks = slots
      BY <3>1, <3>2, DeliveryAssumption DEF FreeTasks, PollAt
    <3>. QED
      BY <3>3
  <2>2. CASE Await
    BY <2>2 DEF Await, PollAt, Sized
  <2>3. CASE \/ Boot \/ RecoverDone \/ AwaitDone \/ AwaitFails \/ RecoverFails \/ Crash
             \/ \E r \in Rows : RecoverOne(r)
    <3>1. PICK pc, rs : poll' = PollAt(pc, rs, <<>>)
      BY <2>3, ZenonT(40) DEF Boot, RecoverDone, AwaitDone, AwaitFails, RecoverFails, Crash,
         RecoverOne
    <3>2. poll'.tasks = <<>>
      BY ZenonT(40), <3>1 DEF PollAt
    <3>. QED
      BY <3>2
  <2>. QED
    BY ZenonT(40), <2>1, <2>2, <2>3, PollStill DEF Next, Loop, Sized
<1>3. retries' \in [Rows -> 0..MaxRetries]
  <2>1. ASSUME NEW r \in Rows, Retry(r)
        PROVE  retries' \in [Rows -> 0..MaxRetries]
    <3>1. retries[r] + 1 \in 0..MaxRetries
      BY <2>1, DeliveryAssumption DEF Retry, Sized
    <3>. QED
      BY ZenonT(40), <2>1, <3>1 DEF Retry, Sized
  <2>. QED
    BY ZenonT(40), <2>1, RetriesStep DEF Sized
<1>4. faults' \in 0..MaxFaults /\ crashes' \in 0..MaxCrashes
  BY FaultsCounted, DeliveryAssumption DEF Sized
<1>. QED
  BY ZenonT(40), <1>1, <1>2, <1>3, <1>4 DEF Sized

LEMMA ListsInit == Init => Listed /\ Sized
<1> SUFFICES ASSUME Init PROVE Listed /\ Sized
  BY ZenonT(40)
<1>1. /\ queued = <<>> /\ stored = {} /\ poll = PollAt("boot", {}, <<>>)
      /\ retries = [r \in Rows |-> 0] /\ faults = 0 /\ crashes = 0
      /\ \A r \in Rows : row[r] = Entry("Absent", 0, FALSE)
  BY DEF Init
<1>2. \A r \in Rows : row[r].status = "Absent"
  <2>1. Entry("Absent", 0, FALSE).status = "Absent"
    BY ZenonT(40) DEF Entry
  <2>. QED
    BY <1>1, <2>1, ZenonT(40)
<1>3. poll.tasks = <<>>
  BY ZenonT(40), <1>1 DEF PollAt
<1>4. Listed
  BY <1>1, <1>2 DEF Listed, Range, IsInjective
<1>5. poll.tasks \in Seq(Tasks)
  BY <1>3
<1>6. retries \in [Rows -> 0..MaxRetries] /\ faults \in 0..MaxFaults /\ crashes \in 0..MaxCrashes
  BY <1>1, DeliveryAssumption
<1>. QED
  BY ZenonT(40), <1>1, <1>4, <1>5, <1>6 DEF Sized

\* Type correctness, for any rows, devices and bounds: the attempts of a row and
\* the numbers in its log stay within the budget, queued lists every row once.
THEOREM TypeCorrect == Spec => []TypeOK
<1>1. Init => Listed /\ Sized
  BY ZenonT(40), ListsInit
<1>2. IInv /\ Listed /\ Sized /\ [Next]_vars => Listed' /\ Sized'
  BY ZenonT(40), ListedStep, SizedStep
<1>3. IInv /\ Recorded /\ Listed /\ Sized => TypeOK
  <2> SUFFICES ASSUME IInv, Recorded, Listed, Sized
               PROVE  TypeOK
    BY ZenonT(40)
  <2>1. Types /\ BudgetHolds
    BY ZenonT(40) DEF IInv
  <2>2. \A r \in Rows : /\ row[r] \in [status : Statuses, attempts : Nat, later : BOOLEAN]
                        /\ row[r].attempts \in 0..(MaxAttempts + MaxRetries)
    <3> SUFFICES ASSUME NEW r \in Rows
                 PROVE  /\ row[r] \in [status : Statuses, attempts : Nat, later : BOOLEAN]
                        /\ row[r].attempts \in 0..(MaxAttempts + MaxRetries)
      BY ZenonT(40)
    <3>1. row[r] \in EntryType /\ row[r].attempts \in Nat
      BY ZenonT(40), <2>1, RowShape DEF Types
    <3>2. retries[r] \in 0..MaxRetries /\ row[r].attempts <= MaxAttempts + retries[r]
      BY ZenonT(40), <2>1 DEF Sized, BudgetHolds
    <3>. QED
      BY <3>1, <3>2, DeliveryAssumption DEF EntryType
  <2>3. row \in [Rows -> [status : Statuses, attempts : 0..(MaxAttempts + MaxRetries),
                          later : BOOLEAN]]
    BY ZenonT(40), <2>1, <2>2 DEF Types
  <2>4. ASSUME NEW r \in Rows
        PROVE  log[r] \in Seq([no : 1..(MaxAttempts + MaxRetries),
                               status : {"Preparing", "Completed", "Failed"}])
    <3>1. log[r] \in Seq(Attempt) /\ Counted(r)
      BY ZenonT(40) DEF Recorded, Record, LogTyped
    <3>2. \A i \in 1..Len(log[r]) : log[r][i] \in Attempt /\ log[r][i].no \in 1..row[r].attempts
      BY <3>1 DEF Counted
    <3>3. \A i \in 1..Len(log[r]) : log[r][i] \in [no : 1..(MaxAttempts + MaxRetries),
                               status : {"Preparing", "Completed", "Failed"}]
      BY <2>2, <3>2, DeliveryAssumption DEF Attempt
    <3> DEFINE A == [no : 1..(MaxAttempts + MaxRetries),
                     status : {"Preparing", "Completed", "Failed"}]
    <3> HIDE DEF A
    <3>4. Len(log[r]) \in Nat /\ log[r] \in [1..Len(log[r]) -> Attempt]
      BY <3>1
    <3>5. log[r] \in [1..Len(log[r]) -> A]
      BY ZenonT(40), <3>3, <3>4 DEF A
    <3>6. log[r] \in Seq(A)
      BY <3>4, <3>5
    <3>. QED
      BY ZenonT(40), <3>6 DEF A
  <2>5. ASSUME NEW t \in Tasks
        PROVE  \/ task[t] = Free
               \/ \E e \in BOOLEAN : task[t] = Over(e)
               \/ /\ task[t].pc \in Steps /\ task[t].row \in Rows
                  /\ task[t].res \in {"none", "ok", "retryable", "final"}
    <3>1. task[t] \in TaskType
      BY <2>1 DEF Types
    <3>. QED
      BY ZenonT(40), <3>1 DEF TaskType, Free, Over, Results
  <2>. QED
    BY Zenon, <2>1, <2>3, <2>4, <2>5 DEF TypeOK, Types, Listed, Sized, PollPcs
<1>. QED
  BY <1>1, <1>2, <1>3, Inductive, Records, PTL DEF Spec
===============================================================================
