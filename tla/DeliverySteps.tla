---------------------------- MODULE DeliverySteps -----------------------------
(***************************************************************************)
(* What every step of the delivery queue does to its rows, its workers and  *)
(* its recovery: the lemmas DeliveryProofs rests on. Each of the step       *)
(* lemmas has one step per action.                                          *)
(***************************************************************************)
EXTENDS CrossPointDelivery, TLAPS

USE SMTT(30)

\* Replacing an element of a sequence by another of its kind.
LEMMA ReplacedInSeq ==
  ASSUME NEW S, NEW s \in Seq(S), NEW i, NEW v \in S
  PROVE  [s EXCEPT ![i] = v] \in Seq(S)
<1> DEFINE f == [s EXCEPT ![i] = v]
<1>1. PICK n \in Nat : s \in [1..n -> S]
  OBVIOUS
<1>2. f \in [1..n -> S]
  BY Zenon, <1>1
<1> HIDE DEF f
<1>3. f \in Seq(S)
  BY <1>1, <1>2
<1>. QED
  BY <1>3 DEF f

Results == {"none", "ok", "retryable", "final"}
EntryType == [status : Statuses, attempts : Nat, later : BOOLEAN]
TaskType ==
  [pc : {"free"}] \cup [pc : {"over"}, err : BOOLEAN]
    \cup [pc : Steps, row : Rows, res : Results]
PollPcs == {"boot", "recover", "poll", "await"}

\* The shape of the state, as far as the proofs need it.
Types ==
  /\ device \in [Rows -> Devices]
  /\ row \in [Rows -> EntryType]
  /\ task \in [Tasks -> TaskType]
  /\ gate \in [Devices -> Tasks \cup {Nobody}]
  /\ poll.pc \in PollPcs /\ poll.rows \subseteq Rows
  /\ retries \in [Rows -> Nat]
  /\ faults \in Nat


\* The constructors build values of their types.
LEMMA Shapes ==
  /\ \A s \in Statuses, n \in Nat, b \in BOOLEAN : Entry(s, n, b) \in EntryType
  /\ \A pc \in Steps, r \in Rows, x \in Results : Working(pc, r, x) \in TaskType
  /\ Free \in TaskType
  /\ \A e \in BOOLEAN : Over(e) \in TaskType
BY DEF Entry, Working, Free, Over, EntryType, TaskType, Results

\* ... and have the fields they were given.
LEMMA Fields ==
  /\ \A s, n, b : /\ Entry(s, n, b).status = s
                  /\ Entry(s, n, b).attempts = n
                  /\ Entry(s, n, b).later = b
  /\ \A pc, r, x : /\ Working(pc, r, x).pc = pc
                   /\ Working(pc, r, x).row = r
                   /\ Working(pc, r, x).res = x
  /\ Free.pc = "free"
  /\ \A e : Over(e).pc = "over"
  /\ \A pc, r, x : PollAt(pc, r, x).pc = pc /\ PollAt(pc, r, x).rows = r
BY DEF Entry, Working, Free, Over, PollAt

\* A worker at one of its steps has a row, and that row a device.
LEMMA WorkerShape ==
  ASSUME Types, NEW t \in Tasks, task[t].pc \in Steps
  PROVE  Row(t) \in Rows /\ GateOf(t) \in Devices /\ task[t].res \in Results
<1>1. task[t] \in TaskType
  BY DEF Types
<1>2. task[t] \in [pc : Steps, row : Rows, res : Results]
  BY <1>1 DEF TaskType, Steps, Results
<1>. QED
  BY <1>2 DEF Types, Row, GateOf

\* A row has an entry.
LEMMA RowShape ==
  ASSUME Types, NEW r \in Rows
  PROVE  /\ row[r].status \in Statuses
         /\ row[r].attempts \in Nat
         /\ row[r].later \in BOOLEAN
BY DEF Types, EntryType

\* The updates of the actions keep the shapes.
LEMMA RowUpdate ==
  ASSUME Types, NEW r \in Rows, NEW s \in Statuses, NEW n \in Nat, NEW b \in BOOLEAN
  PROVE  [row EXCEPT ![r] = Entry(s, n, b)] \in [Rows -> EntryType]
BY Shapes DEF Types

LEMMA TaskUpdate ==
  ASSUME Types, NEW t, NEW v \in TaskType
  PROVE  [task EXCEPT ![t] = v] \in [Tasks -> TaskType]
BY Zenon DEF Types

LEMMA TaskMoves ==
  ASSUME Types, NEW t \in Tasks, task[t].pc \in Steps, NEW pc \in Steps
  PROVE  /\ Goto(t, pc) => task' \in [Tasks -> TaskType]
         /\ \A x \in Results : Result(t, pc, x) => task' \in [Tasks -> TaskType]
<1>1. Row(t) \in Rows /\ task[t].res \in Results
  BY WorkerShape
<1>2. \A x \in Results : Working(pc, Row(t), x) \in TaskType
  BY <1>1, Shapes
<1>. QED
  BY <1>1, <1>2, TaskUpdate DEF Goto, Result

LEMMA TaskReturns ==
  ASSUME Types, NEW t \in Tasks, NEW e \in BOOLEAN
  PROVE  /\ Returned(t, e) \in [Tasks -> TaskType]
         /\ Return(t, e) => /\ task' \in [Tasks -> TaskType]
                            /\ gate' \in [Devices -> Tasks \cup {Nobody}]
<1>1. Returned(t, e) \in [Tasks -> TaskType]
  BY Shapes, TaskUpdate DEF Returned
<1>. QED
  BY <1>1 DEF Return, Types

\* One worker is replaced, the others stay.
LEMMA TaskAt ==
  ASSUME Types, NEW t \in Tasks, NEW u \in Tasks, NEW v,
         task' = [task EXCEPT ![t] = v]
  PROVE  /\ u = t => task'[u] = v
         /\ u # t => task'[u] = task[u]
BY DEF Types

LEMMA RowTyped ==
  ASSUME Types
  PROVE  row \in [Rows -> EntryType]
BY DEF Types

LEMMA FaultsCount ==
  ASSUME Types
  PROVE  faults \in Nat
BY ZenonT(40) DEF Types

\* A worker that moves on keeps its row; one that returns is at no step.
LEMMA MoveAt ==
  ASSUME Types, NEW t \in Tasks, NEW u \in Tasks, NEW pc, NEW x,
         Goto(t, pc) \/ Result(t, pc, x)
  PROVE  /\ u = t => task'[u].pc = pc /\ task'[u].row = task[u].row
         /\ u # t => task'[u] = task[u]
<1>1. PICK y : task' = [task EXCEPT ![t] = Working(pc, task[t].row, y)]
  BY DEF Goto, Result, Row
<1>2. /\ u = t => task'[u] = Working(pc, task[t].row, y)
      /\ u # t => task'[u] = task[u]
  BY Zenon, <1>1, TaskAt
<1>. QED
  BY <1>2, Fields

LEMMA ReturnAt ==
  ASSUME Types, NEW t \in Tasks, NEW u \in Tasks, NEW e,
         task' = Returned(t, e)
  PROVE  /\ u = t => task'[u].pc \in {"free", "over"}
         /\ u # t => task'[u] = task[u]
<1>1. PICK v \in {Free, Over(e)} : task' = [task EXCEPT ![t] = v]
  BY Zenon DEF Returned
<1>2. /\ u = t => task'[u] = v
      /\ u # t => task'[u] = task[u]
  BY Zenon, <1>1, TaskAt
<1>. QED
  BY <1>2, Fields

\* Past the semaphore a worker holds the permit of its row's device.
GateHeld ==
  \A t \in Tasks : task[t].pc \in Steps \ {"gate"} => gate[GateOf(t)] = t

\* No worker runs before the recovery is over, and the rows it has read and
\* not yet written are in flight still.
Quiet ==
  /\ poll.pc \in {"boot", "recover"} => \A t \in Tasks : task[t] = Free
  /\ poll.pc = "recover" => \A r \in poll.rows : row[r].status \in InFlight

\* A worker past its claim finds its row in flight: the unguarded updates of
\* process_one overwrite nothing else.
OwnerInFlight ==
  \A t \in Tasks : task[t].pc \in Owning => row[Row(t)].status \in InFlight

IInv == Types /\ GateHeld /\ Quiet /\ OwnerInFlight /\ InFlightIsOwned /\ BudgetHolds

\* A worker that returns frees its own permit and no other.
LEMMA ReturnKeepsGates ==
  ASSUME Types, GateHeld, NEW t \in Tasks, task[t].pc \in Steps \ {"gate"},
         NEW e, Return(t, e), UNCHANGED device
  PROVE  GateHeld'
<1> SUFFICES ASSUME NEW u \in Tasks, task'[u].pc \in Steps \ {"gate"}
             PROVE  gate'[GateOf(u)'] = u
  BY ZenonT(40) DEF GateHeld
<1>1. u # t /\ task'[u] = task[u]
  BY ZenonT(40), ReturnAt DEF Return, Steps
<1>2. gate[GateOf(u)] = u /\ gate[GateOf(t)] = t /\ GateOf(u)' = GateOf(u)
  BY ZenonT(40), <1>1 DEF GateHeld, GateOf, Row
<1>3. GateOf(u) \in Devices
  BY ZenonT(40), <1>1, WorkerShape
<1>. QED
  BY <1>1, <1>2, <1>3 DEF Return, Types

\* A worker that moves on past the semaphore keeps its permit.
LEMMA MoveKeepsGates ==
  ASSUME Types, GateHeld, NEW t \in Tasks, task[t].pc \in Steps \ {"gate"},
         NEW pc, NEW x, Goto(t, pc) \/ Result(t, pc, x), UNCHANGED <<gate, device>>
  PROVE  GateHeld'
<1> SUFFICES ASSUME NEW u \in Tasks, task'[u].pc \in Steps \ {"gate"}
             PROVE  gate'[GateOf(u)'] = u
  BY ZenonT(40) DEF GateHeld
<1>1. task'[u].row = task[u].row /\ task[u].pc \in Steps \ {"gate"}
  <2>1. /\ u = t => task'[u].row = task[u].row
        /\ u # t => task'[u] = task[u]
    BY Zenon, MoveAt
  <2>. QED
    BY <2>1
<1>2. GateOf(u)' = GateOf(u)
  BY <1>1 DEF GateOf, Row
<1>3. gate[GateOf(u)] = u
  BY <1>1 DEF GateHeld
<1>. QED
  BY ZenonT(40), <1>2, <1>3

-------------------------------------------------------------------------------
(* What a step does to a row, to a worker and to the recovery. *)

Same(q) == row'[q].attempts = row[q].attempts /\ retries'[q] = retries[q]

\* What recovery and the last update of a worker may write.
Settled(q) ==
  /\ Same(q)
  /\ \/ row'[q].status \in {"Completed", "Failed"}
     \/ row'[q].status = "Queued" /\ row[q].attempts < MaxAttempts

Sent(q) ==
  /\ row[q].status = "Absent" /\ row'[q].status = "Queued"
  /\ row'[q].attempts = 0 /\ retries'[q] = retries[q]
  /\ queued' = Append(queued, q)
Retried(q) ==
  /\ row[q].status = "Failed" /\ row'[q].status = "Queued"
  /\ row'[q].attempts = row[q].attempts /\ retries'[q] = retries[q] + 1
Dropped(q) == row[q].status = "Queued" /\ row'[q].status = "Cancelled" /\ Same(q)
Claimed(q) ==
  /\ row[q].status = "Queued" /\ ~row[q].later /\ row'[q].status = "Preparing"
  /\ row'[q].attempts = row[q].attempts + 1 /\ retries'[q] = retries[q]
  /\ \E t \in Tasks : task'[t].pc \in Owning /\ task'[t].row = q
Written(q) ==
  \E t \in Tasks :
    /\ task[t].pc \in Owning /\ task[t].row = q
    /\ \/ /\ row'[q].status = "Transferring" /\ Same(q)
          /\ task'[t].pc \in Owning /\ task'[t].row = q
       \/ /\ Settled(q) /\ task'[t].pc \notin Owning
          /\ row'[q].status = "Completed" => task[t].pc = "write" /\ task[t].res = "ok"

RowEffect(q) ==
  \/ row'[q].status = row[q].status /\ Same(q)
  \/ Sent(q) \/ Retried(q) \/ Dropped(q) \/ Claimed(q) \/ Written(q)
  \/ poll.pc = "recover" /\ q \in poll.rows /\ Settled(q) /\ row'[q].status # "Completed"

TaskEffect(u) ==
  \/ task'[u] = task[u]
  \/ task[u].pc \notin Owning /\ task'[u].pc \notin Owning
  \/ task[u].pc \in Owning /\ task'[u].pc \in Owning /\ task'[u].row = task[u].row
  \/ task[u].pc = "claim" /\ task'[u].pc \in Owning /\ row'[task'[u].row].status = "Preparing"
  \/ /\ task[u].pc \in Owning /\ task'[u].pc \notin Owning
     /\ row'[task[u].row].status \notin InFlight \/ faults' > 0 \/ poll'.pc = "boot"

Recovering(q) == poll.pc = "boot" \/ (poll.pc = "recover" /\ q \in poll.rows)
PollEffect(q) ==
  Recovering(q) =>
    Recovering(q)' \/ row'[q].status \notin InFlight \/ faults' > 0

-------------------------------------------------------------------------------
(* What the kinds of steps leave alone. *)

LEMMA TasksStill ==
  ASSUME \/ UNCHANGED vars \/ Boot \/ RecoverDone \/ RecoverFails \/ AwaitDone
         \/ \E r \in Rows : User(r) \/ Elapse(r) \/ RecoverOne(r)
  PROVE  UNCHANGED <<task, gate, device, log, stored>>
BY Zenon DEF vars, Boot, RecoverDone, RecoverFails, AwaitDone, User, Enqueue, Retry, Cancel, Elapse,
   RecoverOne, store, past

\* The loop spawns a worker in a free slot, and frees the slots of those it awaited.
LEMMA LoopTasks ==
  ASSUME Types, NEW u \in Tasks, Poll \/ Await \/ AwaitFails
  PROVE  \/ task'[u] = task[u]
         \/ task[u].pc \in {"free", "over"} /\ task'[u].pc \in {"free", "gate"}
<1>1. CASE Poll
  BY <1>1, Fields DEF Poll, FreeTasks, Spawned, Assigned, Types
<1>2. CASE Await
  <2>1. CASE u = Head(poll.tasks)
    <3>1. task[u] = Over(FALSE) /\ task' = [task EXCEPT ![u] = Free]
      BY Zenon, <1>2, <2>1 DEF Await
    <3>2. task'[u] = Free
      BY ZenonT(40), <3>1 DEF Types
    <3>3. task[u].pc = "over" /\ task'[u].pc = "free"
      BY <3>1, <3>2 DEF Over, Free
    <3>. QED
      BY <3>3
  <2>2. CASE u # Head(poll.tasks)
    BY ZenonT(40), <1>2, <2>2 DEF Await, Types
  <2>. QED
    BY ZenonT(40), <2>1, <2>2
<1>3. CASE AwaitFails
  BY ZenonT(40), <1>3, Fields DEF AwaitFails
<1>. QED
  BY ZenonT(40), <1>1, <1>2, <1>3

LEMMA RowsStill ==
  ASSUME \/ UNCHANGED vars \/ Boot \/ RecoverDone \/ RecoverFails \/ Poll \/ Await \/ AwaitDone
         \/ AwaitFails \/ Crash
         \/ \E t \in Tasks : \/ Acquire(t) \/ ReadRow(t) \/ InsertAttempt(t) \/ Prepare(t)
                             \/ Upload(t) \/ FinishAttempt(t) \/ DbError(t)
  PROVE  UNCHANGED <<row, queued, device, retries>>
<1>1. ASSUME NEW t \in Tasks,
             \/ Acquire(t) \/ ReadRow(t) \/ InsertAttempt(t) \/ Prepare(t)
             \/ Upload(t) \/ FinishAttempt(t) \/ DbError(t)
      PROVE  UNCHANGED <<row, queued, device, retries>>
  BY Zenon, <1>1 DEF Acquire, ReadRow, InsertAttempt, Prepare, Upload, FinishAttempt, DbError,
     Faulted,
     store, past
<1>. QED
  BY Zenon, <1>1 DEF vars, Boot, RecoverDone, RecoverFails, Poll, Await, AwaitDone, AwaitFails,
     Crash,
     store, past

\* A worker leaves the loop alone, and so does the user.
LEMMA PollStill ==
  ASSUME \/ UNCHANGED vars
         \/ \E r \in Rows : User(r) \/ Elapse(r)
         \/ \E t \in Tasks : Acquire(t) \/ Worker(t) \/ DbError(t)
  PROVE  UNCHANGED <<poll, device>>
<1>1. ASSUME NEW t \in Tasks, Acquire(t) \/ Worker(t) \/ DbError(t)
      PROVE  UNCHANGED <<poll, device>>
  BY Zenon, <1>1 DEF Worker, Acquire, ReadRow, Claim, Claims, InsertAttempt, Prepare,
     MarkTransferring, Upload, FinishAttempt, WriteOutcome, DbError, Faulted, past
<1>. QED
  BY Zenon, <1>1 DEF User, Enqueue, Retry, Cancel, Elapse, vars, past

\* A worker waits at its semaphore, goes on to the claim, crosses it, goes on past
\* it, or returns.
Crosses(t) == Claim(t) /\ Due(Row(t))
GoesOn(t) ==
  /\ task[t].pc \in Owning
  /\ \E pc \in Owning, x \in Results : Goto(t, pc) \/ Result(t, pc, x)
  /\ UNCHANGED <<gate, device>>
Returns(t) ==
  /\ task[t].pc \in Steps \ {"gate"}
  /\ \E e \in BOOLEAN : Return(t, e)
  /\ UNCHANGED device
  /\ WriteOutcome(t) \/ DbError(t) \/ task[t].pc \notin Owning

LEMMA WorkerKinds ==
  ASSUME NEW t \in Tasks, Worker(t) \/ DbError(t)
  PROVE  \/ task[t].pc = "read" /\ Goto(t, "claim") /\ UNCHANGED <<gate, device>>
         \/ Crosses(t) \/ GoesOn(t) \/ Returns(t)
<1>1. CASE ReadRow(t)
  BY Zenon, <1>1 DEF ReadRow, At, Returns, Owning, Steps, past
<1>2. CASE Claim(t)
  BY Zenon, <1>2 DEF Claim, Claims, Crosses, At, Returns, Owning, Steps, past
<1>3. CASE InsertAttempt(t) \/ Prepare(t) \/ MarkTransferring(t) \/ FinishAttempt(t)
  BY ZenonT(40), <1>3 DEF InsertAttempt, Prepare, MarkTransferring, FinishAttempt, At, GoesOn,
     Owning, Steps,
     Results, past
<1>4. CASE Upload(t)
  BY <1>4 DEF Upload, Uploaded, At, GoesOn, Owning, Steps, Results, past
<1>5. CASE WriteOutcome(t)
  BY Zenon, <1>5 DEF WriteOutcome, At, Returns, Steps, past
<1>6. CASE DbError(t)
  BY Zenon, <1>6 DEF DbError, Faulted, DbSteps, Returns, Steps
<1>. QED
  BY ZenonT(40), <1>1, <1>2, <1>3, <1>4, <1>5, <1>6 DEF Worker

\* A worker at one of its steps, whatever it does next.
LEMMA AtStep ==
  ASSUME NEW t \in Tasks, Acquire(t) \/ Worker(t) \/ DbError(t)
  PROVE  task[t].pc \in Steps
<1>1. CASE Acquire(t)
  BY <1>1 DEF Acquire, At, Steps
<1>2. CASE Worker(t) \/ DbError(t)
  BY ZenonT(40), <1>2, WorkerKinds DEF Crosses, Claim, Claims, At, GoesOn, Returns, Owning, Steps
<1>. QED
  BY ZenonT(40), <1>1, <1>2

-------------------------------------------------------------------------------
(* The types. *)

LEMMA RowTypesStep ==
  ASSUME Types, [Next]_vars
  PROVE  row' \in [Rows -> EntryType]
<1>1. ASSUME NEW r \in Rows, User(r) \/ Elapse(r) \/ RecoverOne(r)
      PROVE  row' \in [Rows -> EntryType]
  <2>1. row[r].status \in Statuses /\ row[r].attempts \in Nat
    BY RowShape
  <2>2. PICK s \in Statuses, n \in Nat : row' = [row EXCEPT ![r] = Entry(s, n, FALSE)]
    BY ZenonT(40), <1>1, <2>1 DEF User, Enqueue, Retry, Cancel, Elapse, RecoverOne, Recovered,
       Statuses,
       InFlight, Terminal
  <2>. QED
    BY Zenon, <2>2, RowUpdate
<1>2. ASSUME NEW t \in Tasks, Crosses(t) \/ MarkTransferring(t) \/ WriteOutcome(t)
      PROVE  row' \in [Rows -> EntryType]
  <2>1. Row(t) \in Rows
    BY ZenonT(40), <1>2, WorkerShape DEF Crosses, Claim, Claims, MarkTransferring, WriteOutcome, At,
       Steps
  <2>2. row[Row(t)].attempts \in Nat /\ row[Row(t)].later \in BOOLEAN
    BY ZenonT(40), <2>1, RowShape
  <2>3. PICK s \in Statuses, n \in Nat, b \in BOOLEAN :
          row' = [row EXCEPT ![Row(t)] = Entry(s, n, b)]
    <3>1. CASE Crosses(t)
      BY <2>2, <3>1 DEF Crosses, Claim, Claims, Statuses, InFlight
    <3>2. CASE MarkTransferring(t)
      BY Zenon, <2>2, <3>2 DEF MarkTransferring, Statuses, InFlight
    <3>3. CASE WriteOutcome(t)
      <4>1. Outcome(t) \in Statuses /\ MayRetry(t) \in BOOLEAN
        BY DEF Outcome, MayRetry, Statuses, Terminal
      <4>. QED
        BY Zenon, <2>2, <3>3, <4>1 DEF WriteOutcome
    <3>. QED
      BY ZenonT(40), <1>2, <3>1, <3>2, <3>3
  <2>. QED
    BY ZenonT(40), <2>1, <2>3, RowUpdate
<1>3. ASSUME NEW t \in Tasks, Claim(t), ~Crosses(t)
      PROVE  row' = row
  BY ZenonT(40), <1>3 DEF Crosses, Claim, Claims
<1>. QED
  BY ZenonT(40), <1>1, <1>2, <1>3, RowsStill, RowTyped DEF Next, Worker, Loop

LEMMA TaskTypesStep ==
  ASSUME Types, [Next]_vars
  PROVE  task' \in [Tasks -> TaskType] /\ gate' \in [Devices -> Tasks \cup {Nobody}]
<1>0. task \in [Tasks -> TaskType] /\ gate \in [Devices -> Tasks \cup {Nobody}]
  BY DEF Types
<1>1. ASSUME NEW t \in Tasks, Acquire(t)
      PROVE  task' \in [Tasks -> TaskType] /\ gate' \in [Devices -> Tasks \cup {Nobody}]
  BY ZenonT(40), <1>0, <1>1, TaskMoves DEF Acquire, At, Steps
<1>2. ASSUME NEW t \in Tasks, Worker(t) \/ DbError(t)
      PROVE  task' \in [Tasks -> TaskType] /\ gate' \in [Devices -> Tasks \cup {Nobody}]
  <2>1. task[t].pc \in Steps
    BY ZenonT(40), <1>2, AtStep
  <2>2. CASE Returns(t)
    BY ZenonT(40), <2>2, TaskReturns DEF Returns
  <2>3. CASE GoesOn(t)
    BY ZenonT(40), <1>0, <2>1, <2>3, TaskMoves DEF GoesOn, Owning
  <2>4. CASE Goto(t, "claim") /\ UNCHANGED gate
    BY ZenonT(40), <1>0, <2>1, <2>4, TaskMoves DEF Steps
  <2>5. CASE Crosses(t)
    <3>1. Goto(t, "insert") /\ UNCHANGED gate
      BY ZenonT(40), <2>5 DEF Crosses, Claim, Claims
    <3>. QED
      BY ZenonT(40), <1>0, <2>1, <3>1, TaskMoves DEF Steps
  <2>. QED
    BY ZenonT(40), <1>2, <2>2, <2>3, <2>4, <2>5, WorkerKinds
<1>3. ASSUME Poll
      PROVE  task' \in [Tasks -> TaskType] /\ gate' = gate
  <2>1. \A r \in Rows : Spawned(r) \in TaskType
    BY Shapes DEF Spawned, Steps, Results
  <2>. QED
    BY ZenonT(40), <1>0, <1>3, <2>1 DEF Poll
<1>4. ASSUME Await \/ AwaitFails
      PROVE  task' \in [Tasks -> TaskType] /\ gate' = gate
  BY ZenonT(40), <1>0, <1>4, Shapes DEF Await, AwaitFails
<1>5. ASSUME Crash
      PROVE  task' \in [Tasks -> TaskType] /\ gate' \in [Devices -> Tasks \cup {Nobody}]
  BY ZenonT(40), <1>5, Shapes DEF Crash
<1>. QED
  BY ZenonT(40), <1>0, <1>1, <1>2, <1>3, <1>4, <1>5, TasksStill DEF Next, Loop

LEMMA PollTypesStep ==
  ASSUME Types, [Next]_vars
  PROVE  poll'.pc \in PollPcs /\ poll'.rows \subseteq Rows
<1>1. CASE \/ Boot \/ RecoverDone \/ RecoverFails \/ Poll \/ Await \/ AwaitDone \/ AwaitFails
           \/ Crash \/ \E r \in Rows : RecoverOne(r)
  <2>1. PICK pc \in PollPcs, rs \in SUBSET Rows : \E ts : poll' = PollAt(pc, rs, ts)
    <3>1. CASE Boot
      BY Zenon, <3>1 DEF Boot, PollPcs
    <3>2. CASE \E r \in Rows : RecoverOne(r)
      BY ZenonT(40), <3>2 DEF RecoverOne, Types, PollPcs
    <3>3. CASE RecoverDone \/ RecoverFails \/ AwaitDone \/ AwaitFails \/ Crash
      BY Zenon, <3>3 DEF RecoverDone, RecoverFails, AwaitDone, AwaitFails, Crash, PollPcs
    <3>4. CASE Poll \/ Await
      BY Zenon, <3>4 DEF Poll, Await, PollPcs
    <3>. QED
      BY ZenonT(40), <1>1, <3>1, <3>2, <3>3, <3>4
  <2>. QED
    BY <2>1 DEF PollAt
<1>2. CASE poll' = poll
  BY ZenonT(40), <1>2 DEF Types
<1>. QED
  BY ZenonT(40), <1>1, <1>2, PollStill DEF Next, Loop

\* Errors and restarts are only counted up.
LEMMA FaultsCounted ==
  ASSUME [Next]_vars
  PROVE  /\ faults' = faults \/ (faults < MaxFaults /\ faults' = faults + 1)
         /\ crashes' = crashes \/ (crashes < MaxCrashes /\ crashes' = crashes + 1)
<1>1. ASSUME NEW t \in Tasks, Acquire(t) \/ Worker(t)
      PROVE  UNCHANGED <<faults, crashes>>
  BY Zenon, <1>1 DEF Worker, Acquire, ReadRow, Claim, Claims, InsertAttempt, Prepare,
     MarkTransferring, Upload, FinishAttempt, WriteOutcome, past
<1>2. ASSUME NEW r \in Rows, User(r) \/ Elapse(r) \/ RecoverOne(r)
      PROVE  UNCHANGED <<faults, crashes>>
  BY Zenon, <1>2 DEF User, Enqueue, Retry, Cancel, Elapse, RecoverOne, past
<1>3. ASSUME Boot \/ RecoverDone \/ Poll \/ Await \/ AwaitDone \/ AwaitFails \/ UNCHANGED vars
      PROVE  UNCHANGED <<faults, crashes>>
  BY Zenon, <1>3 DEF Boot, RecoverDone, Poll, Await, AwaitDone, AwaitFails, vars, past
<1>4. ASSUME RecoverFails \/ \E t \in Tasks : DbError(t)
      PROVE  faults < MaxFaults /\ faults' = faults + 1 /\ crashes' = crashes
  BY Zenon, <1>4 DEF RecoverFails, DbError, Faulted
<1>5. ASSUME Crash
      PROVE  crashes < MaxCrashes /\ crashes' = crashes + 1 /\ faults' = faults
  BY ZenonT(40), <1>5 DEF Crash
<1>. QED
  BY ZenonT(40), <1>1, <1>2, <1>3, <1>4, <1>5 DEF Next, Loop

\* Only the user retries.
LEMMA RetriesStep ==
  ASSUME [Next]_vars
  PROVE  retries' = retries \/ \E r \in Rows : Retry(r)
<1>1. ASSUME NEW t \in Tasks, Worker(t)
      PROVE  retries' = retries
  BY Zenon, <1>1 DEF Worker, ReadRow, Claim, Claims, InsertAttempt, Prepare, MarkTransferring,
     Upload,
     FinishAttempt, WriteOutcome, past
<1>2. ASSUME NEW r \in Rows, Enqueue(r) \/ Cancel(r) \/ Elapse(r) \/ RecoverOne(r)
      PROVE  retries' = retries
  BY ZenonT(40), <1>2 DEF Enqueue, Cancel, Elapse, RecoverOne, past
<1>. QED
  BY ZenonT(40), <1>1, <1>2, RowsStill DEF Next, Loop, User

\* Every step keeps the types.
LEMMA TypesStep ==
  ASSUME Types, [Next]_vars
  PROVE  Types'
<1>1. device' \in [Rows -> Devices]
  <2>1. device' = device
    BY ZenonT(40), TasksStill, RowsStill, PollStill DEF Next, Loop
  <2>. QED
    BY ZenonT(40), <2>1 DEF Types
<1>2. retries' \in [Rows -> Nat]
  <2>1. ASSUME NEW r \in Rows, Retry(r)
        PROVE  retries' \in [Rows -> Nat]
    BY <2>1 DEF Types, Retry
  <2>. QED
    BY ZenonT(40), <2>1, RetriesStep DEF Types
<1>3. faults' \in Nat
  BY FaultsCounted DEF Types
<1>. QED
  BY ZenonT(40), <1>1, <1>2, <1>3, RowTypesStep, TaskTypesStep, PollTypesStep DEF Types

-------------------------------------------------------------------------------
(* The effects. *)

\* A row whose entry is replaced, and the others.
Puts(r, s, n, b) == row' = [row EXCEPT ![r] = Entry(s, n, b)]

LEMMA RowAt ==
  ASSUME Types, NEW r \in Rows, NEW q \in Rows, NEW s, NEW n, NEW b, Puts(r, s, n, b)
  PROVE  /\ q # r => row'[q] = row[q]
         /\ q = r => /\ row'[q].status = s /\ row'[q].attempts = n
                     /\ row'[q].later = b
<1>1. /\ q # r => row'[q] = row[q]
      /\ q = r => row'[q] = Entry(s, n, b)
  BY ZenonT(40), RowTyped DEF Puts
<1>. QED
  BY <1>1 DEF Entry

\* Every step does one of these to a row.
LEMMA RowEffects ==
  ASSUME Types, NEW q \in Rows, [Next]_vars
  PROVE  RowEffect(q)
<1>0. ASSUME row' = row, retries' = retries
      PROVE  RowEffect(q)
  BY ZenonT(40), <1>0 DEF RowEffect, Same
<1>1. ASSUME NEW r \in Rows, Enqueue(r)
      PROVE  RowEffect(q)
  <2>1. /\ q # r => row'[q] = row[q]
        /\ q = r => row'[q].status = "Queued" /\ row'[q].attempts = 0
    BY <1>1 DEF Enqueue, Types, Entry
  <2>2. q = r => Sent(q)
    BY Zenon, <1>1, <2>1 DEF Enqueue, Sent, past
  <2>3. q # r => row'[q].status = row[q].status /\ Same(q)
    BY ZenonT(40), <1>1, <2>1 DEF Enqueue, Same, past
  <2>. QED
    BY ZenonT(40), <2>2, <2>3 DEF RowEffect
<1>2. ASSUME NEW r \in Rows, Retry(r)
      PROVE  RowEffect(q)
  <2>1. /\ q # r => row'[q] = row[q]
        /\ q = r => row'[q].status = "Queued" /\ row'[q].attempts = row[q].attempts
    BY ZenonT(40), <1>2 DEF Retry, Types, Entry
  <2>2. /\ q # r => retries'[q] = retries[q]
        /\ q = r => retries'[q] = retries[q] + 1
    BY <1>2 DEF Retry, Types
  <2>3. q = r => Retried(q)
    BY Zenon, <1>2, <2>1, <2>2 DEF Retry, Retried
  <2>4. q # r => row'[q].status = row[q].status /\ Same(q)
    BY ZenonT(40), <2>1, <2>2 DEF Same
  <2>. QED
    BY ZenonT(40), <2>3, <2>4 DEF RowEffect
<1>3. ASSUME NEW r \in Rows, Cancel(r)
      PROVE  RowEffect(q)
  <2>1. /\ q # r => row'[q] = row[q]
        /\ q = r => row'[q].status = "Cancelled" /\ row'[q].attempts = row[q].attempts
    BY ZenonT(40), <1>3 DEF Cancel, Types, Entry
  <2>2. q = r => Dropped(q)
    BY ZenonT(40), <1>3, <2>1 DEF Cancel, Dropped, Same, past
  <2>3. q # r => row'[q].status = row[q].status /\ Same(q)
    BY ZenonT(40), <1>3, <2>1 DEF Cancel, Same, past
  <2>. QED
    BY ZenonT(40), <2>2, <2>3 DEF RowEffect
<1>4. ASSUME NEW r \in Rows, Elapse(r)
      PROVE  RowEffect(q)
  <2>1. /\ q # r => row'[q] = row[q]
        /\ q = r => row'[q].status = row[q].status /\ row'[q].attempts = row[q].attempts
    BY <1>4 DEF Elapse, Types, Entry
  <2>2. row'[q].status = row[q].status /\ Same(q)
    BY Zenon, <1>4, <2>1 DEF Elapse, Same, past
  <2>. QED
    BY ZenonT(40), <2>2 DEF RowEffect
<1>5. ASSUME NEW r \in Rows, RecoverOne(r)
      PROVE  RowEffect(q)
  <2>1. /\ q # r => row'[q] = row[q]
        /\ q = r => row'[q].status = Recovered(q) /\ row'[q].attempts = row[q].attempts
    BY ZenonT(40), <1>5 DEF RecoverOne, Types, Entry
  <2>2. retries' = retries /\ poll.pc = "recover" /\ r \in poll.rows
    BY ZenonT(40), <1>5 DEF RecoverOne, past
  <2>3. \/ Recovered(r) = "Failed"
        \/ Recovered(r) = "Queued" /\ row[r].attempts < MaxAttempts
    BY RowShape, DeliveryAssumption DEF Recovered
  <2>4. q = r => Settled(q) /\ row'[q].status # "Completed"
    BY ZenonT(40), <2>1, <2>2, <2>3 DEF Settled, Same
  <2>5. q # r => row'[q].status = row[q].status /\ Same(q)
    BY ZenonT(40), <2>1, <2>2 DEF Same
  <2>. QED
    BY ZenonT(40), <2>2, <2>4, <2>5 DEF RowEffect
<1>6. ASSUME NEW t \in Tasks, Crosses(t)
      PROVE  RowEffect(q)
  <2>1. Row(t) \in Rows /\ retries' = retries
    BY ZenonT(40), <1>6, WorkerShape DEF Crosses, Claim, Claims, At, Steps, past
  <2>2. /\ q # Row(t) => row'[q] = row[q]
        /\ q = Row(t) => row'[q].status = "Preparing" /\ row'[q].attempts = row[q].attempts + 1
    <3>1. Puts(Row(t), "Preparing", row[Row(t)].attempts + 1, row[Row(t)].later)
      BY ZenonT(40), <1>6 DEF Crosses, Claim, Claims, Puts
    <3>. QED
      BY <2>1, <3>1, RowAt
  <2>3. task'[t].pc \in Owning /\ task'[t].row = Row(t)
    <3>1. task'[t].pc = "insert" /\ task'[t].row = task[t].row
      BY ZenonT(40), <1>6, MoveAt DEF Crosses, Claim, Claims
    <3>. QED
      BY ZenonT(40), <3>1 DEF Owning, Steps, Row
  <2>4. q = Row(t) => Claimed(q)
    BY ZenonT(40), <1>6, <2>1, <2>2, <2>3 DEF Crosses, Due, Claimed
  <2>5. q # Row(t) => row'[q].status = row[q].status /\ Same(q)
    BY ZenonT(40), <2>1, <2>2 DEF Same
  <2>. QED
    BY ZenonT(40), <2>4, <2>5 DEF RowEffect
<1>7. ASSUME NEW t \in Tasks, Claim(t), ~Crosses(t)
      PROVE  RowEffect(q)
  BY Zenon, <1>0, <1>7 DEF Crosses, Claim, Claims, past
<1>8. ASSUME NEW t \in Tasks, MarkTransferring(t)
      PROVE  RowEffect(q)
  <2>1. task[t].pc \in Owning /\ Row(t) \in Rows /\ retries' = retries
    BY ZenonT(40), <1>8, WorkerShape DEF MarkTransferring, At, Steps, Owning, past
  <2>2. /\ q # Row(t) => row'[q] = row[q]
        /\ q = Row(t) => row'[q].status = "Transferring" /\ row'[q].attempts = row[q].attempts
    <3>1. Puts(Row(t), "Transferring", row[Row(t)].attempts, row[Row(t)].later)
      BY ZenonT(40), <1>8 DEF MarkTransferring, Puts
    <3>. QED
      BY <2>1, <3>1, RowAt
  <2>3. task'[t].pc \in Owning /\ task'[t].row = Row(t)
    <3>1. task'[t].pc = "upload" /\ task'[t].row = task[t].row
      BY ZenonT(40), <1>8, MoveAt DEF MarkTransferring
    <3>. QED
      BY ZenonT(40), <3>1 DEF Owning, Steps, Row
  <2>4. q = Row(t) => Written(q)
    BY ZenonT(40), <2>1, <2>2, <2>3 DEF Written, Same, Row
  <2>5. q # Row(t) => row'[q].status = row[q].status /\ Same(q)
    BY ZenonT(40), <2>1, <2>2 DEF Same
  <2>. QED
    BY ZenonT(40), <2>4, <2>5 DEF RowEffect
<1>9. ASSUME NEW t \in Tasks, WriteOutcome(t)
      PROVE  RowEffect(q)
  <2>1. /\ task[t].pc = "write" /\ task[t].pc \in Owning /\ Row(t) \in Rows
        /\ retries' = retries
    BY ZenonT(40), <1>9, WorkerShape DEF WriteOutcome, At, Steps, Owning, past
  <2>2. /\ q # Row(t) => row'[q] = row[q]
        /\ q = Row(t) => row'[q].status = Outcome(t) /\ row'[q].attempts = row[q].attempts
    <3>1. Puts(Row(t), Outcome(t), row[Row(t)].attempts, MayRetry(t))
      BY <1>9 DEF WriteOutcome, Puts
    <3>. QED
      BY <2>1, <3>1, RowAt
  <2>3. task'[t].pc \notin Owning
    BY Zenon, <1>9, ReturnAt DEF WriteOutcome, Return, Owning, Steps
  <2>4. q = Row(t) => /\ Settled(q)
                      /\ row'[q].status = "Completed" => task[t].res = "ok"
    BY ZenonT(40), <2>1, <2>2 DEF Outcome, MayRetry, Settled, Same
  <2>5. q = Row(t) => Written(q)
    BY ZenonT(40), <2>1, <2>3, <2>4 DEF Written, Row
  <2>6. q # Row(t) => row'[q].status = row[q].status /\ Same(q)
    BY ZenonT(40), <2>1, <2>2 DEF Same
  <2>. QED
    BY <2>5, <2>6 DEF RowEffect
<1>. QED
  BY ZenonT(40), <1>0, <1>1, <1>2, <1>3, <1>4, <1>5, <1>6, <1>7, <1>8, <1>9, RowsStill
     DEF Next, User, Worker, Loop

\* A worker that moves on without crossing its claim.
LEMMA MoveEffect ==
  ASSUME Types, NEW t \in Tasks, NEW u \in Tasks, NEW pc, NEW x,
         Goto(t, pc) \/ Result(t, pc, x),
         task[t].pc \in Owning <=> pc \in Owning
  PROVE  TaskEffect(u)
<1>1. /\ u = t => task'[u].pc = pc /\ task'[u].row = task[u].row
      /\ u # t => task'[u] = task[u]
  BY ZenonT(40), MoveAt
<1>2. CASE u # t
  BY ZenonT(40), <1>1, <1>2 DEF TaskEffect
<1>3. CASE u = t
  <2>1. task[u].pc \in Owning <=> task'[u].pc \in Owning
    BY ZenonT(40), <1>1, <1>3
  <2>. QED
    BY ZenonT(40), <1>1, <1>3, <2>1 DEF TaskEffect
<1>. QED
  BY ZenonT(40), <1>2, <1>3

\* A worker that returns leaves its row settled, or an error behind.
LEMMA ReturnEffect ==
  ASSUME Types, NEW t \in Tasks, NEW u \in Tasks, Returns(t)
  PROVE  TaskEffect(u)
<1>1. /\ u = t => task'[u].pc \notin Owning
      /\ u # t => task'[u] = task[u]
  BY ZenonT(40), ReturnAt DEF Returns, Return, Owning, Steps
<1>2. CASE WriteOutcome(t)
  <2>1. Row(t) \in Rows
    BY ZenonT(40), <1>2, WorkerShape DEF WriteOutcome, At, Steps
  <2>2. row'[Row(t)].status = Outcome(t)
    <3>1. Puts(Row(t), Outcome(t), row[Row(t)].attempts, MayRetry(t))
      BY ZenonT(40), <1>2 DEF WriteOutcome, Puts
    <3>. QED
      BY <2>1, <3>1, RowAt
  <2>3. row'[task[t].row].status \notin InFlight
    BY ZenonT(40), <2>2 DEF Outcome, InFlight, Row
  <2>. QED
    BY ZenonT(40), <1>1, <2>3 DEF TaskEffect
<1>3. CASE DbError(t)
  <2>1. faults' > 0
    BY <1>3, FaultsCount DEF DbError, Faulted
  <2>. QED
    BY ZenonT(40), <1>1, <2>1 DEF TaskEffect
<1>4. CASE task[t].pc \notin Owning
  BY ZenonT(40), <1>1, <1>4 DEF TaskEffect
<1>. QED
  BY ZenonT(40), <1>2, <1>3, <1>4 DEF Returns

\* Every step does one of these to a worker.
LEMMA TaskEffects ==
  ASSUME Types, NEW u \in Tasks, [Next]_vars
  PROVE  TaskEffect(u)
<1>0. ASSUME task' = task
      PROVE  TaskEffect(u)
  BY ZenonT(40), <1>0 DEF TaskEffect
<1>1. ASSUME Poll \/ Await \/ AwaitFails
      PROVE  TaskEffect(u)
  BY ZenonT(40), <1>1, LoopTasks DEF TaskEffect, Owning, Steps
<1>2. ASSUME NEW t \in Tasks, Acquire(t)
      PROVE  TaskEffect(u)
  BY ZenonT(40), <1>2, MoveEffect DEF Acquire, At, Owning, Steps
<1>3. ASSUME NEW t \in Tasks, task[t].pc = "read", Goto(t, "claim")
      PROVE  TaskEffect(u)
  BY ZenonT(40), <1>3, MoveEffect DEF Owning, Steps
<1>4. ASSUME NEW t \in Tasks, GoesOn(t)
      PROVE  TaskEffect(u)
  BY ZenonT(40), <1>4, MoveEffect DEF GoesOn
<1>5. ASSUME NEW t \in Tasks, Crosses(t)
      PROVE  TaskEffect(u)
  <2>1. Row(t) \in Rows /\ task[t].pc = "claim"
    BY ZenonT(40), <1>5, WorkerShape DEF Crosses, Claim, Claims, At, Steps
  <2>2. row'[Row(t)].status = "Preparing"
    <3>1. Puts(Row(t), "Preparing", row[Row(t)].attempts + 1, row[Row(t)].later)
      BY ZenonT(40), <1>5 DEF Crosses, Claim, Claims, Puts
    <3>. QED
      BY <2>1, <3>1, RowAt
  <2>3. /\ u = t => task'[u].pc = "insert" /\ task'[u].row = task[u].row
        /\ u # t => task'[u] = task[u]
    BY ZenonT(40), <1>5, MoveAt DEF Crosses, Claim, Claims
  <2>. QED
    BY ZenonT(40), <2>1, <2>2, <2>3 DEF Row, TaskEffect, Owning, Steps
<1>6. ASSUME Crash
      PROVE  TaskEffect(u)
  <2>1. task'[u].pc = "free" /\ poll'.pc = "boot"
    BY <1>6, Fields DEF Crash
  <2>. QED
    BY ZenonT(40), <2>1 DEF TaskEffect, Owning, Steps
<1>. QED
  BY ZenonT(40), <1>0, <1>1, <1>2, <1>3, <1>4, <1>5, <1>6, TasksStill, WorkerKinds, ReturnEffect
     DEF Next, Loop

\* A row that waits for the recovery waits on, is recovered, or an error
\* ends the recovery.
LEMMA PollEffects ==
  ASSUME Types, NEW q \in Rows, [Next]_vars
  PROVE  PollEffect(q)
<1>1. ASSUME poll' = poll
      PROVE  PollEffect(q)
  BY ZenonT(40), <1>1 DEF PollEffect, Recovering
<1>2. ASSUME Boot
      PROVE  PollEffect(q)
  BY <1>2, Fields DEF Boot, PollEffect, Recovering, past
<1>3. ASSUME NEW r \in Rows, RecoverOne(r)
      PROVE  PollEffect(q)
  <2>1. q = r => row'[q].status = Recovered(q)
    BY ZenonT(40), <1>3 DEF RecoverOne, Types, Entry
  <2>2. q = r => row'[q].status \notin InFlight
    BY ZenonT(40), <2>1 DEF Recovered, InFlight
  <2>3. q # r /\ q \in poll.rows => poll'.pc = "recover" /\ q \in poll'.rows
    BY <1>3, Fields DEF RecoverOne
  <2>. QED
    BY Zenon, <1>3, <2>2, <2>3 DEF RecoverOne, PollEffect, Recovering
<1>4. ASSUME RecoverDone \/ Poll \/ Await \/ AwaitDone \/ AwaitFails
      PROVE  PollEffect(q)
  <2>1. ~Recovering(q)
    BY Zenon, <1>4 DEF RecoverDone, Poll, Await, AwaitDone, AwaitFails, Recovering
  <2>. QED
    BY <2>1 DEF PollEffect
<1>5. ASSUME RecoverFails
      PROVE  PollEffect(q)
  <2>1. faults' > 0
    BY <1>5, FaultsCount DEF RecoverFails
  <2>. QED
    BY ZenonT(40), <2>1 DEF PollEffect
<1>6. ASSUME Crash
      PROVE  PollEffect(q)
  BY <1>6, Fields DEF Crash, PollEffect, Recovering
<1>. QED
  BY ZenonT(40), <1>1, <1>2, <1>3, <1>4, <1>5, <1>6, PollStill DEF Next, Loop

\* The permit stays with the worker that acquired it.
LEMMA GateStep ==
  ASSUME Types, GateHeld, [Next]_vars
  PROVE  GateHeld'
<1>0. ASSUME UNCHANGED <<task, gate, device>>
      PROVE  GateHeld'
  BY ZenonT(40), <1>0 DEF GateHeld, GateOf, Row
<1>1. ASSUME Poll \/ Await \/ AwaitFails
      PROVE  GateHeld'
  <2> SUFFICES ASSUME NEW u \in Tasks, task'[u].pc \in Steps \ {"gate"}
               PROVE  gate'[GateOf(u)'] = u
    BY ZenonT(40) DEF GateHeld
  <2>1. task'[u] = task[u] /\ gate' = gate /\ device' = device
    <3>1. gate' = gate /\ device' = device
      BY ZenonT(40), <1>1 DEF Poll, Await, AwaitFails, past
    <3>. QED
      BY ZenonT(40), <1>1, <3>1, LoopTasks DEF Steps
  <2>. QED
    BY ZenonT(40), <2>1 DEF GateHeld, GateOf, Row
<1>2. ASSUME NEW t \in Tasks, Acquire(t)
      PROVE  GateHeld'
  <2> SUFFICES ASSUME NEW u \in Tasks, task'[u].pc \in Steps \ {"gate"}
               PROVE  gate'[GateOf(u)'] = u
    BY ZenonT(40) DEF GateHeld
  <2>1. Row(t) \in Rows /\ GateOf(t) \in Devices /\ gate[GateOf(t)] = Nobody
    BY ZenonT(40), <1>2, WorkerShape DEF Acquire, At, Steps
  <2>2. gate' = [gate EXCEPT ![GateOf(t)] = t] /\ device' = device
    BY ZenonT(40), <1>2 DEF Acquire, past
  <2>3. /\ u = t => task'[u].row = task[u].row
        /\ u # t => task'[u] = task[u]
    BY ZenonT(40), <1>2, MoveAt DEF Acquire
  <2>4. GateOf(u)' = GateOf(u)
    BY <2>2, <2>3 DEF GateOf, Row
  <2>5. CASE u = t
    BY ZenonT(40), <2>1, <2>2, <2>4, <2>5 DEF Types
  <2>6. CASE u # t
    <3>1. gate[GateOf(u)] = u
      BY ZenonT(40), <2>3, <2>6 DEF GateHeld
    <3>2. GateOf(u) # GateOf(t)
      BY <2>1, <3>1 DEF Nobody, Tasks
    <3>. QED
      BY <2>2, <2>4, <3>1, <3>2 DEF Types
  <2>. QED
    BY ZenonT(40), <2>5, <2>6
<1>3. ASSUME NEW t \in Tasks, Worker(t) \/ DbError(t)
      PROVE  GateHeld'
  <2>1. CASE Returns(t)
    BY ZenonT(40), <2>1, ReturnKeepsGates DEF Returns
  <2>2. CASE GoesOn(t)
    BY ZenonT(40), <2>2, MoveKeepsGates DEF GoesOn, Owning, Steps
  <2>3. CASE task[t].pc = "read" /\ Goto(t, "claim") /\ UNCHANGED <<gate, device>>
    BY ZenonT(40), <2>3, MoveKeepsGates DEF Steps
  <2>4. CASE Crosses(t)
    BY ZenonT(40), <2>4, MoveKeepsGates DEF Crosses, Claim, Claims, At, Steps, past
  <2>. QED
    BY ZenonT(40), <1>3, <2>1, <2>2, <2>3, <2>4, WorkerKinds
<1>4. ASSUME Crash
      PROVE  GateHeld'
  <2>1. \A u \in Tasks : task'[u].pc = "free"
    BY ZenonT(40), <1>4, Fields DEF Crash
  <2>. QED
    BY ZenonT(40), <2>1 DEF GateHeld, Steps
<1>. QED
  BY ZenonT(40), <1>0, <1>1, <1>2, <1>3, <1>4, TasksStill DEF Next, Loop

\* Nothing disturbs the recovery.
LEMMA QuietStep ==
  ASSUME Types, Quiet, [Next]_vars
  PROVE  Quiet'
<1>1. ASSUME NEW r \in Rows, User(r) \/ Elapse(r)
      PROVE  Quiet'
  <2>1. task' = task /\ poll' = poll
    BY ZenonT(40), <1>1, TasksStill, PollStill
  <2>2. ASSUME NEW q \in Rows, row[q].status \in InFlight
        PROVE  row'[q].status = row[q].status
    <3>1. CASE User(r)
      BY ZenonT(40), <2>2, <3>1 DEF User, Enqueue, Retry, Cancel, Types, InFlight
    <3>2. CASE Elapse(r)
      BY ZenonT(40), <3>2 DEF Elapse, Types, Entry
    <3>. QED
      BY ZenonT(40), <1>1, <3>1, <3>2
  <2>. QED
    BY ZenonT(40), <2>1, <2>2 DEF Quiet, Types
<1>2. ASSUME Boot
      PROVE  Quiet'
  BY <1>2, Fields DEF Boot, Quiet
<1>3. ASSUME NEW r \in Rows, RecoverOne(r)
      PROVE  Quiet'
  <2>1. poll'.pc = "recover" /\ poll'.rows = poll.rows \ {r} /\ task' = task
    BY ZenonT(40), <1>3 DEF RecoverOne, PollAt
  <2>2. \A q \in poll.rows \ {r} : row'[q] = row[q]
    BY ZenonT(40), <1>3 DEF RecoverOne, Types
  <2>. QED
    BY Zenon, <1>3, <2>1, <2>2 DEF RecoverOne, Quiet
<1>4. ASSUME RecoverDone \/ RecoverFails \/ Poll \/ Await \/ AwaitDone \/ AwaitFails
      PROVE  Quiet'
  <2>1. poll'.pc \notin {"boot", "recover"}
    <3>1. \E pc \in {"poll", "await"} : \E rs, ts : poll' = PollAt(pc, rs, ts)
      BY Zenon, <1>4 DEF RecoverDone, RecoverFails, Poll, Await, AwaitDone, AwaitFails
    <3>. QED
      BY <3>1, Fields
  <2>. QED
    BY ZenonT(40), <2>1 DEF Quiet
<1>5. ASSUME NEW t \in Tasks, Acquire(t) \/ Worker(t) \/ DbError(t)
      PROVE  Quiet'
  <2>1. poll' = poll
    BY ZenonT(40), <1>5, PollStill
  <2>2. task[t].pc \in Steps
    BY ZenonT(40), <1>5, AtStep
  <2>3. task[t] # Free
    BY ZenonT(40), <2>2, Fields DEF Steps
  <2>. QED
    BY ZenonT(40), <2>1, <2>3 DEF Quiet
<1>6. ASSUME Crash
      PROVE  Quiet'
  <2>1. poll'.pc = "boot"
    BY <1>6 DEF Crash, PollAt
  <2>2. \A t \in Tasks : task'[t] = Free
    BY <1>6, ZenonT(40) DEF Crash
  <2>. QED
    BY ZenonT(40), <2>1, <2>2 DEF Quiet
<1>7. ASSUME UNCHANGED vars
      PROVE  Quiet'
  BY <1>7 DEF vars, Quiet
<1>. QED
  BY ZenonT(40), <1>1, <1>2, <1>3, <1>4, <1>5, <1>6, <1>7 DEF Next, Loop

===============================================================================
