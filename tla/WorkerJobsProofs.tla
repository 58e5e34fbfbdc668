--------------------------- MODULE WorkerJobsProofs ---------------------------
(***************************************************************************)
(* What holds of WorkerJobs for any set of jobs and workers and any        *)
(* bounds: the types with what each program counter says about its task,   *)
(* that the rows follow the lifecycle, that a row has one runner, that no  *)
(* row is left without an owner and no caller without its answer, and that *)
(* the newest socket of a device is the one the hub knows.                 *)
(***************************************************************************)
EXTENDS WorkerJobs, TLAPS

USE SMTT(30)

-----------------------------------------------------------------------------
(* Helpers. *)

LEMMA CapableForIsWorkers ==
    ASSUME NEW j
    PROVE  CapableFor(j) \subseteq Worker /\ CapableFor(j) \subseteq Nat
BY ConstantsAreSane, Zenon DEF CapableFor, connected

-----------------------------------------------------------------------------
(* The type invariant. *)

\* The conjuncts of TypeOK about the routing tasks.
TaskTypeOK ==
    /\ pc \in [Task -> TaskPc]
    /\ job \in [Task -> Job \cup {NoJob}]
    /\ dev \in [Task -> Worker \cup {NoWorker}]
    /\ avoid \in [Task -> Worker \cup {NoWorker}]
    /\ todo \in [Task -> SUBSET (Job \X (Worker \cup {NoWorker}))]
    /\ ret \in [Task -> Loop]

\* Only task t moved.
OnlyTask(t) ==
    \A u \in Task \ {t} : /\ pc'[u] = pc[u] /\ job'[u] = job[u] /\ dev'[u] = dev[u]
                          /\ todo'[u] = todo[u] /\ ret'[u] = ret[u]

LEMMA TasksAreTyped == TypeOK => TaskTypeOK
BY DEF TypeOK, TaskTypeOK

LEMMA GotoLemma ==
    ASSUME TypeOK, NEW t \in Task, NEW p \in TaskPc, Goto(t, p)
    PROVE  /\ TaskTypeOK' /\ OnlyTask(t)
           /\ pc'[t] = p /\ job'[t] = job[t] /\ dev'[t] = dev[t]
           /\ todo'[t] = todo[t] /\ ret'[t] = ret[t]
BY ZenonT(40), TasksAreTyped DEF Goto, TaskTypeOK, OnlyTask

LEMMA HandleLemma ==
    ASSUME TypeOK, NEW t \in Task, NEW p \in TaskPc, NEW j \in Job,
           NEW rest \in SUBSET (Job \X (Worker \cup {NoWorker})), Handle(t, p, j, rest)
    PROVE  /\ TaskTypeOK' /\ OnlyTask(t)
           /\ pc'[t] = p /\ job'[t] = j /\ dev'[t] = dev[t]
           /\ todo'[t] = rest /\ ret'[t] = ret[t]
BY ZenonT(40), TasksAreTyped DEF Handle, TaskTypeOK, OnlyTask

LEMMA KeepLemma ==
    ASSUME TypeOK, NEW t \in Task, NEW p \in TaskPc,
           NEW rest \in SUBSET (Job \X (Worker \cup {NoWorker})), Keep(t, p, rest)
    PROVE  /\ TaskTypeOK' /\ OnlyTask(t)
           /\ pc'[t] = p /\ job'[t] = NoJob /\ dev'[t] = NoWorker
           /\ todo'[t] = rest /\ ret'[t] = "routed"
BY ZenonT(40), TasksAreTyped DEF Keep, TaskTypeOK, OnlyTask, Loop

LEMMA BackToLemma ==
    ASSUME TypeOK, NEW t \in Task, NEW p \in TaskPc, BackTo(t, p)
    PROVE  /\ TaskTypeOK' /\ OnlyTask(t)
           /\ pc'[t] = p /\ job'[t] = NoJob /\ dev'[t] = NoWorker
           /\ todo'[t] = todo[t] /\ ret'[t] = "routed"
BY ZenonT(40), TasksAreTyped, KeepLemma DEF BackTo, TaskTypeOK

LEMMA DispatchLemma ==
    ASSUME TypeOK, NEW t \in Task, NEW j \in Job, NEW a \in Worker \cup {NoWorker},
           NEW rest \in SUBSET (Job \X (Worker \cup {NoWorker})), NEW back \in Loop,
           Dispatch(t, j, a, rest, back)
    PROVE  /\ TaskTypeOK' /\ OnlyTask(t)
           /\ pc'[t] \in {"select", "prefer"} /\ job'[t] = j /\ dev'[t] = NoWorker
           /\ todo'[t] = rest /\ ret'[t] = back
BY TasksAreTyped DEF Dispatch, TaskTypeOK, OnlyTask, TaskPc, DispatchPc

LEMMA ChooseLemma ==
    ASSUME TypeOK, NEW t \in Task, NEW able \in SUBSET Worker, NEW p \in TaskPc,
           Choose(t, able, p)
    PROVE  /\ TaskTypeOK' /\ OnlyTask(t)
           /\ \/ pc'[t] = "send" /\ dev'[t] \in Worker
              \/ pc'[t] = p /\ dev'[t] = dev[t]
           /\ job'[t] = job[t] /\ todo'[t] = todo[t] /\ ret'[t] = ret[t]
<1>1. CASE Goto(t, p)
  BY ZenonT(40), <1>1, GotoLemma
<1>2. ASSUME NEW w \in Worker,
             /\ pc' = [pc EXCEPT ![t] = "send"] /\ dev' = [dev EXCEPT ![t] = w]
             /\ UNCHANGED <<job, avoid, todo, ret>>
      PROVE  /\ TaskTypeOK' /\ OnlyTask(t)
             /\ pc'[t] = "send" /\ dev'[t] = w
             /\ job'[t] = job[t] /\ todo'[t] = todo[t] /\ ret'[t] = ret[t]
  BY ZenonT(40), <1>2, TasksAreTyped DEF TaskTypeOK, OnlyTask, TaskPc, DispatchPc
<1>. QED
  BY Zenon, <1>1, <1>2 DEF Choose

\* Every form of move is a move of one task.
LEMMA MovesOnly ==
    ASSUME TypeOK, NEW t \in Task
    PROVE  /\ \A p : Goto(t, p) => OnlyTask(t)
           /\ \A p, j, rest : Handle(t, p, j, rest) => OnlyTask(t)
           /\ \A p, rest : Keep(t, p, rest) => OnlyTask(t)
           /\ \A p : BackTo(t, p) => OnlyTask(t)
           /\ \A j, a, rest, back : Dispatch(t, j, a, rest, back) => OnlyTask(t)
           /\ \A able, p : Choose(t, able, p) => OnlyTask(t)
BY ZenonT(40), TasksAreTyped DEF Goto, Handle, Keep, BackTo, Dispatch, Choose, OnlyTask, TaskTypeOK

LEMMA WakeLemma ==
    ASSUME TypeOK, NEW j \in Job, NEW outcome \in Outcome, wake_waiters(j, outcome)
    PROVE  waiters' \in SUBSET Job /\ reply' \in [Job -> Reply]
BY ZenonT(40) DEF TypeOK, wake_waiters, Reply, Outcome

LEMMA RowsAreTyped == TypeOK => rows \in [Job -> Row]
BY ZenonT(40) DEF TypeOK

\* A step of the routing tasks, the table, the waiter map and the local runs.
LEMMA TypeStep ==
    ASSUME TypeOK, TaskTypeOK', rows' \in [Job -> Row],
           waiters' \in SUBSET Job, reply' \in [Job -> Reply], local' \in [Job -> LocalPc],
           UNCHANGED <<bytes, hubvars, cancelvars, upload, faultvars>>
    PROVE  TypeOK'
BY ZenonT(40) DEF TypeOK, TaskTypeOK, hubvars, cancelvars, faultvars

\* One of the routing tasks and the table ...
LEMMA TypeRowStep ==
    ASSUME TypeOK, TaskTypeOK', rows' \in [Job -> Row],
           UNCHANGED <<bytes, hubvars, local, cancelvars, upload, callvars, faultvars>>
    PROVE  TypeOK'
BY ZenonT(40), TypeStep DEF TypeOK, callvars

\* ... of the routing tasks alone ...
LEMMA TypeTaskStep ==
    ASSUME TypeOK, TaskTypeOK',
           UNCHANGED <<rows, bytes, hubvars, local, cancelvars, upload, callvars, faultvars>>
    PROVE  TypeOK'
BY ZenonT(40), TypeStep DEF TypeOK, callvars

\* ... and of the routing tasks and the waiter map.
LEMMA TypeCallStep ==
    ASSUME TypeOK, TaskTypeOK', waiters' \in SUBSET Job, reply' \in [Job -> Reply],
           UNCHANGED <<rows, bytes, hubvars, local, cancelvars, upload, faultvars>>
    PROVE  TypeOK'
BY ZenonT(40), TypeStep DEF TypeOK

LEMMA TypeInit == Init => TypeOK
BY ConstantsAreSane DEF Init, TypeOK, Row, Absent, Status, NoWorker, TaskPc, Loop,
   LocalPc, CancelPc, Reply

-----------------------------------------------------------------------------
(* The inductive invariant. *)

\* Where a task has a job in hand.
JobPc == DispatchPc \cup CompletedPc \cup
    {"unpark", "claim", "progress", "validate", "write_done", "write_failed"}

\* What a program counter says about the rest of its task's state.
TasksAreSane ==
    /\ \A t \in Task : /\ pc[t] \in JobPc => job[t] \in Job
                       /\ pc[t] \in {"send", "assign"} => dev[t] \in Worker
    /\ \A s \in Session : /\ pc[s] # "idle" => s <= epochs /\ device[s] \in Worker
                          /\ pc[s] \in DispatchPc => ret[s] \in {"parked", "release"}

\* A local run got past its first UPDATE, so the row is not on the queue; one that
\* is about to wake the caller has ended it.
LocalIsSane ==
    \A j \in Job : /\ LocalActive(j) => rows[j].status \in {"running", "done", "failed"}
                   /\ local[j] \in {"wake_done", "wake_failed"} => is_terminal(rows[j].status)

\* The hub holds, for a device, a socket of that device.
HubIsSane ==
    /\ \A w \in Worker : hub[w] # 0 => hub[w] <= epochs /\ device[hub[w]] = w
    /\ \A s \in Session : device[s] # NoWorker => s <= epochs

LEMMA TaskKinds == Job \subseteq Task /\ Session \subseteq Task /\ Sweeper \in Task
BY ZenonT(40) DEF Task

\* When only task t moves, only what it says about itself is to be checked.
LEMMA SaneStep ==
    ASSUME TypeOK, TasksAreSane, UNCHANGED <<epochs, device>>,
           NEW t \in Task, OnlyTask(t),
           pc'[t] \in JobPc => job'[t] \in Job,
           pc'[t] \in {"send", "assign"} => dev'[t] \in Worker,
           t \in Session => /\ pc[t] # "idle"
                            /\ pc'[t] \in DispatchPc => ret'[t] \in {"parked", "release"}
    PROVE  TasksAreSane'
<1>1. \A u \in Task : /\ pc'[u] \in JobPc => job'[u] \in Job
                      /\ pc'[u] \in {"send", "assign"} => dev'[u] \in Worker
  BY ZenonT(40) DEF TasksAreSane, OnlyTask
<1>2. \A s \in Session : /\ pc'[s] # "idle" => s <= epochs' /\ device'[s] \in Worker
                         /\ pc'[s] \in DispatchPc => ret'[s] \in {"parked", "release"}
  BY ZenonT(40), TaskKinds DEF TasksAreSane, OnlyTask
<1>. QED  BY ZenonT(40), <1>1, <1>2 DEF TasksAreSane

LEMMA DispatchIsSane ==
    ASSUME TypeOK, TasksAreSane, NEW t \in Task, DispatchStep(t)
    PROVE  TypeOK' /\ TasksAreSane'
<1>. USE DEF TaskPc, DispatchPc, JobPc
<1>0. /\ job[t] \in Job /\ dev[t] \in Worker \cup {NoWorker} /\ ret[t] \in Loop
      /\ t \in Session => pc[t] # "idle" /\ ret[t] \in {"parked", "release"}
      /\ pc[t] \in DispatchPc
      /\ pc[t] \in {"send", "assign"} => dev[t] \in Worker
  BY ZenonT(40) DEF TypeOK, TasksAreSane, DispatchStep, Prefer, Select, Send, Assign, Fallback
<1>1. CASE Prefer(t)
  <2>1. CapableFor(job[t]) \ {avoid[t]} \in SUBSET Worker
    BY ZenonT(40), CapableForIsWorkers
  <2>2. /\ TaskTypeOK' /\ OnlyTask(t) /\ job'[t] = job[t] /\ ret'[t] = ret[t]
        /\ \/ pc'[t] = "send" /\ dev'[t] \in Worker
           \/ pc'[t] = "select"
    BY ZenonT(40), <1>1, <2>1, ChooseLemma DEF Prefer
  <2>. QED  BY ZenonT(40), <1>0, <1>1, <2>2, TypeTaskStep, SaneStep DEF Prefer, hubvars
<1>2. CASE Select(t)
  <2>1. CapableFor(job[t]) \in SUBSET Worker
    BY ZenonT(40), CapableForIsWorkers
  <2>2. /\ TaskTypeOK' /\ OnlyTask(t) /\ job'[t] = job[t] /\ ret'[t] = ret[t]
        /\ \/ pc'[t] = "send" /\ dev'[t] \in Worker
           \/ pc'[t] = "fallback"
    BY ZenonT(40), <1>2, <2>1, ChooseLemma DEF Select
  <2>. QED  BY ZenonT(40), <1>0, <1>2, <2>2, TypeTaskStep, SaneStep DEF Select, hubvars
<1>3. CASE Send(t)
  <2>2. /\ TaskTypeOK' /\ OnlyTask(t) /\ job'[t] = job[t] /\ dev'[t] = dev[t]
        /\ ret'[t] = ret[t] /\ pc'[t] \in {"assign", "fallback"}
    BY ZenonT(40), <1>3, GotoLemma DEF Send
  <2>. QED  BY ZenonT(40), <1>0, <1>3, <2>2, TypeTaskStep, SaneStep DEF Send, hubvars
<1>4. CASE Assign(t)
  <2>2. /\ TaskTypeOK' /\ OnlyTask(t)
        /\ \/ pc'[t] = ret[t]
           \/ pc'[t] = "fallback" /\ job'[t] = job[t] /\ ret'[t] = ret[t]
    BY ZenonT(40), <1>0, <1>4, GotoLemma, BackToLemma DEF Assign, Loop
  <2>3. rows' \in [Job -> Row]
    BY <1>0, <1>4, RowsAreTyped DEF Assign, SetRow, Row, Status
  <2>. QED  BY ZenonT(40), <1>0, <1>4, <2>2, <2>3, TypeRowStep, SaneStep DEF Assign, hubvars, Loop,
               CompletedPc
<1>5. CASE Fallback(t)
  <2>1. rows[job[t]].worker \in Worker \cup {NoWorker}
    BY ZenonT(40), <1>0 DEF TypeOK, Row
  <2>2. /\ TaskTypeOK' /\ OnlyTask(t)
        /\ pc'[t] \in Loop \cup {"reread", "returned", "refused", "closed", "idle"}
    BY ZenonT(40), <1>0, <1>5, KeepLemma, BackToLemma DEF Fallback, Loop, AbortTo
  <2>3. rows' \in [Job -> Row]
    BY <1>0, <1>5, <2>1, RowsAreTyped DEF Fallback, SetRow, Row, Status
  <2>4. reply' \in [Job -> Reply] /\ local' \in [Job -> LocalPc] /\ waiters' \in SUBSET Job
    BY ZenonT(40), <1>0, <1>5 DEF Fallback, TypeOK, Reply, LocalPc
  <2>. QED  BY ZenonT(40), <1>0, <1>5, <2>2, <2>3, <2>4, TypeStep, SaneStep DEF Fallback, hubvars,
               Loop, CompletedPc
<1>. QED  BY ZenonT(40), <1>1, <1>2, <1>3, <1>4, <1>5 DEF DispatchStep

LEMMA RequestIsSane ==
    ASSUME TypeOK, TasksAreSane, NEW j \in Job,
           Enqueue(j) \/ Reread(j) \/ Timeout(j) \/ Abandon(j)
    PROVE  TypeOK' /\ TasksAreSane'
<1>. USE DEF TaskPc, DispatchPc, JobPc, hubvars, cancelvars, callvars, faultvars
<1>0. j \in Task /\ j \notin Session
  BY ZenonT(40), ConstantsAreSane, TaskKinds
<1>1. CASE Enqueue(j)
  <2>1. /\ TaskTypeOK' /\ OnlyTask(j) /\ job'[j] = j
        /\ pc'[j] \in {"select", "prefer"}
    BY <1>0, <1>1, DispatchLemma, ZenonT(40) DEF Enqueue, Loop
  <2>2. rows' \in [Job -> Row]
    BY Zenon, <1>1, RowsAreTyped DEF Enqueue, SetRow, Row, Status, NoWorker
  <2>3. waiters' \in SUBSET Job /\ reply' \in [Job -> Reply] /\ local' \in [Job -> LocalPc]
    BY ZenonT(40), <1>1 DEF Enqueue, TypeOK
  <2>. QED  BY Zenon, <1>0, <1>1, <2>1, <2>2, <2>3, TypeStep, SaneStep DEF Enqueue
<1>2. CASE Reread(j)
  <2>1. TaskTypeOK' /\ OnlyTask(j) /\ pc'[j] \in {"returned", "routed"}
    BY Zenon, <1>0, <1>2, GotoLemma DEF Reread
  <2>2. waiters' \in SUBSET Job /\ reply' \in [Job -> Reply]
    BY ZenonT(40), <1>2 DEF Reread, TypeOK, Reply, Outcome
  <2>. QED  BY <1>0, <1>2, <2>1, <2>2, TypeCallStep, SaneStep, ZenonT(40) DEF Reread, CompletedPc
<1>3. CASE Timeout(j)
  <2>1. TaskTypeOK' /\ OnlyTask(j) /\ pc'[j] = "returned"
    BY Zenon, <1>0, <1>3, GotoLemma DEF Timeout
  <2>2. waiters' \in SUBSET Job /\ reply' \in [Job -> Reply]
    BY ZenonT(40), <1>3 DEF Timeout, TypeOK, Reply
  <2>. QED  BY ZenonT(40), <1>0, <1>3, <2>1, <2>2, TypeCallStep, SaneStep DEF Timeout, CompletedPc
<1>4. CASE Abandon(j)
  <2>1. TaskTypeOK' /\ OnlyTask(j) /\ pc'[j] = "returned"
    BY ZenonT(40), <1>0, <1>4, BackToLemma DEF Abandon
  <2>2. reply' \in [Job -> Reply] /\ drops' \in 0 .. MaxDrops
    BY <1>4, ConstantsAreSane DEF Abandon, TypeOK, Reply
  <2>3. TypeOK'
    BY ZenonT(40), <1>4, <2>1, <2>2 DEF Abandon, TypeOK, TaskTypeOK
  <2>4. TasksAreSane'
    BY ZenonT(40), <1>0, <1>4, <2>1, SaneStep DEF Abandon, CompletedPc
  <2>. QED  BY ZenonT(40), <2>3, <2>4
<1>. QED  BY ZenonT(40), <1>1, <1>2, <1>3, <1>4

LEMMA CancelIsSane ==
    ASSUME TypeOK, TasksAreSane, NEW j \in Job,
           Cancel(j) \/ CancelStep(j) \/ AbandonCancel(j)
    PROVE  TypeOK' /\ TasksAreSane'
<1>. USE DEF hubvars, taskvars, callvars, faultvars, CancelPc
<1>1. TasksAreSane'
  BY Zenon DEF TasksAreSane, Cancel, CancelStep, CancelSend, CancelMark, CancelRemove,
         CancelWake, AbandonCancel
<1>2. CASE Cancel(j)
  BY ZenonT(40), <1>1, <1>2 DEF Cancel, TypeOK, Row
<1>3. CASE CancelSend(j)
  BY ZenonT(40), <1>1, <1>3 DEF CancelSend, TypeOK
<1>4. CASE CancelMark(j)
  <2>1. rows' \in [Job -> Row]
    BY <1>4, RowsAreTyped DEF CancelMark, SetRow, Row, Status
  <2>. QED  BY ZenonT(40), <1>1, <1>4, <2>1 DEF CancelMark, TypeOK, Status
<1>5. CASE CancelRemove(j)
  BY ZenonT(40), <1>1, <1>5 DEF CancelRemove, TypeOK
<1>6. CASE CancelWake(j)
  <2>1. outcome_of(was[j]) \in Outcome
    BY DEF outcome_of, Outcome
  <2>2. waiters' \in SUBSET Job /\ reply' \in [Job -> Reply]
    BY ZenonT(40), <1>6, <2>1, WakeLemma DEF CancelWake
  <2>. QED  BY <1>1, <1>6, <2>2, Zenon DEF CancelWake, TypeOK, Status
<1>7. CASE AbandonCancel(j)
  BY <1>1, <1>7, ConstantsAreSane DEF AbandonCancel, TypeOK, Status
<1>. QED  BY ZenonT(40), <1>2, <1>3, <1>4, <1>5, <1>6, <1>7 DEF CancelStep

LEMMA LocalIsTyped ==
    ASSUME TypeOK, TasksAreSane, NEW j \in Job, LocalStep(j)
    PROVE  TypeOK' /\ TasksAreSane'
<1>. USE DEF hubvars, taskvars, cancelvars, callvars, faultvars, LocalPc, LocalGoto
<1>0. rows[j].worker \in Worker \cup {NoWorker}
  BY ZenonT(40) DEF TypeOK, Row
<1>1. TasksAreSane'
  BY ZenonT(40) DEF TasksAreSane, LocalStep, LocalStart, LocalRun, LocalValidate, LocalFinish,
     LocalWake
<1>2. CASE LocalStart(j)
  <2>1. rows' \in [Job -> Row]
    BY <1>0, <1>2, RowsAreTyped DEF LocalStart, SetRow, Row, Status
  <2>. QED  BY ZenonT(40), <1>1, <1>2, <2>1 DEF LocalStart, TypeOK
<1>3. CASE LocalRun(j)
  <2>1. bytes' \in [Job -> BOOLEAN]
    BY <1>3, Zenon DEF LocalRun, TypeOK
  <2>2. local' \in [Job -> LocalPc]
    BY ZenonT(40), <1>3 DEF LocalRun, TypeOK
  <2>. QED  BY ZenonT(40), <1>1, <1>3, <2>1, <2>2 DEF LocalRun, TypeOK
<1>4. CASE LocalValidate(j)
  <2>1. local' \in [Job -> LocalPc]
    BY ZenonT(40), <1>4 DEF LocalValidate, TypeOK
  <2>. QED  BY ZenonT(40), <1>1, <1>4, <2>1 DEF LocalValidate, TypeOK
<1>5. CASE LocalFinish(j)
  <2>1. rows' \in [Job -> Row]
    BY <1>0, <1>5, RowsAreTyped DEF LocalFinish, SetRow, Row, Status
  <2>2. local' \in [Job -> LocalPc]
    BY ZenonT(40), <1>5 DEF LocalFinish, TypeOK
  <2>. QED  BY ZenonT(40), <1>1, <1>5, <2>1, <2>2 DEF LocalFinish, TypeOK
<1>6. CASE LocalWake(j)
  <2>1. waiters' \in SUBSET Job /\ reply' \in [Job -> Reply]
    BY ZenonT(40), <1>6, WakeLemma DEF LocalWake, Outcome
  <2>. QED  BY <1>1, <1>6, <2>1, Zenon DEF LocalWake, TypeOK
<1>. QED  BY ZenonT(40), <1>2, <1>3, <1>4, <1>5, <1>6 DEF LocalStep

-----------------------------------------------------------------------------
(* The steps of the sockets, the sweep and the restart. *)

LEMMA TodoLemma ==
    ASSUME TypeOK, NEW t \in Task
    PROVE  /\ todo[t] \in SUBSET (Job \X (Worker \cup {NoWorker}))
           /\ \A r \in todo[t] : /\ r[1] \in Job /\ r[2] \in Worker \cup {NoWorker}
                                 /\ todo[t] \ {r} \in SUBSET (Job \X (Worker \cup {NoWorker}))
BY DEF TypeOK

\* A withdrawn row is a live row.
LEMMA WithdrawnRow ==
    ASSUME TypeOK, NEW t \in Task, NEW r \in todo[t], SetRow(r[1], "queued", NoWorker)
    PROVE  /\ rows' \in [Job -> Row]
           /\ \A i \in Job : is_terminal(rows'[i].status) => is_terminal(rows[i].status)
<1>1. r[1] \in Job
  BY ZenonT(40), TodoLemma
<1>. QED  BY ZenonT(40), <1>1, RowsAreTyped DEF SetRow, Row, Status, NoWorker, is_terminal

LEMMA WithdrawLemma ==
    ASSUME TypeOK, ReadExpired \/ Expire \/ \E s \in Session : Release(s)
    PROVE  /\ rows' \in [Job -> Row]
           /\ \A i \in Job : is_terminal(rows'[i].status) => is_terminal(rows[i].status)
<1>1. rows' = rows \/ \E t \in Task : \E r \in todo[t] : SetRow(r[1], "queued", NoWorker)
  BY TaskKinds, Zenon DEF ReadExpired, Expire, Release
<1>. QED  BY ZenonT(40), <1>1, RowsAreTyped, WithdrawnRow

LEMMA ReadRowsLemma ==
    ASSUME TypeOK, NEW S \in SUBSET Job
    PROVE  {<<j, rows[j].worker>> : j \in S} \in SUBSET (Job \X (Worker \cup {NoWorker}))
BY DEF TypeOK, Row

LEMMA ServeIsSane ==
    ASSUME TypeOK, TasksAreSane, NEW s \in Session, ServeStep(s)
    PROVE  TypeOK' /\ TasksAreSane'
<1>. USE DEF TaskPc, DispatchPc, CompletedPc, JobPc, hubvars, cancelvars, callvars, faultvars
<1>0. /\ s \in Task /\ pc[s] # "idle" /\ device[s] \in Worker
      /\ pc[s] \in JobPc => job[s] \in Job /\ rows[job[s]].worker \in Worker \cup {NoWorker}
  <2>1. s \in Task
    BY TaskKinds
  <2>2. pc[s] # "idle"
    BY ZenonT(40) DEF ServeStep, ReadParked, NextParked, Unpark, ApplyClaim, ApplyProgress,
       Validate,
           Complete, DropBytes, WakeAfterFrame, Detach, ReadUnclaimed, Release
  <2>. QED  BY ZenonT(40), <2>1, <2>2 DEF TasksAreSane, TypeOK, Row
<1>1. CASE ReadParked(s)
  <2>1. TaskTypeOK' /\ OnlyTask(s) /\ pc'[s] = "parked"
    <3>1. {<<j, rows[j].worker>> : j \in {i \in Job : rows[i].status = "needs_worker"}}
             \in SUBSET (Job \X (Worker \cup {NoWorker}))
      BY ZenonT(40), ReadRowsLemma
    <3>. QED  BY Zenon, <1>0, <1>1, <3>1, KeepLemma DEF ReadParked
  <2>. QED  BY ZenonT(40), <1>0, <1>1, <2>1, TypeTaskStep, SaneStep DEF ReadParked
<1>2. CASE NextParked(s)
  <2>1. /\ TaskTypeOK' /\ OnlyTask(s)
        /\ \/ pc'[s] \in {"parked", "serving"}
           \/ pc'[s] = "unpark" /\ job'[s] \in Job
    <3>1. CASE todo[s] = {} /\ Goto(s, "serving")
      BY ZenonT(40), <1>0, <3>1, GotoLemma
    <3>2. ASSUME NEW r \in todo[s],
                 \/ Keep(s, "parked", todo[s] \ {r})
                 \/ Handle(s, "unpark", r[1], todo[s] \ {r})
          PROVE  /\ TaskTypeOK' /\ OnlyTask(s)
                 /\ pc'[s] = "parked" \/ (pc'[s] = "unpark" /\ job'[s] \in Job)
      <4>1. r[1] \in Job /\ todo[s] \ {r} \in SUBSET (Job \X (Worker \cup {NoWorker}))
        BY ZenonT(40), <1>0, TodoLemma
      <4>2. CASE Keep(s, "parked", todo[s] \ {r})
        BY ZenonT(40), <1>0, <4>1, <4>2, KeepLemma
      <4>3. CASE Handle(s, "unpark", r[1], todo[s] \ {r})
        BY <1>0, <4>1, <4>3, HandleLemma
      <4>. QED  BY Zenon, <3>2, <4>2, <4>3
    <3>. QED  BY <1>2, <3>1, <3>2, ZenonT(40) DEF NextParked
  <2>. QED  BY ZenonT(40), <1>0, <1>2, <2>1, TypeTaskStep, SaneStep DEF NextParked
<1>3. CASE Unpark(s)
  <2>1. /\ TaskTypeOK' /\ OnlyTask(s)
        /\ \/ pc'[s] = "parked"
           \/ pc'[s] \in {"select", "prefer"} /\ job'[s] \in Job /\ ret'[s] = "parked"
    BY <1>0, <1>3, TodoLemma, BackToLemma, DispatchLemma, Zenon DEF Unpark, Loop
  <2>2. rows' \in [Job -> Row]
    BY <1>0, <1>3, RowsAreTyped DEF Unpark, SetRow, Row, Status
  <2>. QED  BY ZenonT(40), <1>0, <1>3, <2>1, <2>2, TypeRowStep, SaneStep DEF Unpark
<1>4. CASE ApplyClaim(s)
  <2>1. TaskTypeOK' /\ OnlyTask(s) /\ pc'[s] = "serving"
    BY Zenon, <1>0, <1>4, BackToLemma DEF ApplyClaim
  <2>2. rows' \in [Job -> Row]
    BY <1>0, <1>4, RowsAreTyped DEF ApplyClaim, SetRow, Row, Status
  <2>. QED  BY ZenonT(40), <1>0, <1>4, <2>1, <2>2, TypeRowStep, SaneStep DEF ApplyClaim
<1>5. CASE ApplyProgress(s)
  <2>1. TaskTypeOK' /\ OnlyTask(s) /\ pc'[s] = "serving"
    BY Zenon, <1>0, <1>5, BackToLemma DEF ApplyProgress
  <2>2. rows' \in [Job -> Row]
    BY <1>0, <1>5, RowsAreTyped DEF ApplyProgress, SetRow, Row, Status
  <2>. QED  BY ZenonT(40), <1>0, <1>5, <2>1, <2>2, TypeRowStep, SaneStep DEF ApplyProgress
<1>6. CASE Validate(s)
  <2>1. /\ TaskTypeOK' /\ OnlyTask(s)
        /\ \/ pc'[s] = "serving"
           \/ pc'[s] \in {"write_done", "write_failed"} /\ job'[s] = job[s]
    BY ZenonT(40), <1>0, <1>6, BackToLemma, GotoLemma DEF Validate
  <2>. QED  BY ZenonT(40), <1>0, <1>6, <2>1, TypeTaskStep, SaneStep DEF Validate
<1>7. CASE Complete(s)
  <2>1. /\ TaskTypeOK' /\ OnlyTask(s)
        /\ \/ pc'[s] = "serving"
           \/ pc'[s] \in {"wake_done", "drop_bytes"} /\ job'[s] = job[s]
    BY Zenon, <1>0, <1>7, BackToLemma, GotoLemma DEF Complete
  <2>2. rows' \in [Job -> Row]
    BY <1>0, <1>7, RowsAreTyped DEF Complete, SetRow, Row, Status
  <2>. QED  BY ZenonT(40), <1>0, <1>7, <2>1, <2>2, TypeRowStep, SaneStep DEF Complete
<1>8. CASE DropBytes(s)
  <2>1. TaskTypeOK' /\ OnlyTask(s) /\ pc'[s] = "wake_failed" /\ job'[s] = job[s]
    BY ZenonT(40), <1>0, <1>8, GotoLemma DEF DropBytes
  <2>2. TypeOK'
    BY <1>8, <2>1, ZenonT(40) DEF DropBytes, TypeOK, TaskTypeOK
  <2>3. TasksAreSane'
    BY ZenonT(40), <1>0, <1>8, <2>1, SaneStep DEF DropBytes
  <2>. QED  BY ZenonT(40), <2>2, <2>3
<1>9. CASE WakeAfterFrame(s)
  <2>1. TaskTypeOK' /\ OnlyTask(s) /\ pc'[s] = "serving"
    BY ZenonT(40), <1>0, <1>9, BackToLemma DEF WakeAfterFrame
  <2>2. waiters' \in SUBSET Job /\ reply' \in [Job -> Reply]
    BY ZenonT(40), <1>0, <1>9, WakeLemma DEF WakeAfterFrame, Outcome
  <2>. QED  BY ZenonT(40), <1>0, <1>9, <2>1, <2>2, TypeCallStep, SaneStep DEF WakeAfterFrame
<1>10. CASE Detach(s)
  <2>1. TaskTypeOK' /\ OnlyTask(s) /\ pc'[s] \in {"detached", "closed"}
    BY ZenonT(40), <1>0, <1>10, GotoLemma DEF Detach
  <2>2. hub' \in [Worker -> Session \cup {0}]
    BY ZenonT(40), <1>10 DEF Detach, TypeOK
  <2>3. TypeOK'
    BY ZenonT(40), <1>10, <2>1, <2>2 DEF Detach, TypeOK, TaskTypeOK
  <2>4. TasksAreSane'
    BY ZenonT(40), <1>0, <1>10, <2>1, SaneStep DEF Detach
  <2>. QED  BY ZenonT(40), <2>3, <2>4
<1>11. CASE ReadUnclaimed(s)
  <2>1. TaskTypeOK' /\ OnlyTask(s) /\ pc'[s] = "release"
    <3>. DEFINE S == {i \in Job : rows[i] = [status |-> "queued", worker |-> device[s]]}
    <3>1. {<<j, rows[j].worker>> : j \in S} \in SUBSET (Job \X (Worker \cup {NoWorker}))
      <4>1. S \in SUBSET Job
        BY ZenonT(40)
      <4>. HIDE DEF S
      <4>. QED  BY ZenonT(40), <4>1, ReadRowsLemma
    <3>. QED  BY ZenonT(40), <1>0, <1>11, <3>1, KeepLemma DEF ReadUnclaimed
  <2>. QED  BY ZenonT(40), <1>0, <1>11, <2>1, TypeTaskStep, SaneStep DEF ReadUnclaimed
<1>12. CASE Release(s)
  <2>1. /\ TaskTypeOK' /\ OnlyTask(s)
        /\ \/ pc'[s] \in {"release", "closed"}
           \/ pc'[s] \in {"select", "prefer"} /\ job'[s] \in Job /\ ret'[s] = "release"
    <3>1. CASE todo[s] = {} /\ Goto(s, "closed")
      BY ZenonT(40), <1>0, <3>1, GotoLemma
    <3>2. ASSUME NEW r \in todo[s],
                 \/ Keep(s, "release", todo[s] \ {r})
                 \/ Dispatch(s, r[1], NoWorker, todo[s] \ {r}, "release")
          PROVE  /\ TaskTypeOK' /\ OnlyTask(s)
                 /\ \/ pc'[s] = "release"
                    \/ /\ pc'[s] \in {"select", "prefer"} /\ job'[s] \in Job
                       /\ ret'[s] = "release"
      <4>1. r[1] \in Job /\ todo[s] \ {r} \in SUBSET (Job \X (Worker \cup {NoWorker}))
        BY ZenonT(40), <1>0, TodoLemma
      <4>. QED  BY <1>0, <3>2, <4>1, KeepLemma, DispatchLemma DEF Loop
    <3>. QED  BY <1>12, <3>1, <3>2, ZenonT(40) DEF Release
  <2>2. rows' \in [Job -> Row]
    BY ZenonT(40), <1>12, WithdrawLemma
  <2>. QED  BY ZenonT(40), <1>0, <1>12, <2>1, <2>2, TypeRowStep, SaneStep DEF Release
<1>. QED  BY ZenonT(40), <1>1, <1>2, <1>3, <1>4, <1>5, <1>6, <1>7, <1>8, <1>9, <1>10, <1>11, <1>12
          DEF ServeStep

\* The session of a new socket is the next epoch.
LEMMA AttachLemma ==
    ASSUME TypeOK, NEW w \in Worker, Attach(w)
    PROVE  /\ epochs \in Nat /\ epochs + 1 \in Session /\ epochs + 1 \in Task
           /\ epochs' = epochs + 1 /\ epochs' \in 0 .. MaxSessions
           /\ TaskTypeOK' /\ OnlyTask(epochs + 1) /\ pc'[epochs + 1] = "hello"
<1>1. epochs \in 0 .. MaxSessions
  BY ZenonT(40) DEF TypeOK
<1>2. epochs < MaxSessions /\ epochs' = epochs + 1 /\ Goto(epochs + 1, "hello")
  BY ZenonT(40) DEF Attach
<1>3. epochs \in Nat /\ epochs + 1 \in Session /\ epochs' \in 0 .. MaxSessions
  BY <1>1, <1>2, ConstantsAreSane DEF Session
<1>4. epochs + 1 \in Task /\ "hello" \in TaskPc
  BY <1>3, TaskKinds DEF TaskPc
<1>. QED  BY ZenonT(40), <1>2, <1>3, <1>4, GotoLemma

LEMMA SocketIsSane ==
    ASSUME TypeOK, TasksAreSane,
           \/ \E w \in Worker : Attach(w) \/ Publish(w) \/ \E j \in Job : Authorise(w, j)
           \/ \E s \in Session : EndServe(s) \/ \E kind \in FrameKind, j \in Job : Frame(s, kind, j)
    PROVE  TypeOK' /\ TasksAreSane'
<1>. USE DEF TaskPc, DispatchPc, CompletedPc, JobPc, hubvars, taskvars, cancelvars, callvars,
             faultvars
<1>1. ASSUME NEW w \in Worker, Attach(w)  PROVE TypeOK' /\ TasksAreSane'
  <2>. DEFINE s == epochs + 1
  <2>1. s \in Session /\ s \in Task /\ epochs' \in 0 .. MaxSessions
    BY ZenonT(40), <1>1, AttachLemma
  <2>2. TaskTypeOK' /\ OnlyTask(s) /\ pc'[s] = "hello"
    BY ZenonT(40), <1>1, AttachLemma
  <2>3. /\ hub' \in [Worker -> Session \cup {0}]
        /\ device' \in [Session -> Worker \cup {NoWorker}]
        /\ device'[s] = w /\ \A r \in Session \ {s} : device'[r] = device[r]
    BY ZenonT(40), <1>1, <2>1 DEF Attach, TypeOK
  <2>4. TypeOK'
    BY <1>1, <2>1, <2>2, <2>3, Zenon DEF Attach, TypeOK, TaskTypeOK
  <2>5. \A t \in Task : /\ pc'[t] \in JobPc => job'[t] \in Job
                        /\ pc'[t] \in {"send", "assign"} => dev'[t] \in Worker
    BY <2>2, Zenon DEF TasksAreSane, OnlyTask
  <2>6. \A r \in Session : /\ pc'[r] # "idle" => r <= epochs' /\ device'[r] \in Worker
                           /\ pc'[r] \in DispatchPc => ret'[r] \in {"parked", "release"}
    <3>. SUFFICES ASSUME NEW r \in Session
                  PROVE  /\ pc'[r] # "idle" => r <= epochs' /\ device'[r] \in Worker
                         /\ pc'[r] \in DispatchPc => ret'[r] \in {"parked", "release"}
      BY ZenonT(40)
    <3>0. r \in Nat /\ epochs \in Nat /\ epochs' = epochs + 1
      BY <1>1, AttachLemma, ConstantsAreSane DEF Session
    <3>1. CASE r = s
      BY <1>1, <2>2, <2>3, <3>0, <3>1
    <3>2. CASE r # s
      BY <2>2, <2>3, <3>0, <3>2, TaskKinds DEF TasksAreSane, OnlyTask
    <3>. QED  BY ZenonT(40), <3>1, <3>2
  <2>. QED  BY ZenonT(40), <2>4, <2>5, <2>6 DEF TasksAreSane
<1>2. ASSUME NEW w \in Worker, Publish(w)  PROVE TypeOK' /\ TasksAreSane'
  <2>1. bytes' \in [Job -> BOOLEAN] /\ upload' \in [Worker -> Job \cup {NoJob}]
    BY <1>2, ZenonT(40) DEF Publish, TypeOK
  <2>2. TypeOK'
    BY ZenonT(40), <1>2, <2>1 DEF Publish, TypeOK
  <2>3. TasksAreSane'
    BY <1>2, Zenon DEF Publish, TasksAreSane
  <2>. QED  BY ZenonT(40), <2>2, <2>3
<1>3. ASSUME NEW w \in Worker, NEW j \in Job, Authorise(w, j)  PROVE TypeOK' /\ TasksAreSane'
  <2>1. TypeOK'
    BY ZenonT(40), <1>3 DEF Authorise, TypeOK
  <2>2. TasksAreSane'
    BY <1>3, Zenon DEF Authorise, TasksAreSane
  <2>. QED  BY ZenonT(40), <2>1, <2>2
<1>4. ASSUME NEW s \in Session, EndServe(s)  PROVE TypeOK' /\ TasksAreSane'
  <2>1. s \in Task /\ TaskTypeOK' /\ OnlyTask(s) /\ pc'[s] = "detach"
    BY <1>4, TaskKinds, GotoLemma, Zenon DEF EndServe
  <2>. QED  BY <1>4, <2>1, TypeTaskStep, SaneStep, Zenon DEF EndServe
<1>5. ASSUME NEW s \in Session, NEW kind \in FrameKind, NEW j \in Job, Frame(s, kind, j)
      PROVE  TypeOK' /\ TasksAreSane'
  <2>1. /\ s \in Task /\ kind \in TaskPc \ DispatchPc
        /\ {} \in SUBSET (Job \X (Worker \cup {NoWorker}))
    BY TaskKinds DEF FrameKind
  <2>2. TaskTypeOK' /\ OnlyTask(s) /\ pc'[s] = kind /\ job'[s] = j
    <3>. HIDE DEF TaskPc, DispatchPc, CompletedPc, JobPc
    <3>1. kind \in TaskPc
      BY <2>1
    <3>2. Handle(s, kind, j, {})
      BY ZenonT(40), <1>5 DEF Frame
    <3>. QED  BY <2>1, <3>1, <3>2, HandleLemma, ZenonT(40)
  <2>. QED  BY <1>5, <2>1, <2>2, TypeTaskStep, SaneStep, Zenon DEF Frame
<1>. QED  BY ZenonT(40), <1>1, <1>2, <1>3, <1>4, <1>5

LEMMA SweepIsSane ==
    ASSUME TypeOK, TasksAreSane, ReadExpired \/ Expire
    PROVE  TypeOK' /\ TasksAreSane'
<1>. USE DEF TaskPc, DispatchPc, CompletedPc, JobPc, hubvars, cancelvars, callvars, faultvars
<1>0. Sweeper \in Task /\ Sweeper \notin Session
  BY ZenonT(40), TaskKinds, ConstantsAreSane
<1>1. CASE ReadExpired
  <2>1. TaskTypeOK' /\ OnlyTask(Sweeper) /\ pc'[Sweeper] = "expired"
    <3>. DEFINE S == {i \in Job : rows[i].status = "queued" /\ rows[i].worker # NoWorker}
    <3>1. {<<j, rows[j].worker>> : j \in S} \in SUBSET (Job \X (Worker \cup {NoWorker}))
      <4>1. S \in SUBSET Job
        BY ZenonT(40)
      <4>. HIDE DEF S
      <4>. QED  BY ZenonT(40), <4>1, ReadRowsLemma
    <3>2. PICK late \in SUBSET {<<j, rows[j].worker>> : j \in S} : Keep(Sweeper, "expired", late)
      BY ZenonT(40), <1>1 DEF ReadExpired
    <3>3. late \in SUBSET (Job \X (Worker \cup {NoWorker}))
      BY ZenonT(40), <3>1, <3>2
    <3>. QED  BY ZenonT(40), <1>0, <3>2, <3>3, KeepLemma
  <2>. QED  BY ZenonT(40), <1>0, <1>1, <2>1, TypeTaskStep, SaneStep DEF ReadExpired
<1>2. CASE Expire
  <2>1. /\ TaskTypeOK' /\ OnlyTask(Sweeper)
        /\ \/ pc'[Sweeper] \in {"expired", "idle"}
           \/ pc'[Sweeper] \in {"select", "prefer"} /\ job'[Sweeper] \in Job
    <3>1. CASE todo[Sweeper] = {} /\ Goto(Sweeper, "idle")
      BY Zenon, <1>0, <3>1, GotoLemma
    <3>2. ASSUME NEW r \in todo[Sweeper],
                 \/ Keep(Sweeper, "expired", todo[Sweeper] \ {r})
                 \/ Dispatch(Sweeper, r[1], r[2], todo[Sweeper] \ {r}, "expired")
          PROVE  /\ TaskTypeOK' /\ OnlyTask(Sweeper)
                 /\ \/ pc'[Sweeper] = "expired"
                    \/ pc'[Sweeper] \in {"select", "prefer"} /\ job'[Sweeper] \in Job
      <4>1. /\ r[1] \in Job /\ r[2] \in Worker \cup {NoWorker}
            /\ todo[Sweeper] \ {r} \in SUBSET (Job \X (Worker \cup {NoWorker}))
        BY ZenonT(40), <1>0, TodoLemma
      <4>2. CASE Keep(Sweeper, "expired", todo[Sweeper] \ {r})
        BY ZenonT(40), <1>0, <4>1, <4>2, KeepLemma
      <4>3. CASE Dispatch(Sweeper, r[1], r[2], todo[Sweeper] \ {r}, "expired")
        BY <1>0, <4>1, <4>3, DispatchLemma DEF Loop
      <4>. QED  BY ZenonT(40), <3>2, <4>2, <4>3
    <3>. QED  BY <1>2, <3>1, <3>2, ZenonT(40) DEF Expire
  <2>2. rows' \in [Job -> Row]
    BY ZenonT(40), <1>2, WithdrawLemma
  <2>. QED  BY Zenon, <1>0, <1>2, <2>1, <2>2, TypeRowStep, SaneStep DEF Expire
<1>. QED  BY <1>1, <1>2

LEMMA RestartIsSane ==
    ASSUME TypeOK, TasksAreSane, Restart
    PROVE  TypeOK' /\ TasksAreSane'
<1>1. pc' = [t \in Task |-> "idle"]
  BY DEF Restart
<1>2. TasksAreSane'
  BY <1>1, TaskKinds DEF TasksAreSane, JobPc, DispatchPc, CompletedPc
<1>3. restarts' \in 0 .. MaxRestarts /\ epochs' \in 0 .. MaxSessions
  <2>1. restarts < MaxRestarts /\ restarts' = restarts + 1 /\ epochs' = 0
    BY DEF Restart
  <2>2. restarts \in 0 .. MaxRestarts
    BY DEF TypeOK
  <2>. QED  BY <2>1, <2>2, ConstantsAreSane
<1>4. /\ pc' \in [Task -> TaskPc] /\ job' \in [Task -> Job \cup {NoJob}]
      /\ dev' \in [Task -> Worker \cup {NoWorker}] /\ avoid' \in [Task -> Worker \cup {NoWorker}]
      /\ ret' \in [Task -> Loop]
  BY DEF Restart, TaskPc, Loop
<1>5. todo' \in [Task -> SUBSET (Job \X (Worker \cup {NoWorker}))]
  BY DEF Restart
<1>6. /\ hub' \in [Worker -> Session \cup {0}] /\ device' \in [Session -> Worker \cup {NoWorker}]
      /\ upload' \in [Worker -> Job \cup {NoJob}] /\ waiters' \in SUBSET Job
  BY DEF Restart
<1>7. /\ local' \in [Job -> LocalPc] /\ cancel' \in [Job -> CancelPc] /\ was' \in [Job -> Status]
  BY ZenonT(40) DEF Restart, LocalPc, CancelPc, Status
<1>8. /\ rows' \in [Job -> Row] /\ bytes' \in [Job -> BOOLEAN] /\ reply' \in [Job -> Reply]
      /\ drops' \in 0 .. MaxDrops
  BY ZenonT(40) DEF Restart, TypeOK
<1>. QED  BY ZenonT(40), <1>2, <1>3, <1>4, <1>5, <1>6, <1>7, <1>8 DEF TypeOK

LEMMA SaneInit == Init => TasksAreSane
BY TaskKinds DEF Init, TasksAreSane, JobPc, DispatchPc, CompletedPc

LEMMA SaneNext ==
    ASSUME TypeOK, TasksAreSane, [Next]_vars
    PROVE  TypeOK' /\ TasksAreSane'
<1>1. CASE UNCHANGED vars
  BY ZenonT(40), <1>1 DEF vars, hubvars, taskvars, cancelvars, callvars, faultvars, TypeOK,
     TasksAreSane
<1>2. CASE Next
  BY ZenonT(40), <1>2, DispatchIsSane, RequestIsSane, CancelIsSane, LocalIsTyped, ServeIsSane,
     SocketIsSane, SweepIsSane, RestartIsSane DEF Next
<1>. QED  BY ZenonT(40), <1>1, <1>2

\* Type correctness, with what each program counter says about its task: a task
\* that dispatches, or applies a frame, always has a job in hand, and an offer is
\* only ever sent and written for a worker that was chosen.
THEOREM TypeCorrect == Spec => [](TypeOK /\ TasksAreSane)
<1>1. Init => TypeOK /\ TasksAreSane
  BY ZenonT(40), TypeInit, SaneInit
<1>2. TypeOK /\ TasksAreSane /\ [Next]_vars => TypeOK' /\ TasksAreSane'
  BY ZenonT(40), SaneNext
<1>. QED  BY <1>1, <1>2, PTL DEF Spec

-----------------------------------------------------------------------------
(* The lifecycle of a row. *)

LEMMA UnchangedOrMoves ==
    ASSUME TypeOK, TasksAreSane, [Next]_vars
    PROVE  UNCHANGED rows \/ Lifecycle!LifecycleNext
<1>. USE DEF Matches, SetRow, DispatchPc, CompletedPc, JobPc, Lifecycle!Moves,
             Lifecycle!LifecycleNext, NoWorker, Lifecycle!NoWorker
<1>1. ASSUME NEW t \in Task, Assign(t)  PROVE UNCHANGED rows \/ Lifecycle!LifecycleNext
  <2>1. job[t] \in Job /\ dev[t] \in Worker
    BY ZenonT(40), <1>1 DEF Assign, TasksAreSane
  <2>. QED  BY ZenonT(40), <1>1, <2>1 DEF Assign, Lifecycle!Offer
<1>2. ASSUME NEW t \in Task, Fallback(t)  PROVE UNCHANGED rows \/ Lifecycle!LifecycleNext
  <2>1. job[t] \in Job
    BY <1>2 DEF Fallback, TasksAreSane
  <2>. QED  BY ZenonT(40), <1>2, <2>1 DEF Fallback, Lifecycle!Park
<1>3. ASSUME NEW j \in Job, Enqueue(j)  PROVE Lifecycle!LifecycleNext
  BY <1>3, ZenonT(40) DEF Enqueue, Lifecycle!Create
<1>4. ASSUME NEW j \in Job, CancelMark(j)  PROVE UNCHANGED rows \/ Lifecycle!LifecycleNext
  <2>1. rows[j].status \in Status
    BY DEF TypeOK, Row
  <2>. QED  BY ZenonT(40), <1>4, <2>1 DEF CancelMark, Status, is_terminal, Lifecycle!GiveUp
<1>5. ASSUME NEW j \in Job, LocalStart(j)  PROVE UNCHANGED rows \/ Lifecycle!LifecycleNext
  BY ZenonT(40), <1>5 DEF LocalStart, Lifecycle!StartLocal
<1>6. ASSUME NEW j \in Job, LocalFinish(j)  PROVE UNCHANGED rows \/ Lifecycle!LifecycleNext
  BY ZenonT(40), <1>6 DEF LocalFinish, FinishFrom, Lifecycle!Finish
<1>7. ASSUME NEW s \in Session, Unpark(s)  PROVE UNCHANGED rows \/ Lifecycle!LifecycleNext
  <2>1. job[s] \in Job
    BY ZenonT(40), <1>7, TaskKinds DEF Unpark, TasksAreSane
  <2>. QED  BY ZenonT(40), <1>7, <2>1 DEF Unpark, Lifecycle!Unpark
<1>8. ASSUME NEW s \in Session, ApplyClaim(s)  PROVE UNCHANGED rows \/ Lifecycle!LifecycleNext
  <2>1. job[s] \in Job /\ device[s] # NoWorker
    BY ZenonT(40), <1>8, TaskKinds, ConstantsAreSane DEF ApplyClaim, TasksAreSane, NoWorker
  <2>. QED  BY ZenonT(40), <1>8, <2>1 DEF ApplyClaim, Lifecycle!Claim
<1>9. ASSUME NEW s \in Session, ApplyProgress(s)  PROVE UNCHANGED rows \/ Lifecycle!LifecycleNext
  <2>1. job[s] \in Job
    BY ZenonT(40), <1>9, TaskKinds DEF ApplyProgress, TasksAreSane
  <2>. QED  BY ZenonT(40), <1>9, <2>1 DEF ApplyProgress, Lifecycle!Report
<1>10. ASSUME NEW s \in Session, Complete(s)  PROVE UNCHANGED rows \/ Lifecycle!LifecycleNext
  <2>1. job[s] \in Job
    BY ZenonT(40), <1>10, TaskKinds DEF Complete, TasksAreSane
  <2>. QED  BY ZenonT(40), <1>10, <2>1 DEF Complete, FinishFrom, Lifecycle!Finish
<1>11. ASSUME NEW s \in Session, Release(s)  PROVE UNCHANGED rows \/ Lifecycle!LifecycleNext
  BY <1>11, TaskKinds, TodoLemma, Zenon DEF Release, Lifecycle!Withdraw
<1>12. CASE Expire
  <2>1. ASSUME NEW r \in todo[Sweeper], rows[r[1]] = [status |-> "queued", worker |-> r[2]],
               SetRow(r[1], "queued", NoWorker)
        PROVE  Lifecycle!LifecycleNext
    <3>1. r[1] \in Job /\ rows[r[1]].status = "queued"
      BY <2>1, TaskKinds, TodoLemma
    <3>. QED  BY <2>1, <3>1, ZenonT(40) DEF Lifecycle!Withdraw
  <2>. QED  BY <1>12, <2>1, Zenon DEF Expire
<1>13. CASE UNCHANGED vars
  BY ZenonT(40), <1>13 DEF vars
<1>14. CASE Next
  <2>1. CASE \E t \in Task : DispatchStep(t)
    BY ZenonT(40), <1>1, <1>2, <2>1 DEF DispatchStep, Prefer, Select, Send
  <2>2. CASE \E j \in Job : \/ Enqueue(j) \/ Reread(j) \/ Timeout(j) \/ Abandon(j)
                            \/ Cancel(j) \/ CancelStep(j) \/ AbandonCancel(j) \/ LocalStep(j)
    BY ZenonT(40), <1>3, <1>4, <1>5, <1>6, <2>2
       DEF Reread, Timeout, Abandon, Cancel, CancelStep, CancelSend, CancelRemove,
           CancelWake, AbandonCancel, LocalStep, LocalRun, LocalValidate, LocalWake
  <2>3. CASE \E w \in Worker : Attach(w) \/ Publish(w) \/ \E j \in Job : Authorise(w, j)
    BY Zenon, <2>3 DEF Attach, Publish, Authorise
  <2>4. CASE \E s \in Session : \/ ServeStep(s) \/ EndServe(s)
                                \/ \E kind \in FrameKind, j \in Job : Frame(s, kind, j)
    BY <1>7, <1>8, <1>9, <1>10, <1>11, <2>4, Zenon
       DEF ServeStep, ReadParked, NextParked, Validate, DropBytes, WakeAfterFrame, Detach,
           ReadUnclaimed, EndServe, Frame
  <2>. QED  BY <1>12, <1>14, <2>1, <2>2, <2>3, <2>4, ZenonT(40) DEF Next, ReadExpired, Restart
<1>. QED  BY ZenonT(40), <1>13, <1>14

\* Whatever the tasks do, however they interleave and wherever a restart or a
\* dropped request cuts one short, the table only makes moves of the lifecycle:
\* terminal rows are final, only an offered row is claimed, a claimed row keeps its
\* holder until it ends.
THEOREM LifecycleRefined == Spec => ImplementsLifecycle
<1>1. Init => Lifecycle!LifecycleInit
  BY DEF Init, Absent, NoWorker, Lifecycle!LifecycleInit, Lifecycle!Absent, Lifecycle!NoWorker
<1>2. TypeOK /\ TasksAreSane /\ [Next]_vars => [Lifecycle!LifecycleNext]_rows
  BY ZenonT(40), UnchangedOrMoves
<1>. QED  BY <1>1, <1>2, TypeCorrect, PTL DEF Spec, ImplementsLifecycle, Lifecycle!LifecycleSpec

\* What the lifecycle says of one row.
LEMMA RowMoves ==
    ASSUME TypeOK, UNCHANGED rows \/ Lifecycle!LifecycleNext, NEW j \in Job
    PROVE  /\ is_terminal(rows[j].status) => rows'[j] = rows[j]
           /\ rows[j].status \in {"running", "done", "failed"}
                 => rows'[j].status \in {"running", "done", "failed"}
BY DEF TypeOK, Row, is_terminal, Lifecycle!LifecycleNext, Lifecycle!Moves, Lifecycle!Create,
       Lifecycle!Offer, Lifecycle!Withdraw, Lifecycle!Park, Lifecycle!Unpark, Lifecycle!Claim,
       Lifecycle!StartLocal, Lifecycle!Report, Lifecycle!Finish, Lifecycle!GiveUp

-----------------------------------------------------------------------------
(* One runner per job. *)

LEMMA LocalNext ==
    ASSUME TypeOK, TasksAreSane, LocalIsSane, [Next]_vars
    PROVE  LocalIsSane'
<1>. USE DEF LocalActive, is_terminal
<1>0. \A i \in Job :
         /\ is_terminal(rows[i].status) => rows'[i] = rows[i]
         /\ rows[i].status \in {"running", "done", "failed"}
               => rows'[i].status \in {"running", "done", "failed"}
  BY UnchangedOrMoves, RowMoves
<1>1. ASSUME NEW j \in Job, LocalStep(j)  PROVE LocalIsSane'
  <2>0. rows[j].worker \in Worker \cup {NoWorker}
    BY ZenonT(40) DEF TypeOK, Row
  <2>1. /\ \A i \in Job \ {j} : local'[i] = local[i]
        /\ local \in [Job -> LocalPc] /\ local' \in [Job -> LocalPc]
    BY ZenonT(40), <1>1, LocalIsTyped
       DEF TypeOK, LocalStep, LocalStart, LocalRun, LocalValidate, LocalFinish, LocalWake, LocalGoto
  <2>2. /\ LocalActive(j)' => rows'[j].status \in {"running", "done", "failed"}
        /\ local'[j] \in {"wake_done", "wake_failed"} => is_terminal(rows'[j].status)
    <3>1. CASE LocalStart(j)
      <4>1. \/ local'[j] = "running" /\ rows'[j].status = "running"
            \/ local'[j] = "none"
        BY <2>0, <2>1, <3>1, RowsAreTyped DEF SetRow, LocalStart, LocalGoto
      <4>. QED  BY ZenonT(40), <4>1
    <3>2. CASE LocalRun(j)
      BY ZenonT(40), <1>0, <2>1, <3>2 DEF LocalRun, LocalGoto, LocalIsSane
    <3>3. CASE LocalValidate(j)
      BY ZenonT(40), <1>0, <2>1, <3>3 DEF LocalValidate, LocalGoto, LocalIsSane
    <3>4. CASE LocalFinish(j)
      <4>1. rows'[j].status \in {"done", "failed"} \/ local'[j] = "none"
        BY <2>0, <2>1, <3>4, RowsAreTyped DEF SetRow, LocalFinish, LocalGoto
      <4>. QED  BY ZenonT(40), <4>1
    <3>5. CASE LocalWake(j)
      BY ZenonT(40), <2>1, <3>5 DEF LocalWake, LocalGoto
    <3>. QED  BY Zenon, <1>1, <3>1, <3>2, <3>3, <3>4, <3>5 DEF LocalStep
  <2>. QED  BY ZenonT(40), <1>0, <2>1, <2>2 DEF LocalIsSane
<1>2. ASSUME \A i \in Job : local'[i] = local[i] \/ local'[i] \in {"none", "spawned"}
      PROVE  LocalIsSane'
  BY ZenonT(40), <1>0, <1>2 DEF LocalIsSane
<1>3. ASSUME UNCHANGED local  PROVE LocalIsSane'
  BY <1>2, <1>3
<1>4. ASSUME NEW t \in Task, Fallback(t)  PROVE LocalIsSane'
  <2>1. \A i \in Job : local'[i] = local[i] \/ local'[i] = "spawned"
    BY ZenonT(40), <1>4 DEF Fallback, TypeOK
  <2>. QED  BY ZenonT(40), <1>2, <2>1
<1>5. CASE Restart
  BY ZenonT(40), <1>2, <1>5 DEF Restart
<1>6. CASE UNCHANGED vars
  BY ZenonT(40), <1>3, <1>6 DEF vars
<1>7. CASE Next
  <2>1. CASE \E t \in Task : DispatchStep(t)
    BY <1>3, <1>4, <2>1, Zenon DEF DispatchStep, Prefer, Select, Send, Assign
  <2>2. CASE \E j \in Job : \/ Enqueue(j) \/ Reread(j) \/ Timeout(j) \/ Abandon(j)
                            \/ Cancel(j) \/ CancelStep(j) \/ AbandonCancel(j) \/ LocalStep(j)
    BY <1>1, <1>3, <2>2, Zenon
       DEF Enqueue, Reread, Timeout, Abandon, Cancel, CancelStep, CancelSend, CancelMark,
           CancelRemove, CancelWake, AbandonCancel
  <2>3. CASE \E w \in Worker : Attach(w) \/ Publish(w) \/ \E j \in Job : Authorise(w, j)
    BY <1>3, <2>3, Zenon DEF Attach, Publish, Authorise
  <2>4. CASE \E s \in Session : \/ ServeStep(s) \/ EndServe(s)
                                \/ \E kind \in FrameKind, j \in Job : Frame(s, kind, j)
    BY <1>3, <2>4, Zenon
       DEF ServeStep, ReadParked, NextParked, Unpark, ApplyClaim, ApplyProgress, Validate,
           Complete, DropBytes, WakeAfterFrame, Detach, ReadUnclaimed, Release, EndServe, Frame
  <2>. QED  BY <1>3, <1>5, <1>7, <2>1, <2>2, <2>3, <2>4, Zenon DEF Next, ReadExpired, Expire
<1>. QED  BY <1>6, <1>7

LEMMA LocalInit == Init => LocalIsSane
BY Zenon DEF Init, LocalIsSane, LocalActive

LEMMA LocalAlways == Spec => []LocalIsSane
<1>1. TypeOK /\ TasksAreSane /\ LocalIsSane /\ [Next]_vars => LocalIsSane'
  BY LocalNext
<1>. QED  BY <1>1, LocalInit, TypeCorrect, PTL DEF Spec

\* A worker and the local runner never both have the same job started: while the
\* spawned task of run_locally works on a row, the row is out of the queue.
THEOREM OneRunner == Spec => []SingleRunner
<1>1. LocalIsSane => SingleRunner
  BY DEF LocalIsSane, SingleRunner
<1>. QED  BY <1>1, LocalAlways, PTL

-----------------------------------------------------------------------------
(* Dropped calls. *)

\* A call that was dropped is counted for ever.
LEMMA DropIsSeen ==
    ASSUME TypeOK, drops' = drops + 1
    PROVE  drops' # 0
<1>1. drops \in Nat
  BY ConstantsAreSane DEF TypeOK
<1>. QED  BY <1>1

-----------------------------------------------------------------------------
(* No job is stranded. *)

\* A row that does not move keeps its owner when only task t moves, unless t was
\* dispatching it.
LEMMA OwnedStill ==
    ASSUME NEW j \in Job, Owned(j), rows'[j] = rows[j], local'[j] = local[j],
           NEW t \in Task, OnlyTask(t),
           \/ ~ Dispatching(t, j)
           \/ pc'[t] \in DispatchPc /\ job'[t] = job[t]
    PROVE  Owned(j)'
BY ZenonT(40) DEF Owned, LocalActive, Dispatching, OnlyTask

\* The same for a step that moves no row.
LEMMA StrandedStill ==
    ASSUME NoJobIsStranded, UNCHANGED <<rows, local, restarts, drops>>,
           NEW t \in Task, OnlyTask(t),
           pc[t] \in DispatchPc => pc'[t] \in DispatchPc /\ job'[t] = job[t]
    PROVE  NoJobIsStranded'
BY ZenonT(40), OwnedStill DEF NoJobIsStranded, Dispatching

\* A step that moves only row j, and task t.
LEMMA StrandedMove ==
    ASSUME NoJobIsStranded, UNCHANGED <<local, restarts, drops>>,
           NEW j \in Job, \A i \in Job \ {j} : rows'[i] = rows[i],
           NEW t \in Task, OnlyTask(t), pc[t] \in DispatchPc => job[t] = j, Owned(j)'
    PROVE  NoJobIsStranded'
BY ZenonT(40), OwnedStill DEF NoJobIsStranded, Dispatching

\* What makes a row somebody's business after a step: it ended, it is parked or it
\* has a worker ...
LEMMA OwnedAfter ==
    ASSUME NEW j \in Job,
           \/ rows'[j].status \in {"needs_worker", "done", "failed"}
           \/ rows'[j].worker # NoWorker
    PROVE  Owned(j)'
BY DEF Owned

\* ... or it is on the queue and a task dispatches it ...
LEMMA OwnedByDispatch ==
    ASSUME NEW j \in Job, NEW t \in Task, rows'[j].status = "queued",
           pc'[t] \in {"select", "prefer"}, job'[t] = j
    PROVE  Owned(j)'
BY ZenonT(40) DEF Owned, Dispatching, DispatchPc

\* ... or it runs and whoever ran it still does.
LEMMA OwnedRunning ==
    ASSUME NEW j \in Job, Owned(j), local' = local,
           rows[j].status \in {"claimed", "running"}, rows'[j].status = "running",
           rows'[j].worker = rows[j].worker
    PROVE  Owned(j)'
BY DEF Owned, LocalActive

LEMMA StrandedDispatch ==
    ASSUME TypeOK, TasksAreSane, LocalIsSane, NoJobIsStranded, NEW t \in Task, DispatchStep(t)
    PROVE  NoJobIsStranded'
<1>. USE DEF TaskPc, DispatchPc, hubvars, faultvars
<1>0. PICK j \in Job : j = job[t] /\ ret[t] \in Loop /\ pc[t] \in DispatchPc
  BY ZenonT(40) DEF TypeOK, TasksAreSane, JobPc, DispatchStep, Prefer, Select, Send, Assign,
     Fallback
<1>1. CASE Prefer(t)
  <2>1. CapableFor(job[t]) \ {avoid[t]} \in SUBSET Worker
    BY ZenonT(40), CapableForIsWorkers
  <2>2. OnlyTask(t) /\ job'[t] = job[t] /\ pc'[t] \in {"send", "select"}
    BY ZenonT(40), <1>1, <2>1, ChooseLemma DEF Prefer
  <2>. QED  BY ZenonT(40), <1>1, <2>2, StrandedStill DEF Prefer
<1>2. CASE Select(t)
  <2>1. CapableFor(job[t]) \in SUBSET Worker
    BY ZenonT(40), CapableForIsWorkers
  <2>2. OnlyTask(t) /\ job'[t] = job[t] /\ pc'[t] \in {"send", "fallback"}
    BY ZenonT(40), <1>2, <2>1, ChooseLemma DEF Select
  <2>. QED  BY ZenonT(40), <1>2, <2>2, StrandedStill DEF Select
<1>3. CASE Send(t)
  <2>1. OnlyTask(t) /\ job'[t] = job[t] /\ pc'[t] \in {"assign", "fallback"}
    BY ZenonT(40), <1>3, GotoLemma DEF Send
  <2>. QED  BY ZenonT(40), <1>3, <2>1, StrandedStill DEF Send
<1>4. CASE Assign(t)
  <2>1. CASE Matches(job[t], {"queued", "needs_worker"})
    <3>1. dev[t] \in Worker /\ dev[t] # NoWorker
      BY ZenonT(40), <1>4, ConstantsAreSane DEF Assign, TasksAreSane, NoWorker
    <3>2. OnlyTask(t)
      BY ZenonT(40), <1>0, <1>4, <2>1, BackToLemma DEF Assign, Loop
    <3>3. /\ \A i \in Job \ {j} : rows'[i] = rows[i]
          /\ rows'[j].status = "queued" /\ rows'[j].worker = dev[t]
      BY <1>0, <1>4, <2>1, <3>1, RowsAreTyped DEF SetRow, Assign
    <3>4. Owned(j)'
      BY ZenonT(40), <3>1, <3>3, OwnedAfter
    <3>. QED  BY ZenonT(40), <1>0, <1>4, <3>2, <3>3, <3>4, StrandedMove DEF Assign
  <2>2. CASE ~ Matches(job[t], {"queued", "needs_worker"})
    <3>1. OnlyTask(t) /\ job'[t] = job[t] /\ pc'[t] = "fallback"
      BY ZenonT(40), <1>4, <2>2, GotoLemma DEF Assign
    <3>. QED  BY ZenonT(40), <1>4, <2>2, <3>1, StrandedStill DEF Assign
  <2>. QED  BY ZenonT(40), <2>1, <2>2
<1>5. CASE Fallback(t)
  <2>1. OnlyTask(t)
    BY ZenonT(40), <1>0, <1>5, KeepLemma, BackToLemma DEF Fallback, Loop, AbortTo
  <2>2. UNCHANGED <<restarts, drops>> /\ rows[j].worker \in Worker \cup {NoWorker}
    BY ZenonT(40), <1>0, <1>5 DEF Fallback, TypeOK, Row
  <2>3. \A i \in Job \ {j} : rows'[i] = rows[i] /\ local'[i] = local[i]
    <3>1. \A i \in Job \ {j} : rows'[i] = rows[i]
      BY ZenonT(40), <1>0, <1>5, <2>2, RowsAreTyped DEF SetRow, Fallback
    <3>2. \A i \in Job \ {j} : local'[i] = local[i]
      BY ZenonT(40), <1>0, <1>5 DEF Fallback, TypeOK
    <3>. QED  BY ZenonT(40), <3>1, <3>2
  <2>4. ASSUME Owned(j)  PROVE Owned(j)'
    <3>1. CASE j \in Local
      <4>1. rows' = rows /\ local'[j] = IF local[j] = "none" THEN "spawned" ELSE local[j]
        BY ZenonT(40), <1>0, <1>5, <3>1 DEF Fallback, TypeOK
      <4>2. local[j] \in LocalPc
        BY ZenonT(40), <1>0 DEF TypeOK
      <4>. QED  BY <1>0, <2>4, <4>1, <4>2
                DEF Owned, LocalIsSane, LocalActive, LocalPc, is_terminal
    <3>2. CASE j \notin Local /\ Matches(j, {"queued"})
      <4>1. rows'[j].status = "needs_worker"
        BY <1>0, <1>5, <2>2, <3>2, RowsAreTyped DEF SetRow, Fallback
      <4>. QED  BY ZenonT(40), <4>1, OwnedAfter
    <3>3. CASE j \notin Local /\ ~ Matches(j, {"queued"})
      <4>1. rows' = rows /\ local' = local /\ rows[j].status # "queued"
        BY ZenonT(40), <1>0, <1>5, <3>3 DEF Fallback, Matches
      <4>. QED  BY <2>4, <4>1 DEF Owned, LocalActive
    <3>. QED  BY ZenonT(40), <3>1, <3>2, <3>3
  <2>5. ASSUME NEW i \in Job \ {j}, Owned(i)  PROVE Owned(i)'
    BY ZenonT(40), <1>0, <2>1, <2>3, <2>5, OwnedStill DEF Dispatching
  <2>. QED  BY ZenonT(40), <1>0, <2>2, <2>4, <2>5 DEF NoJobIsStranded
<1>. QED  BY ZenonT(40), <1>1, <1>2, <1>3, <1>4, <1>5 DEF DispatchStep

LEMMA StrandedRequest ==
    ASSUME TypeOK, TasksAreSane, NoJobIsStranded, NEW j \in Job,
           Enqueue(j) \/ Reread(j) \/ Timeout(j) \/ Abandon(j)
    PROVE  NoJobIsStranded'
<1>. USE DEF TaskPc, DispatchPc, faultvars
<1>0. j \in Task
  BY ZenonT(40), TaskKinds
<1>1. CASE Enqueue(j)
  <2>1. OnlyTask(j) /\ job'[j] = j /\ pc'[j] \in {"select", "prefer"}
    BY ZenonT(40), <1>0, <1>1, DispatchLemma DEF Enqueue, Loop
  <2>2. /\ \A i \in Job \ {j} : rows'[i] = rows[i]
        /\ rows'[j].status = "queued"
    BY ZenonT(40), <1>1, RowsAreTyped DEF SetRow, Enqueue
  <2>3. Owned(j)'
    BY ZenonT(40), <1>0, <2>1, <2>2, OwnedByDispatch
  <2>. QED  BY ZenonT(40), <1>0, <1>1, <2>1, <2>2, <2>3, StrandedMove DEF Enqueue
<1>2. CASE Reread(j)
  <2>1. OnlyTask(j)
    BY ZenonT(40), <1>0, <1>2, GotoLemma DEF Reread
  <2>. QED  BY ZenonT(40), <1>0, <1>2, <2>1, StrandedStill DEF Reread
<1>3. CASE Timeout(j)
  <2>1. OnlyTask(j)
    BY ZenonT(40), <1>0, <1>3, GotoLemma DEF Timeout
  <2>. QED  BY ZenonT(40), <1>0, <1>3, <2>1, StrandedStill DEF Timeout
<1>4. CASE Abandon(j)
  BY <1>4, DropIsSeen, Zenon DEF Abandon, NoJobIsStranded
<1>. QED  BY ZenonT(40), <1>1, <1>2, <1>3, <1>4

LEMMA StrandedCancel ==
    ASSUME TypeOK, TasksAreSane, NoJobIsStranded, NEW j \in Job,
           Cancel(j) \/ CancelStep(j) \/ AbandonCancel(j)
    PROVE  NoJobIsStranded'
<1>. USE DEF taskvars, faultvars
<1>1. CASE AbandonCancel(j)
  BY <1>1, DropIsSeen, Zenon DEF AbandonCancel, NoJobIsStranded
<1>2. CASE CancelMark(j)
  <2>1. /\ \A i \in Job \ {j} : rows'[i] = rows[i]
        /\ rows'[j] = rows[j] \/ rows'[j].status = "failed"
    BY <1>2, RowsAreTyped DEF SetRow, CancelMark, TypeOK, Row
  <2>2. \A i \in Job : Owned(i) => Owned(i)'
    BY <1>2, <2>1 DEF CancelMark, Owned, LocalActive, Dispatching
  <2>. QED  BY ZenonT(40), <1>2, <2>2 DEF CancelMark, NoJobIsStranded
<1>3. CASE Cancel(j) \/ CancelSend(j) \/ CancelRemove(j) \/ CancelWake(j)
  <2>1. UNCHANGED <<rows, local, pc, job, restarts, drops>>
    BY ZenonT(40), <1>3 DEF Cancel, CancelSend, CancelRemove, CancelWake
  <2>. QED  BY ZenonT(40), <2>1 DEF NoJobIsStranded, Owned, LocalActive, Dispatching
<1>. QED  BY ZenonT(40), <1>1, <1>2, <1>3 DEF CancelStep

LEMMA StrandedLocal ==
    ASSUME TypeOK, TasksAreSane, LocalIsSane, NoJobIsStranded, NEW j \in Job, LocalStep(j)
    PROVE  NoJobIsStranded'
<1>. USE DEF taskvars, faultvars, LocalGoto
<1>0. rows[j].worker \in Worker \cup {NoWorker} /\ local \in [Job -> LocalPc]
  BY ZenonT(40) DEF TypeOK, Row
<1>1. /\ UNCHANGED <<pc, job, restarts, drops>>
      /\ \A i \in Job \ {j} : local'[i] = local[i]
  BY ZenonT(40), <1>0 DEF LocalStep, LocalStart, LocalRun, LocalValidate, LocalFinish, LocalWake
<1>2. \A i \in Job \ {j} : rows'[i] = rows[i]
  BY ZenonT(40), <1>0, RowsAreTyped DEF SetRow, LocalStep, LocalStart, LocalRun, LocalValidate,
     LocalFinish, LocalWake,
                           Status
<1>3. ASSUME Owned(j)  PROVE Owned(j)'
  <2>1. CASE LocalStart(j)
    <3>1. CASE Matches(j, {"queued"})
      <4>1. rows'[j].status = "running" /\ local'[j] = "running"
        BY <1>0, <2>1, <3>1, RowsAreTyped DEF SetRow, LocalStart
      <4>. QED  BY <4>1 DEF Owned, LocalActive
    <3>2. CASE ~ Matches(j, {"queued"})
      <4>1. rows' = rows /\ rows[j].status # "queued" /\ local[j] = "spawned"
        BY ZenonT(40), <2>1, <3>2 DEF LocalStart, Matches
      <4>. QED  BY <1>3, <4>1 DEF Owned, LocalActive
    <3>. QED  BY ZenonT(40), <3>1, <3>2
  <2>2. CASE LocalRun(j)
    <3>1. /\ rows' = rows /\ local[j] = "running"
          /\ local'[j] \in {"validate", "write_failed"}
      BY ZenonT(40), <1>0, <2>2 DEF LocalRun
    <3>. QED  BY <1>3, <3>1 DEF Owned, LocalActive, LocalIsSane
  <2>3. CASE LocalValidate(j)
    <3>1. /\ rows' = rows /\ local[j] = "validate"
          /\ \/ local'[j] \in {"write_done", "write_failed"}
             \/ rows[j].status # "running"
      BY ZenonT(40), <1>0, <2>3 DEF LocalValidate, Matches, FinishFrom
    <3>. QED  BY <1>3, <3>1 DEF Owned, LocalActive, LocalIsSane
  <2>4. CASE LocalFinish(j)
    <3>1. \/ rows'[j].status \in {"done", "failed"}
          \/ rows'[j] = rows[j] /\ rows[j].status \notin FinishFrom
      BY <1>0, <2>4, RowsAreTyped DEF SetRow, LocalFinish, Matches
    <3>. QED  BY <1>3, <3>1 DEF Owned, FinishFrom
  <2>5. CASE LocalWake(j)
    <3>1. rows' = rows /\ local[j] \in {"wake_done", "wake_failed"}
      BY ZenonT(40), <2>5 DEF LocalWake
    <3>. QED  BY <1>3, <3>1 DEF Owned, LocalIsSane, is_terminal
  <2>. QED  BY ZenonT(40), <2>1, <2>2, <2>3, <2>4, <2>5 DEF LocalStep
<1>4. ASSUME NEW i \in Job \ {j}, Owned(i)  PROVE Owned(i)'
  BY ZenonT(40), <1>1, <1>2, <1>4 DEF Owned, LocalActive, Dispatching
<1>. QED  BY ZenonT(40), <1>1, <1>3, <1>4 DEF NoJobIsStranded

LEMMA StrandedServe ==
    ASSUME TypeOK, TasksAreSane, NoJobIsStranded, NEW s \in Session, ServeStep(s)
    PROVE  NoJobIsStranded'
<1>. USE DEF TaskPc, DispatchPc, CompletedPc, JobPc, faultvars
<1>0. s \in Task
  BY ZenonT(40), TaskKinds
<1>1. ASSUME OnlyTask(s), UNCHANGED <<rows, local, restarts, drops>>, pc[s] \notin DispatchPc
      PROVE  NoJobIsStranded'
  BY ZenonT(40), <1>0, <1>1, StrandedStill
<1>2. CASE \/ ReadParked(s) \/ Validate(s) \/ DropBytes(s) \/ WakeAfterFrame(s)
           \/ Detach(s) \/ ReadUnclaimed(s) \/ NextParked(s)
  <2>1. OnlyTask(s)
    BY ZenonT(40), <1>2, TasksAreTyped DEF OnlyTask, TaskTypeOK, ReadParked, Validate, DropBytes,
       WakeAfterFrame, Detach, ReadUnclaimed, NextParked, Goto, Handle, Keep, BackTo
  <2>2. UNCHANGED <<rows, local, restarts, drops>> /\ pc[s] \notin DispatchPc
    BY <1>2, Zenon DEF ReadParked, Validate, DropBytes, WakeAfterFrame, Detach, ReadUnclaimed,
       NextParked
  <2>. QED  BY ZenonT(40), <1>1, <2>1, <2>2
<1>3. CASE Unpark(s) \/ ApplyClaim(s) \/ ApplyProgress(s) \/ Complete(s)
  <2>1. PICK j \in Job : j = job[s] /\ rows[j].worker \in Worker \cup {NoWorker}
    BY ZenonT(40), <1>0, <1>3 DEF TasksAreSane, TypeOK, Row, Unpark, ApplyClaim, ApplyProgress,
       Complete
  <2>2. UNCHANGED <<local, restarts, drops>> /\ pc[s] \notin DispatchPc
    BY <1>3, ZenonT(40) DEF Unpark, ApplyClaim, ApplyProgress, Complete
  <2>3. OnlyTask(s)
    BY ZenonT(40), <1>3, TasksAreTyped DEF OnlyTask, TaskTypeOK, Unpark, ApplyClaim, ApplyProgress,
       Complete,
       Goto, Keep, BackTo, Dispatch
  <2>4. \A i \in Job \ {j} : rows'[i] = rows[i]
    BY ZenonT(40), <1>3, <2>1, RowsAreTyped DEF SetRow, Unpark, ApplyClaim, ApplyProgress, Complete
  <2>5. ASSUME Owned(j)  PROVE Owned(j)'
    <3>1. CASE rows' = rows
      BY ZenonT(40), <1>0, <2>1, <2>2, <2>3, <2>5, <3>1, OwnedStill DEF Dispatching
    <3>2. CASE Unpark(s) /\ rows' # rows
      <4>1. pc'[s] \in {"select", "prefer"} /\ job'[s] = j
        BY <1>0, <2>1, <3>2, TodoLemma, DispatchLemma, Zenon DEF Unpark, Loop
      <4>2. rows'[j].status = "queued"
        BY <2>1, <3>2, RowsAreTyped DEF SetRow, Unpark
      <4>. QED  BY ZenonT(40), <1>0, <4>1, <4>2, OwnedByDispatch
    <3>3. CASE ApplyClaim(s) /\ rows' # rows
      <4>1. device[s] \in Worker /\ device[s] # NoWorker
        BY <3>3, ConstantsAreSane, Zenon DEF ApplyClaim, TasksAreSane, NoWorker
      <4>2. rows'[j].status = "claimed" /\ rows'[j].worker = device[s]
        BY <2>1, <3>3, RowsAreTyped DEF SetRow, ApplyClaim
      <4>. QED  BY ZenonT(40), <4>1, <4>2, OwnedAfter
    <3>4. CASE ApplyProgress(s) /\ rows' # rows
      <4>1. /\ rows[j].status \in {"claimed", "running"}
            /\ rows'[j].status = "running" /\ rows'[j].worker = rows[j].worker
        BY <2>1, <3>4, RowsAreTyped DEF SetRow, ApplyProgress, Matches
      <4>. QED  BY ZenonT(40), <2>2, <2>5, <4>1, OwnedRunning
    <3>5. CASE Complete(s) /\ rows' # rows
      <4>1. rows'[j].status \in {"done", "failed"}
        BY <2>1, <3>5, RowsAreTyped DEF SetRow, Complete
      <4>. QED  BY ZenonT(40), <4>1, OwnedAfter
    <3>. QED  BY ZenonT(40), <1>3, <3>1, <3>2, <3>3, <3>4, <3>5
  <2>6. ASSUME NEW i \in Job \ {j}, Owned(i)  PROVE Owned(i)'
    BY <1>0, <2>2, <2>3, <2>4, <2>6, OwnedStill, Zenon DEF Dispatching
  <2>. QED  BY ZenonT(40), <2>2, <2>5, <2>6 DEF NoJobIsStranded
<1>4. CASE Release(s)
  <2>1. UNCHANGED <<local, restarts, drops>> /\ pc[s] \notin DispatchPc
    BY <1>4, Zenon DEF Release
  <2>2. OnlyTask(s)
    BY <1>4, TasksAreTyped DEF OnlyTask, TaskTypeOK, Release, Goto, Keep, Dispatch
  <2>3. CASE rows' = rows
    BY ZenonT(40), <1>1, <2>1, <2>2, <2>3
  <2>4. CASE rows' # rows
    <3>1. PICK r \in todo[s] : /\ SetRow(r[1], "queued", NoWorker)
                               /\ Dispatch(s, r[1], NoWorker, todo[s] \ {r}, "release")
      BY ZenonT(40), <1>4, <2>4 DEF Release
    <3>2. PICK j \in Job : j = r[1] /\ todo[s] \ {r} \in SUBSET (Job \X (Worker \cup {NoWorker}))
      BY ZenonT(40), <1>0, TodoLemma
    <3>3. pc'[s] \in {"select", "prefer"} /\ job'[s] = j
      BY ZenonT(40), <1>0, <3>1, <3>2, DispatchLemma DEF Loop
    <3>4. rows'[j].status = "queued" /\ \A i \in Job \ {j} : rows'[i] = rows[i]
      BY <3>1, <3>2, RowsAreTyped DEF SetRow
    <3>5. Owned(j)'
      BY <1>0, <3>3, <3>4, OwnedByDispatch
    <3>. QED  BY ZenonT(40), <1>0, <2>1, <2>2, <3>4, <3>5, StrandedMove
  <2>. QED  BY ZenonT(40), <2>3, <2>4
<1>. QED  BY ZenonT(40), <1>2, <1>3, <1>4 DEF ServeStep

LEMMA StrandedSocket ==
    ASSUME TypeOK, TasksAreSane, NoJobIsStranded,
           \/ \E w \in Worker : Attach(w) \/ Publish(w) \/ \E j \in Job : Authorise(w, j)
           \/ \E s \in Session : EndServe(s) \/ \E kind \in FrameKind, j \in Job : Frame(s, kind, j)
    PROVE  NoJobIsStranded'
<1>. USE DEF TaskPc, DispatchPc, taskvars, faultvars
<1>1. ASSUME NEW w \in Worker, Attach(w)  PROVE NoJobIsStranded'
  <2>1. PICK s \in Session : s = epochs + 1 /\ s \in Task /\ epochs \in Nat /\ OnlyTask(s)
    BY ZenonT(40), <1>1, AttachLemma
  <2>2. pc[s] = "idle"
    BY <2>1 DEF TasksAreSane
  <2>. QED  BY ZenonT(40), <1>1, <2>1, <2>2, StrandedStill DEF Attach
<1>2. ASSUME NEW w \in Worker, Publish(w) \/ \E j \in Job : Authorise(w, j)
      PROVE  NoJobIsStranded'
  <2>1. UNCHANGED <<rows, local, pc, job, restarts, drops>>
    BY Zenon, <1>2 DEF Publish, Authorise
  <2>. QED  BY <2>1, ZenonT(40) DEF NoJobIsStranded, Owned, LocalActive, Dispatching
<1>3. ASSUME NEW s \in Session, EndServe(s)  PROVE NoJobIsStranded'
  <2>1. s \in Task /\ OnlyTask(s)
    BY <1>3, TaskKinds, GotoLemma, ZenonT(40) DEF EndServe
  <2>. QED  BY <1>3, <2>1, StrandedStill, Zenon DEF EndServe
<1>4. ASSUME NEW s \in Session, NEW kind \in FrameKind, NEW j \in Job, Frame(s, kind, j)
      PROVE  NoJobIsStranded'
  <2>1. s \in Task /\ OnlyTask(s)
    BY <1>4, TaskKinds, TasksAreTyped DEF Frame, Handle, OnlyTask, TaskTypeOK
  <2>. QED  BY ZenonT(40), <1>4, <2>1, StrandedStill DEF Frame
<1>. QED  BY ZenonT(40), <1>1, <1>2, <1>3, <1>4

LEMMA StrandedSweep ==
    ASSUME TypeOK, TasksAreSane, NoJobIsStranded, ReadExpired \/ Expire
    PROVE  NoJobIsStranded'
<1>. USE DEF TaskPc, DispatchPc, faultvars
<1>0. Sweeper \in Task
  BY TaskKinds
<1>1. CASE ReadExpired
  <2>1. OnlyTask(Sweeper)
    BY <1>0, <1>1, MovesOnly, Zenon DEF ReadExpired
  <2>. QED  BY Zenon, <1>0, <1>1, <2>1, StrandedStill DEF ReadExpired
<1>2. CASE Expire
  <2>1. UNCHANGED <<local, restarts, drops>> /\ pc[Sweeper] \notin DispatchPc
    BY ZenonT(40), <1>2 DEF Expire
  <2>2. OnlyTask(Sweeper)
    BY <1>0, <1>2, MovesOnly, Zenon DEF Expire
  <2>3. CASE rows' = rows
    BY ZenonT(40), <1>0, <2>1, <2>2, <2>3, StrandedStill
  <2>4. CASE rows' # rows
    <3>1. PICK r \in todo[Sweeper] :
             /\ SetRow(r[1], "queued", NoWorker)
             /\ Dispatch(Sweeper, r[1], r[2], todo[Sweeper] \ {r}, "expired")
      BY <1>2, <2>4, Zenon DEF Expire
    <3>2. PICK j \in Job : /\ j = r[1] /\ r[2] \in Worker \cup {NoWorker}
                           /\ todo[Sweeper] \ {r} \in SUBSET (Job \X (Worker \cup {NoWorker}))
      BY ZenonT(40), <1>0, TodoLemma
    <3>3. pc'[Sweeper] \in {"select", "prefer"} /\ job'[Sweeper] = j
      BY <1>0, <3>1, <3>2, DispatchLemma DEF Loop
    <3>4. rows'[j].status = "queued" /\ \A i \in Job \ {j} : rows'[i] = rows[i]
      BY ZenonT(40), <3>1, <3>2, RowsAreTyped DEF SetRow
    <3>5. Owned(j)'
      BY ZenonT(40), <1>0, <3>3, <3>4, OwnedByDispatch
    <3>. QED  BY ZenonT(40), <1>0, <2>1, <2>2, <3>4, <3>5, StrandedMove
  <2>. QED  BY ZenonT(40), <2>3, <2>4
<1>. QED  BY ZenonT(40), <1>1, <1>2

LEMMA StrandedNext ==
    ASSUME TypeOK, TasksAreSane, LocalIsSane, NoJobIsStranded, [Next]_vars
    PROVE  NoJobIsStranded'
<1>1. CASE UNCHANGED vars
  BY ZenonT(40), <1>1 DEF vars, taskvars, faultvars, NoJobIsStranded, Owned, LocalActive,
     Dispatching
<1>2. CASE Restart
  <2>1. restarts \in 0 .. MaxRestarts
    BY ZenonT(40) DEF TypeOK
  <2>2. restarts' = restarts + 1
    BY ZenonT(40), <1>2 DEF Restart
  <2>3. restarts' # 0
    BY <2>1, <2>2, ConstantsAreSane
  <2>. QED  BY ZenonT(40), <2>3 DEF NoJobIsStranded
<1>3. CASE Next
  BY ZenonT(40), <1>2, <1>3, StrandedDispatch, StrandedRequest, StrandedCancel, StrandedLocal,
     StrandedServe,
     StrandedSocket, StrandedSweep DEF Next
<1>. QED  BY ZenonT(40), <1>1, <1>3

\* Every live row is somebody's responsibility: it is being dispatched, a local run
\* was spawned for it, or a worker holds it.  For any number of jobs, workers and
\* sockets, as long as the process lives and no request is dropped.
THEOREM NothingIsStranded == Spec => []NoJobIsStranded
<1>1. Init => NoJobIsStranded
  <2>1. Init => \A j \in Job : rows[j].status = "absent"
    <3>1. Absent.status = "absent"
      BY ZenonT(40) DEF Absent
    <3>2. Init => rows = [j \in Job |-> Absent]
      BY ZenonT(40) DEF Init
    <3>. QED  BY <3>1, <3>2, Zenon
  <2>2. ASSUME NEW j \in Job, rows[j].status = "absent"  PROVE Owned(j)
    BY <2>2 DEF Owned
  <2>. QED  BY <2>1, <2>2, Zenon DEF NoJobIsStranded
<1>2. TypeOK /\ TasksAreSane /\ LocalIsSane /\ NoJobIsStranded /\ [Next]_vars => NoJobIsStranded'
  BY ZenonT(40), StrandedNext
<1>. QED  BY <1>1, <1>2, TypeCorrect, LocalAlways, PTL DEF Spec

-----------------------------------------------------------------------------
(* No waiter is forgotten. *)

\* A step keeps the promise when it ends no row of a waiting caller and takes back
\* no wake-up that is due.
LEMMA WaiterStill ==
    ASSUME NoWaiterIsForgotten, drops' = drops,
           \A j \in waiters' : /\ j \in waiters
                               /\ is_terminal(rows'[j].status) =>
                                     is_terminal(rows[j].status) \/ Waking(j)'
                               /\ Waking(j) => Waking(j)'
    PROVE  NoWaiterIsForgotten'
BY DEF NoWaiterIsForgotten

\* A wake-up that is due stays due while the serve loop that owes it has it in hand.
LEMMA WakingKept ==
    ASSUME NEW s \in Session, OnlyTask(s), UNCHANGED <<local, cancel>>, NEW i, Waking(i),
           pc[s] \in CompletedPc /\ job[s] = i => pc'[s] \in CompletedPc /\ job'[s] = i
    PROVE  Waking(i)'
<1>1. \A u \in Session \ {s} : pc'[u] = pc[u] /\ job'[u] = job[u]
  BY Zenon, TaskKinds DEF OnlyTask
<1>. QED
  BY Zenon, <1>1 DEF Waking

\* Recording an assignment, or that no worker is there, ends no row.
LEMMA RoutingEndsNoRow ==
    ASSUME TypeOK, NEW j \in Job, NEW st \in {"queued", "needs_worker"}, NEW w,
           SetRow(j, st, w), NEW i \in Job
    PROVE  is_terminal(rows'[i].status) => is_terminal(rows[i].status)
<1>1. CASE i = j
  <2>1. rows'[i] = [status |-> st, worker |-> w]
    BY Zenon, <1>1, RowsAreTyped DEF SetRow
  <2>. QED  BY <2>1 DEF is_terminal
<1>2. CASE i # j
  BY Zenon, <1>2, RowsAreTyped DEF SetRow
<1>. QED  BY ZenonT(40), <1>1, <1>2

LEMMA WaiterNext ==
    ASSUME TypeOK, TasksAreSane, NoWaiterIsForgotten, [Next]_vars
    PROVE  NoWaiterIsForgotten'
<1>. USE DEF DispatchPc, CompletedPc, hubvars, taskvars, cancelvars, callvars, faultvars
\* Steps that end no row and are not part of a wake-up.
<1>1. ASSUME NEW t \in Task, OnlyTask(t), pc[t] \notin CompletedPc,
             waiters' \subseteq waiters, UNCHANGED <<local, cancel, drops>>,
             \A j \in Job : is_terminal(rows'[j].status) => is_terminal(rows[j].status)
      PROVE  NoWaiterIsForgotten'
  <2>1. \A j \in waiters' : Waking(j) => Waking(j)'
    BY ZenonT(40), <1>1, TaskKinds DEF Waking, OnlyTask
  <2>. QED  BY ZenonT(40), <1>1, <2>1, WaiterStill DEF TypeOK
<1>2. ASSUME NEW t \in Task, DispatchStep(t)  PROVE NoWaiterIsForgotten'
  <2>1. PICK j \in Job : j = job[t] /\ rows[j].worker \in Worker \cup {NoWorker}
    BY ZenonT(40), <1>2 DEF TasksAreSane, TypeOK, Row, JobPc, DispatchStep, Prefer, Select, Send,
       Assign, Fallback
  <2>2. OnlyTask(t)
    BY ZenonT(40), <1>2, MovesOnly DEF DispatchStep, Prefer, Select, Send, Assign, Fallback
  <2>3. UNCHANGED <<waiters, cancel, drops>> /\ pc[t] \notin CompletedPc
    BY <1>2, Zenon DEF DispatchStep, Prefer, Select, Send, Assign, Fallback
  <2>4. \A i \in Job : is_terminal(rows'[i].status) => is_terminal(rows[i].status)
    <3>1. rows' = rows \/ \E st \in {"queued", "needs_worker"} : \E w : SetRow(j, st, w)
      BY ZenonT(40), <1>2, <2>1 DEF DispatchStep, Prefer, Select, Send, Assign, Fallback
    <3>. QED  BY ZenonT(40), <3>1, RoutingEndsNoRow
  <2>5. \A i \in Job : local[i] \in {"wake_done", "wake_failed"} => local'[i] = local[i]
    BY ZenonT(40), <1>2 DEF TypeOK, DispatchStep, Prefer, Select, Send, Assign, Fallback
  <2>6. \A i \in waiters' : Waking(i) => Waking(i)'
    BY <2>2, <2>3, <2>5, TaskKinds, Zenon DEF Waking, OnlyTask, TypeOK
  <2>. QED  BY ZenonT(40), <2>3, <2>4, <2>6, WaiterStill DEF TypeOK
<1>3. ASSUME NEW j \in Job, Enqueue(j)  PROVE NoWaiterIsForgotten'
  <2>1. rows'[j].status = "queued" /\ \A i \in Job \ {j} : rows'[i] = rows[i]
    BY ZenonT(40), <1>3, RowsAreTyped DEF SetRow, Enqueue
  <2>2. j \in Task /\ OnlyTask(j) /\ pc[j] \notin CompletedPc
    BY ZenonT(40), <1>3, TaskKinds, MovesOnly DEF Enqueue
  <2>3. \A i \in Job \ {j} : Waking(i) => Waking(i)'
    BY <1>3, <2>2, TaskKinds, ZenonT(40) DEF Enqueue, Waking, OnlyTask
  <2>. QED  BY <1>3, <2>1, <2>3, ZenonT(40) DEF Enqueue, NoWaiterIsForgotten, is_terminal, TypeOK
<1>4. ASSUME NEW j \in Job, Reread(j) \/ Timeout(j)  PROVE NoWaiterIsForgotten'
  <2>1. j \in Task /\ OnlyTask(j) /\ pc[j] \notin CompletedPc
    BY ZenonT(40), <1>4, TaskKinds, MovesOnly DEF Reread, Timeout
  <2>. QED  BY ZenonT(40), <1>1, <1>4, <2>1 DEF Reread, Timeout
<1>5. ASSUME NEW j \in Job, Abandon(j) \/ AbandonCancel(j)  PROVE NoWaiterIsForgotten'
  BY <1>5, DropIsSeen, Zenon DEF Abandon, AbandonCancel, NoWaiterIsForgotten
<1>6. ASSUME NEW j \in Job, Cancel(j) \/ CancelStep(j)  PROVE NoWaiterIsForgotten'
  <2>1. \A i \in Job \ {j} : cancel'[i] = cancel[i]
    BY ZenonT(40), <1>6 DEF TypeOK, Cancel, CancelStep, CancelSend, CancelMark, CancelRemove,
       CancelWake
  <2>2. UNCHANGED <<pc, job, local, drops>>
    BY <1>6, Zenon DEF Cancel, CancelStep, CancelSend, CancelMark, CancelRemove, CancelWake
  <2>3. CASE Cancel(j) \/ CancelSend(j)
    <3>1. UNCHANGED <<rows, waiters>> /\ cancel[j] \notin {"remove", "wake"}
      BY ZenonT(40), <2>3 DEF Cancel, CancelSend
    <3>2. \A i \in waiters' : Waking(i) => Waking(i)'
      BY ZenonT(40), <2>1, <2>2, <3>1 DEF Waking, TypeOK
    <3>. QED  BY ZenonT(40), <2>2, <3>1, <3>2, WaiterStill
  <2>4. CASE CancelMark(j) \/ CancelRemove(j)
    <3>1. /\ waiters' = waiters /\ cancel'[j] \in {"remove", "wake"}
          /\ \A i \in Job \ {j} : rows'[i] = rows[i]
      BY ZenonT(40), <2>4, RowsAreTyped DEF SetRow, CancelMark, CancelRemove, TypeOK, Row
    <3>2. \A i \in waiters' : Waking(i) => Waking(i)'
      BY ZenonT(40), <2>1, <2>2, <3>1 DEF Waking, TypeOK
    <3>3. Waking(j)'
      BY ZenonT(40), <3>1 DEF Waking
    <3>. QED  BY ZenonT(40), <2>2, <3>1, <3>2, <3>3, WaiterStill DEF TypeOK
  <2>5. CASE CancelWake(j)
    <3>1. waiters' = waiters \ {j} /\ rows' = rows
      BY ZenonT(40), <2>5 DEF CancelWake, wake_waiters
    <3>2. \A i \in waiters' : Waking(i) => Waking(i)'
      BY ZenonT(40), <2>1, <2>2, <3>1 DEF Waking, TypeOK
    <3>. QED  BY ZenonT(40), <2>2, <3>1, <3>2, WaiterStill
  <2>. QED  BY ZenonT(40), <1>6, <2>3, <2>4, <2>5 DEF CancelStep
<1>7. ASSUME NEW j \in Job, LocalStep(j)  PROVE NoWaiterIsForgotten'
  <2>1. \A i \in Job \ {j} : local'[i] = local[i]
    BY ZenonT(40), <1>7 DEF TypeOK, LocalStep, LocalStart, LocalRun, LocalValidate, LocalFinish,
       LocalWake, LocalGoto
  <2>2. /\ UNCHANGED <<pc, job, cancel, drops>>
        /\ rows[j].worker \in Worker \cup {NoWorker} /\ local \in [Job -> LocalPc]
    BY ZenonT(40), <1>7 DEF LocalStep, LocalStart, LocalRun, LocalValidate, LocalFinish, LocalWake,
       TypeOK, Row
  <2>3. \A i \in Job \ {j} : (Waking(i) => Waking(i)')
    BY ZenonT(40), <2>1, <2>2 DEF Waking
  <2>4. CASE LocalStart(j) \/ LocalRun(j) \/ LocalValidate(j)
    <3>1. /\ waiters' = waiters /\ local[j] \notin {"wake_done", "wake_failed"}
          /\ \A i \in Job : is_terminal(rows'[i].status) => is_terminal(rows[i].status)
      BY <2>2, <2>4, RowsAreTyped DEF SetRow, LocalStart, LocalRun, LocalValidate, is_terminal
    <3>2. Waking(j) => Waking(j)'
      BY ZenonT(40), <2>2, <3>1 DEF Waking
    <3>. QED  BY ZenonT(40), <2>2, <2>3, <3>1, <3>2, WaiterStill DEF TypeOK
  <2>5. CASE LocalFinish(j)
    <3>1. /\ waiters' = waiters /\ local[j] \notin {"wake_done", "wake_failed"}
          /\ \A i \in Job \ {j} : rows'[i] = rows[i]
          /\ \/ local'[j] \in {"wake_done", "wake_failed"}
             \/ rows' = rows
      BY ZenonT(40), <2>2, <2>5, RowsAreTyped DEF SetRow, LocalFinish, LocalGoto
    <3>2. Waking(j) => Waking(j)'
      BY ZenonT(40), <2>2, <3>1 DEF Waking
    <3>3. rows' = rows \/ Waking(j)'
      BY ZenonT(40), <3>1 DEF Waking
    <3>. QED  BY <2>2, <2>3, <3>1, <3>2, <3>3, WaiterStill, ZenonT(40) DEF TypeOK
  <2>6. CASE LocalWake(j)
    <3>1. waiters' = waiters \ {j} /\ rows' = rows
      BY ZenonT(40), <2>6 DEF LocalWake, wake_waiters
    <3>. QED  BY ZenonT(40), <2>2, <2>3, <3>1, WaiterStill DEF TypeOK
  <2>. QED  BY ZenonT(40), <1>7, <2>4, <2>5, <2>6 DEF LocalStep
<1>8. ASSUME NEW s \in Session, ServeStep(s) \/ EndServe(s)  PROVE NoWaiterIsForgotten'
  <2>1. /\ s \in Task /\ UNCHANGED <<local, cancel, drops>>
        /\ pc[s] \in JobPc => job[s] \in Job /\ rows[job[s]].worker \in Worker \cup {NoWorker}
    BY <1>8, TaskKinds, ZenonT(40) DEF TasksAreSane, TypeOK, Row, ServeStep, EndServe, ReadParked,
       NextParked,
       Unpark, ApplyClaim, ApplyProgress, Validate, Complete, DropBytes, WakeAfterFrame, Detach,
       ReadUnclaimed, Release
  <2>2. OnlyTask(s)
    BY <1>8, <2>1, MovesOnly, ZenonT(40) DEF ServeStep, EndServe, ReadParked, NextParked, Unpark,
       ApplyClaim,
       ApplyProgress, Validate, Complete, DropBytes, WakeAfterFrame, Detach, ReadUnclaimed, Release
  <2>3. CASE Unpark(s) \/ ApplyClaim(s) \/ ApplyProgress(s)
    <3>1. /\ waiters' = waiters /\ pc[s] \notin CompletedPc
          /\ \A i \in Job : is_terminal(rows'[i].status) => is_terminal(rows[i].status)
      BY <2>1, <2>3, RowsAreTyped
         DEF SetRow, is_terminal, Unpark, ApplyClaim, ApplyProgress, JobPc
    <3>. QED  BY ZenonT(40), <1>1, <2>1, <2>2, <3>1
  <2>4. CASE Release(s)
    <3>1. waiters' = waiters /\ pc[s] \notin CompletedPc
      BY Zenon, <2>4 DEF Release
    <3>2. \A i \in Job : is_terminal(rows'[i].status) => is_terminal(rows[i].status)
      BY ZenonT(40), <2>4, WithdrawLemma
    <3>. QED  BY <1>1, <2>1, <2>2, <3>1, <3>2, ZenonT(40)
  <2>5. CASE \/ ReadParked(s) \/ NextParked(s) \/ Validate(s) \/ Detach(s)
             \/ ReadUnclaimed(s) \/ EndServe(s)
    <3>1. UNCHANGED <<rows, waiters>> /\ pc[s] \notin CompletedPc
      BY Zenon, <2>5 DEF ReadParked, NextParked, Validate, Detach, ReadUnclaimed, EndServe
    <3>. QED  BY ZenonT(40), <1>1, <2>1, <2>2, <3>1
  <2>6. CASE Complete(s)
    <3>1. PICK j \in Job : j = job[s] /\ rows[j].worker \in Worker \cup {NoWorker}
      BY <2>1, <2>6, ZenonT(40) DEF Complete, JobPc
    <3>2. \/ /\ pc'[s] \in CompletedPc /\ job'[s] = j
             /\ \A i \in Job \ {j} : rows'[i] = rows[i]
          \/ rows' = rows
      <4>1. CASE Matches(j, FinishFrom)
        <5>1. pc'[s] \in CompletedPc /\ job'[s] = j
          BY <2>1, <2>6, <3>1, <4>1, GotoLemma, Zenon DEF Complete, TaskPc
        <5>2. \A i \in Job \ {j} : rows'[i] = rows[i]
          BY ZenonT(40), <2>6, <3>1, <4>1, RowsAreTyped DEF SetRow, Complete
        <5>. QED  BY ZenonT(40), <5>1, <5>2
      <4>2. CASE ~ Matches(j, FinishFrom)
        BY ZenonT(40), <2>6, <3>1, <4>2 DEF Complete
      <4>. QED  BY ZenonT(40), <4>1, <4>2
    <3>3. waiters' = waiters /\ pc[s] \notin CompletedPc
      BY Zenon, <2>6 DEF Complete
    <3>4. rows' = rows \/ Waking(j)'
      BY ZenonT(40), <3>2 DEF Waking
    <3>5. \A i \in waiters' : Waking(i) => Waking(i)'
      BY Zenon, <2>1, <2>2, <3>3, WakingKept
    <3>. QED  BY <2>1, <3>2, <3>3, <3>4, <3>5, WaiterStill, ZenonT(40) DEF TypeOK
  <2>7. CASE DropBytes(s)
    <3>1. /\ UNCHANGED <<rows, waiters>> /\ pc[s] \in CompletedPc
          /\ pc'[s] \in CompletedPc /\ job'[s] = job[s]
      BY ZenonT(40), <2>1, <2>7, GotoLemma DEF DropBytes, TaskPc
    <3>2. \A i \in waiters' : Waking(i) => Waking(i)'
      BY Zenon, <2>1, <2>2, <3>1, WakingKept
    <3>. QED  BY ZenonT(40), <2>1, <3>1, <3>2, WaiterStill
  <2>8. CASE WakeAfterFrame(s)
    <3>1. rows' = rows /\ waiters' = waiters \ {job[s]}
      BY ZenonT(40), <2>8 DEF WakeAfterFrame, wake_waiters
    <3>2. \A i \in waiters' : Waking(i) => Waking(i)'
      BY Zenon, <2>1, <2>2, <3>1, WakingKept
    <3>. QED  BY ZenonT(40), <2>1, <3>1, <3>2, WaiterStill
  <2>. QED  BY ZenonT(40), <1>8, <2>3, <2>4, <2>5, <2>6, <2>7, <2>8 DEF ServeStep
<1>9. ASSUME NEW s \in Session, NEW kind \in FrameKind, NEW j \in Job, Frame(s, kind, j)
      PROVE  NoWaiterIsForgotten'
  <2>1. s \in Task /\ OnlyTask(s) /\ pc[s] \notin CompletedPc
    BY ZenonT(40), <1>9, TaskKinds, MovesOnly DEF Frame
  <2>. QED  BY ZenonT(40), <1>1, <1>9, <2>1 DEF Frame
<1>10. ASSUME NEW w \in Worker, Attach(w)  PROVE NoWaiterIsForgotten'
  <2>1. PICK s \in Session : s = epochs + 1 /\ s \in Task /\ epochs \in Nat /\ OnlyTask(s)
    BY ZenonT(40), <1>10, AttachLemma
  <2>2. pc[s] = "idle"
    BY <2>1 DEF TasksAreSane
  <2>. QED  BY ZenonT(40), <1>1, <1>10, <2>1, <2>2 DEF Attach
<1>11. ASSUME NEW w \in Worker, Publish(w) \/ \E j \in Job : Authorise(w, j)
       PROVE  NoWaiterIsForgotten'
  BY ZenonT(40), <1>11 DEF Publish, Authorise, NoWaiterIsForgotten, Waking
<1>12. CASE ReadExpired \/ Expire
  <2>1. /\ Sweeper \in Task /\ OnlyTask(Sweeper) /\ pc[Sweeper] \notin CompletedPc
        /\ UNCHANGED <<waiters, local, cancel, drops>>
    BY <1>12, TaskKinds, MovesOnly, Zenon DEF ReadExpired, Expire
  <2>2. \A i \in Job : is_terminal(rows'[i].status) => is_terminal(rows[i].status)
    BY ZenonT(40), <1>12, WithdrawLemma
  <2>. QED  BY ZenonT(40), <1>1, <2>1, <2>2
<1>13. CASE Restart
  BY ZenonT(40), <1>13 DEF Restart, NoWaiterIsForgotten
<1>14. CASE UNCHANGED vars
  BY <1>14, ZenonT(40) DEF vars, NoWaiterIsForgotten, Waking
<1>15. CASE Next
  BY ZenonT(40), <1>2, <1>3, <1>4, <1>5, <1>6, <1>7, <1>8, <1>9, <1>10, <1>11, <1>12, <1>13, <1>15
     DEF Next
<1>. QED  BY ZenonT(40), <1>14, <1>15

\* No caller of enqueue_and_wait is left to its timeout by a job that has ended:
\* whichever task wrote the terminal status still has its wake_waiters to call,
\* whatever the others did to the row in between, also across restarts.
THEOREM NobodyIsForgotten == Spec => []NoWaiterIsForgotten
<1>1. Init => NoWaiterIsForgotten
  BY DEF Init, NoWaiterIsForgotten
<1>2. TypeOK /\ TasksAreSane /\ NoWaiterIsForgotten /\ [Next]_vars => NoWaiterIsForgotten'
  BY ZenonT(40), WaiterNext
<1>. QED  BY <1>1, <1>2, TypeCorrect, PTL DEF Spec

-----------------------------------------------------------------------------
(* One device, one connection. *)

\* Sessions that were replaced or have left are not registered by accident, and
\* only the detach of session s makes s leave.
LEMMA SocketStill ==
    ASSUME TypeOK, NewestSocketIsRegistered, UNCHANGED hubvars, NEW t \in Task, OnlyTask(t),
           t \in Session => (Attached(t)' => Attached(t))
    PROVE  NewestSocketIsRegistered'
<1>1. \A s \in Session : Attached(s)' => Attached(s)
  <2>. SUFFICES ASSUME NEW s \in Session, Attached(s)'  PROVE Attached(s)
    OBVIOUS
  <2>1. CASE s = t
    BY ZenonT(40), <2>1
  <2>2. CASE s # t
    BY ZenonT(40), <2>2, TaskKinds DEF Attached, Dispatching, OnlyTask
  <2>. QED  BY ZenonT(40), <2>1, <2>2
<1>. QED  BY ZenonT(40), <1>1 DEF NewestSocketIsRegistered, hubvars

LEMMA SocketNext ==
    ASSUME TypeOK, TasksAreSane, HubIsSane, NewestSocketIsRegistered, [Next]_vars
    PROVE  HubIsSane' /\ NewestSocketIsRegistered'
<1>. USE DEF DispatchPc, CompletedPc, hubvars, taskvars, Session
<1>1. ASSUME NEW w \in Worker, Attach(w)  PROVE HubIsSane' /\ NewestSocketIsRegistered'
  <2>1. PICK s \in Session : /\ s = epochs + 1 /\ s \in Task /\ epochs \in Nat
                             /\ epochs' = s /\ w # NoWorker
    <3>1. w # NoWorker
      BY ZenonT(40), ConstantsAreSane DEF NoWorker
    <3>. QED  BY ZenonT(40), <1>1, <3>1, AttachLemma
  <2>2. OnlyTask(s) /\ pc'[s] = "hello"
    BY ZenonT(40), <1>1, <2>1, AttachLemma
  <2>3. /\ hub'[w] = s /\ \A v \in Worker \ {w} : hub'[v] = hub[v]
        /\ device'[s] = w /\ \A r \in Session \ {s} : device'[r] = device[r]
    BY ZenonT(40), <1>1, <2>1 DEF Attach, TypeOK
  <2>4. \A r \in Session : device[r] # NoWorker => r < s
    BY <2>1, ConstantsAreSane DEF HubIsSane
  <2>5. \A v \in Worker : hub[v] # 0 => hub[v] \in Session /\ hub[v] < s
    <3>1. hub \in [Worker -> Session \cup {0}]
      BY ZenonT(40) DEF TypeOK
    <3>. QED  BY <2>1, <3>1, ConstantsAreSane DEF HubIsSane
  <2>6. HubIsSane'
    <3>1. \A v \in Worker : hub'[v] # 0 => hub'[v] <= epochs' /\ device'[hub'[v]] = v
      BY <2>1, <2>3, <2>5, ConstantsAreSane DEF HubIsSane
    <3>2. \A r \in Session : device'[r] # NoWorker => r <= epochs'
      BY <2>1, <2>3, <2>4, ConstantsAreSane
    <3>. QED  BY ZenonT(40), <3>1, <3>2 DEF HubIsSane
  <2>7. ASSUME NEW r \in Session, Attached(r)',
               \A q \in Session : q > r => device'[q] # device'[r]
        PROVE  hub'[device'[r]] = r
    <3>1. CASE r = s
      BY ZenonT(40), <2>3, <3>1
    <3>2. CASE r # s
      <4>1. Attached(r) /\ device'[r] = device[r]
        BY ZenonT(40), <2>2, <2>3, <2>7, <3>2, TaskKinds DEF Attached, Dispatching, OnlyTask
      <4>2. pc[r] # "idle" /\ device[r] \in Worker /\ device[r] # NoWorker
        BY ZenonT(40), <4>1, ConstantsAreSane DEF Attached, TasksAreSane, NoWorker
      <4>3. s > r /\ device[r] # w
        BY ZenonT(40), <2>1, <2>3, <2>4, <2>7, <3>2, <4>1, <4>2, ConstantsAreSane
      <4>4. \A q \in Session : q > r => device[q] # device[r]
        <5>1. ASSUME NEW q \in Session, q > r, device[q] = device[r]  PROVE FALSE
          <6>1. q # s
            BY <2>1, <2>4, <4>2, <5>1, ConstantsAreSane
          <6>. QED  BY ZenonT(40), <2>3, <2>7, <4>1, <5>1, <6>1
        <5>. QED  BY ZenonT(40), <5>1
      <4>5. hub[device[r]] = r
        BY ZenonT(40), <4>1, <4>4 DEF NewestSocketIsRegistered
      <4>. QED  BY ZenonT(40), <2>3, <4>1, <4>2, <4>3, <4>5
    <3>. QED  BY ZenonT(40), <3>1, <3>2
  <2>. QED  BY ZenonT(40), <2>6, <2>7 DEF NewestSocketIsRegistered
<1>2. ASSUME NEW s \in Session, Detach(s)  PROVE HubIsSane' /\ NewestSocketIsRegistered'
  <2>1. /\ s \in Task /\ OnlyTask(s) /\ pc'[s] \in {"detached", "closed"}
        /\ device' = device /\ epochs' = epochs /\ device[s] \in Worker
    BY <1>2, TaskKinds, GotoLemma DEF Detach, TasksAreSane, TaskPc
  <2>2. /\ \A w \in Worker : hub'[w] = hub[w] \/ hub'[w] = 0
        /\ \A w \in Worker, r \in Session \ {s} : hub[w] = r => hub'[w] = r
    BY ZenonT(40), <1>2, <2>1 DEF Detach, TypeOK
  <2>3. HubIsSane'
    BY ZenonT(40), <2>1, <2>2 DEF HubIsSane
  <2>4. \A r \in Session : Attached(r)' => Attached(r) /\ r # s /\ device[r] \in Worker
    BY ZenonT(40), <2>1, TaskKinds DEF Attached, Dispatching, OnlyTask, TasksAreSane
  <2>. QED  BY ZenonT(40), <2>1, <2>2, <2>3, <2>4 DEF NewestSocketIsRegistered
<1>3. ASSUME NEW t \in Task, OnlyTask(t), UNCHANGED hubvars,
             t \in Session => (Attached(t)' => Attached(t))
      PROVE  HubIsSane' /\ NewestSocketIsRegistered'
  BY ZenonT(40), <1>3, SocketStill DEF HubIsSane
<1>4. ASSUME NEW t \in Task, DispatchStep(t)  PROVE HubIsSane' /\ NewestSocketIsRegistered'
  <2>1. OnlyTask(t) /\ UNCHANGED hubvars
    BY <1>4, MovesOnly, ZenonT(40) DEF DispatchStep, Prefer, Select, Send, Assign, Fallback
  <2>2. ASSUME t \in Session, Attached(t)'  PROVE Attached(t)
    <3>1. /\ pc[t] \in DispatchPc /\ ret[t] \in {"parked", "release"} /\ ret[t] \in Loop
          /\ job[t] \in Job
      BY <1>4, <2>2, ZenonT(40) DEF DispatchStep, Prefer, Select, Send, Assign, Fallback,
         TasksAreSane, JobPc,
                        TypeOK
    <3>2. CASE ret[t] = "parked"
      BY ZenonT(40), <3>1, <3>2 DEF Attached, Dispatching
    <3>3. CASE ret[t] = "release"
      <4>1. CASE Prefer(t) \/ Select(t) \/ Send(t)
        <5>1. pc'[t] \in DispatchPc /\ ret'[t] = ret[t]
          BY ZenonT(40), <1>4, <4>1, TasksAreTyped DEF TaskTypeOK, Prefer, Select, Send, Choose,
             Goto
        <5>. QED  BY ZenonT(40), <2>2, <3>3, <5>1 DEF Attached, Dispatching
      <4>2. CASE Assign(t)
        <5>1. pc'[t] = "release" \/ (pc'[t] = "fallback" /\ ret'[t] = ret[t])
          BY <3>1, <3>3, <4>2, BackToLemma, GotoLemma, Zenon DEF Assign, TaskPc
        <5>. QED  BY ZenonT(40), <2>2, <3>3, <5>1 DEF Attached, Dispatching
      <4>3. CASE Fallback(t)
        <5>1. pc'[t] \in {"release", "closed"}
          BY <3>1, <3>3, <4>3, BackToLemma, KeepLemma, Zenon DEF Fallback, AbortTo, TaskPc
        <5>. QED  BY ZenonT(40), <2>2, <5>1 DEF Attached, Dispatching
      <4>. QED  BY ZenonT(40), <1>4, <4>1, <4>2, <4>3 DEF DispatchStep
    <3>. QED  BY ZenonT(40), <3>1, <3>2, <3>3
  <2>. QED  BY ZenonT(40), <1>3, <2>1, <2>2
<1>5. ASSUME NEW j \in Job, Enqueue(j) \/ Reread(j) \/ Timeout(j) \/ Abandon(j)
      PROVE  HubIsSane' /\ NewestSocketIsRegistered'
  <2>1. j \in Task /\ j \notin Session
    BY ZenonT(40), TaskKinds, ConstantsAreSane
  <2>2. OnlyTask(j) /\ UNCHANGED hubvars
    BY <1>5, <2>1, MovesOnly, Zenon DEF Enqueue, Reread, Timeout, Abandon
  <2>. QED  BY ZenonT(40), <1>3, <2>1, <2>2
<1>6. ASSUME NEW s \in Session, ServeStep(s) \/ EndServe(s), ~ Detach(s)
      PROVE  HubIsSane' /\ NewestSocketIsRegistered'
  <2>1. s \in Task
    BY ZenonT(40), TaskKinds
  <2>2. OnlyTask(s) /\ UNCHANGED hubvars
    BY <1>6, <2>1, MovesOnly, Zenon DEF ServeStep, EndServe, ReadParked, NextParked, Unpark,
       ApplyClaim,
       ApplyProgress, Validate, Complete, DropBytes, WakeAfterFrame, ReadUnclaimed, Release
  <2>3. ASSUME Attached(s)'  PROVE Attached(s)
    <3>1. CASE ReadUnclaimed(s)
      <4>1. pc'[s] = "release"
        BY <2>1, <3>1, TasksAreTyped, Zenon DEF ReadUnclaimed, Keep, TaskTypeOK
      <4>. QED  BY ZenonT(40), <2>3, <4>1 DEF Attached
    <3>2. CASE Release(s)
      <4>1. pc'[s] \in {"release", "closed"} \/ (pc'[s] \in DispatchPc /\ ret'[s] = "release")
        BY <2>1, <3>2, TasksAreTyped DEF Release, Keep, Goto, Dispatch, TaskTypeOK
      <4>. QED  BY ZenonT(40), <2>3, <4>1 DEF Attached, Dispatching
    <3>3. CASE ~ ReadUnclaimed(s) /\ ~ Release(s)
      BY <1>6, <3>3, Zenon DEF Attached, Dispatching, ServeStep, EndServe, ReadParked, NextParked,
         Unpark,
         ApplyClaim, ApplyProgress, Validate, Complete, DropBytes, WakeAfterFrame
    <3>. QED  BY ZenonT(40), <3>1, <3>2, <3>3
  <2>. QED  BY ZenonT(40), <1>3, <2>1, <2>2, <2>3
<1>7. ASSUME NEW s \in Session, NEW kind \in FrameKind, NEW j \in Job, Frame(s, kind, j)
      PROVE  HubIsSane' /\ NewestSocketIsRegistered'
  <2>1. s \in Task /\ OnlyTask(s) /\ UNCHANGED hubvars /\ Attached(s)
    BY <1>7, TaskKinds, MovesOnly, Zenon DEF Frame, Attached, Dispatching
  <2>. QED  BY ZenonT(40), <1>3, <2>1
<1>8. CASE ReadExpired \/ Expire
  <2>1. /\ Sweeper \in Task /\ Sweeper \notin Session
    BY ZenonT(40), TaskKinds, ConstantsAreSane
  <2>2. OnlyTask(Sweeper) /\ UNCHANGED hubvars
    BY <1>8, <2>1, MovesOnly, ZenonT(40) DEF ReadExpired, Expire
  <2>. QED  BY ZenonT(40), <1>3, <2>1, <2>2
<1>9. ASSUME UNCHANGED <<hubvars, pc, job, ret>>  PROVE HubIsSane' /\ NewestSocketIsRegistered'
  BY ZenonT(40), <1>9 DEF HubIsSane, NewestSocketIsRegistered, Attached, Dispatching
<1>10. CASE Restart
  BY Zenon, <1>10, TaskKinds DEF Restart, HubIsSane, NewestSocketIsRegistered, Attached
<1>11. CASE UNCHANGED vars
  BY ZenonT(40), <1>9, <1>11 DEF vars
<1>12. CASE Next
  <2>1. ASSUME NEW j \in Job, Cancel(j) \/ CancelStep(j) \/ AbandonCancel(j) \/ LocalStep(j)
        PROVE  HubIsSane' /\ NewestSocketIsRegistered'
    BY <1>9, <2>1, Zenon DEF Cancel, CancelStep, CancelSend, CancelMark, CancelRemove, CancelWake,
       AbandonCancel, LocalStep, LocalStart, LocalRun, LocalValidate, LocalFinish, LocalWake
  <2>2. ASSUME NEW w \in Worker, Publish(w) \/ \E j \in Job : Authorise(w, j)
        PROVE  HubIsSane' /\ NewestSocketIsRegistered'
    BY <1>9, <2>2, Zenon DEF Publish, Authorise
  <2>. QED  BY ZenonT(40), <1>1, <1>2, <1>4, <1>5, <1>6, <1>7, <1>8, <1>10, <1>12, <2>1, <2>2
               DEF Next
<1>. QED  BY ZenonT(40), <1>11, <1>12

\* The newest socket of a device stays the one frames are sent to until it detaches
\* itself, however the serve loops of older sockets of that device end.
THEOREM NewestSocketWins == Spec => []NewestSocketIsRegistered
<1>1. Init => HubIsSane /\ NewestSocketIsRegistered
  BY TaskKinds DEF Init, HubIsSane, NewestSocketIsRegistered, Attached
<1>2. TypeOK /\ TasksAreSane /\ HubIsSane /\ NewestSocketIsRegistered /\ [Next]_vars
         => HubIsSane' /\ NewestSocketIsRegistered'
  BY SocketNext
<1>. QED  BY <1>1, <1>2, TypeCorrect, PTL DEF Spec
=============================================================================
