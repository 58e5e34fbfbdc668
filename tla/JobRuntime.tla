----------------------------- MODULE JobRuntime -----------------------------
(* The queue of background jobs, the one executor that drains it and the    *)
(* life of a job: crates/jobs/src/{runtime,worker,queue,inline_executor,    *)
(* apalis_executor,lifecycle}.rs with the job table of                      *)
(* core/src/job/services.rs.                                                *)
(*                                                                          *)
(* A job is one of two sorts.  Most kinds are run by run_job (init, tasks,  *)
(* finalize, then a final row); the kinds in Direct are run by a function   *)
(* of the host that knows nothing of the job table.  What a job's own code  *)
(* does is not modelled here, only when it returns and with what.           *)
EXTENDS Naturals, Sequences, FiniteSets

CONSTANTS
  Jobs,         \* job ids; an id is used again once its job is over
  MaxTasks,     \* tasks init may return, and subtasks a job may add
  MaxFaults     \* errors of the environment, panics and restarts

ASSUME RuntimeAssumption == MaxTasks \in Nat

VARIABLES
  backend,      \* which executor the build has: "inline" or "apalis"
  job,          \* job[j]: the job of id j
  queue,        \* the payloads not yet dequeued
  queued,       \* JobQueueCounts.queued, by kind
  running,      \* JobQueueCounts.running, by kind
  tokens,       \* ids with a cancellation token in the registry
  cancelled,    \* ids whose token has been cancelled
  rows,         \* ids whose row in the job table says Running
  executor,     \* the executor task: "idle", "busy" or "gone"
  shutdown,     \* it has been signalled to stop
  stop,         \* progress of the server's shutdown
  faults

runtimeVars == <<backend, job, queue, queued, running, tokens, cancelled,
                 rows, executor, shutdown, stop, faults>>

Kinds == {"scan", "refresh"}

(* The kinds JobServices::run does not hand to run_job. *)
Direct == {"refresh"}

JobPcs == {"none", "counted", "queued", "opening", "starting", "init", "task",
           "finalize", "body", "ending", "closing", "lost"}

(* Where a job is submitted and has not begun; where its own code runs;     *)
(* where it has a JobContext; where it has been dequeued and is not over.   *)
Waiting == {"counted", "queued", "opening", "starting"}
UserCode == {"init", "task", "finalize", "body"}
Open == UserCode \union {"ending", "closing"}
InFlight == Open \union {"opening", "starting"}

NoJob == [pc |-> "none", kind |-> "scan", arg |-> {}, left |-> 0]

RuntimeInit ==
  /\ backend \in {"inline", "apalis"}
  /\ job = [j \in Jobs |-> NoJob]
  /\ queue = <<>>
  /\ queued = [k \in Kinds |-> 0] /\ running = [k \in Kinds |-> 0]
  /\ tokens = {} /\ cancelled = {}
  /\ rows = {}
  /\ executor = "idle" /\ shutdown = FALSE /\ stop = "none"
  /\ faults = 0

(* The process that has stopped its runtime is about to end. *)
Alive == stop # "done"

Fault == faults < MaxFaults /\ faults' = faults + 1

FaultOnly ==
  /\ Fault
  /\ UNCHANGED <<backend, job, queue, queued, running, tokens, cancelled, rows,
                 executor, shutdown, stop>>

---------------------------------------------------------------------------
(* The counters of queue.rs. *)

Increment(count, k) == [count EXCEPT ![k] = @ + 1]

Decrement(count, k) == [count EXCEPT ![k] = IF @ = 0 THEN 0 ELSE @ - 1]

Goto(j, pc) == job' = [job EXCEPT ![j].pc = pc]

(* A job that is over leaves nothing behind, unless its row still says      *)
(* Running: then its kind is kept, for the properties to tell.              *)
Over(j) == IF j \in rows THEN [NoJob EXCEPT !.kind = job[j].kind] ELSE NoJob

IsOver(j) == job' = [job EXCEPT ![j] = Over(j)]

---------------------------------------------------------------------------
(* WorkerState::enqueue, run by whoever submits the job: the job is counted *)
(* and then sent.  Apalis' storage takes it whatever has become of the      *)
(* executor; the inline channel is closed once its receiver is gone.        *)

Free == {j \in Jobs : job[j].pc = "none"}

Count(j, k, a) ==
  /\ Free # {} /\ j = CHOOSE i \in Free : TRUE
  /\ job' = [job EXCEPT ![j] = [NoJob EXCEPT !.pc = "counted", !.kind = k,
                                             !.arg = a]]
  /\ rows' = rows \ {j}
  /\ queued' = Increment(queued, k)
  /\ UNCHANGED <<backend, queue, running, tokens, cancelled, executor, shutdown,
                 stop, faults>>

Send(j) ==
  /\ job[j].pc = "counted"
  /\ backend = "apalis" \/ executor # "gone"
  /\ queue' = Append(queue, j)
  /\ Goto(j, "queued")
  /\ UNCHANGED <<backend, queued, running, tokens, cancelled, rows, executor,
                 shutdown, stop, faults>>

SendRefused_StaysCounted(j) ==
  /\ job[j].pc = "counted"
  /\ backend = "inline" /\ executor = "gone"
  /\ IsOver(j)
  /\ UNCHANGED <<backend, queue, queued, running, tokens, cancelled, rows,
                 executor, shutdown, stop, faults>>

SendRefused(j) ==
  /\ job[j].pc = "counted"
  /\ backend = "inline" /\ executor = "gone"
  /\ queued' = Decrement(queued, job[j].kind)
  /\ IsOver(j)
  /\ UNCHANGED <<backend, queue, running, tokens, cancelled, rows, executor,
                 shutdown, stop, faults>>

---------------------------------------------------------------------------
(* The executor. *)

Take_Detached ==
  /\ executor = "idle" /\ ~shutdown /\ queue # <<>>
  /\ queue' = Tail(queue)
  /\ Goto(Head(queue), "opening")
  /\ UNCHANGED <<backend, queued, running, tokens, cancelled, rows, executor,
                 shutdown, stop, faults>>

(* It looks at the shutdown signal before it looks at the queue, and waits  *)
(* for the job it has taken.                                                *)
Take ==
  /\ executor = "idle" /\ ~shutdown /\ queue # <<>>
  /\ queue' = Tail(queue)
  /\ executor' = "busy"
  /\ Goto(Head(queue), "opening")
  /\ UNCHANGED <<backend, queued, running, tokens, cancelled, rows, shutdown,
                 stop, faults>>

(* The inline executor takes its receiver and what is in it along. *)
QueueDropped ==
  IF backend = "inline"
  THEN /\ queue' = <<>>
       /\ job' = [j \in Jobs |-> IF job[j].pc = "queued"
                                 THEN [job[j] EXCEPT !.pc = "lost"]
                                 ELSE job[j]]
  ELSE UNCHANGED <<queue, job>>

ExecutorExits ==
  /\ executor = "idle" /\ shutdown
  /\ executor' = "gone"
  /\ QueueDropped
  /\ UNCHANGED <<backend, queued, running, tokens, cancelled, rows, shutdown,
                 stop, faults>>

(* A job is over: the executor that waits for it, if any still does, goes on. *)
Released == IF executor = "busy" THEN "idle" ELSE executor

---------------------------------------------------------------------------
(* dispatch: open the context, run the job, drop the context. *)

PersistStarted(j) ==
  /\ job[j].pc = "opening"
  /\ \/ /\ rows' = rows \union {j}
        /\ Goto(j, "starting")
        /\ UNCHANGED <<queued, executor, faults>>
     \/ /\ Fault
        /\ queued' = Decrement(queued, job[j].kind)
        /\ IsOver(j)
        /\ executor' = Released
        /\ UNCHANGED rows
  /\ UNCHANGED <<backend, queue, running, tokens, cancelled, shutdown, stop>>

Register(j) ==
  /\ job[j].pc = "starting"
  /\ tokens' = tokens \union {j}
  /\ queued' = Decrement(queued, job[j].kind)
  /\ running' = Increment(running, job[j].kind)
  /\ Goto(j, IF job[j].kind \in Direct THEN "body" ELSE "init")
  /\ UNCHANGED <<backend, queue, cancelled, rows, executor, shutdown, stop,
                 faults>>

(* run_job.  n tasks are left: run the next one unless the job has been     *)
(* cancelled, or finalize when there is none.                               *)
Proceed(j, n) ==
  job' = [job EXCEPT ![j].left = n,
                     ![j].pc = CASE n = 0 -> "finalize"
                                 [] n > 0 /\ j \in cancelled -> "ending"
                                 [] OTHER -> "task"]

CodeReturns_ErrorUnrecorded(j) ==
  /\ \/ /\ job[j].pc \in {"init", "task"}
        /\ \E n \in 0..MaxTasks : n + 1 >= job[j].left /\ Proceed(j, n)
     \/ job[j].pc = "finalize" /\ Goto(j, "ending")
     \/ job[j].pc \in {"init", "task", "finalize"} /\ Goto(j, "closing")
  /\ UNCHANGED <<backend, queue, queued, running, tokens, cancelled, rows,
                 executor, shutdown, stop, faults>>

(* The job's own code returns: from init with n tasks, from a task with      *)
(* subtasks, from finalize, or from any of them with an error.               *)
CodeReturns(j) ==
  /\ \/ /\ job[j].pc \in {"init", "task"}
        /\ \E n \in 0..MaxTasks : n + 1 >= job[j].left /\ Proceed(j, n)
     \/ job[j].pc \in {"init", "task", "finalize"} /\ Goto(j, "ending")
  /\ UNCHANGED <<backend, queue, queued, running, tokens, cancelled, rows,
                 executor, shutdown, stop, faults>>

BodyReturns(j) ==
  /\ job[j].pc = "body"
  /\ Goto(j, "closing")
  /\ UNCHANGED <<backend, queue, queued, running, tokens, cancelled, rows,
                 executor, shutdown, stop, faults>>

(* persist_finished updates the row if it is still there.  An error leaves  *)
(* the row as it is, and the context is dropped all the same.               *)
PersistFinished(j) ==
  /\ job[j].pc = "ending"
  /\ \/ /\ rows' = rows \ {j}
        /\ UNCHANGED faults
     \/ Fault /\ UNCHANGED rows
  /\ Goto(j, "closing")
  /\ UNCHANGED <<backend, queue, queued, running, tokens, cancelled, executor,
                 shutdown, stop>>

Finish_KeepsToken(j) ==
  /\ job[j].pc = "closing"
  /\ running' = Decrement(running, job[j].kind)
  /\ IsOver(j)
  /\ executor' = Released
  /\ UNCHANGED <<backend, queue, queued, tokens, cancelled, rows, shutdown, stop,
                 faults>>

(* JobContext::finish, called on the way out or by Drop. *)
Finish(j) ==
  /\ job[j].pc = "closing"
  /\ tokens' = tokens \ {j} /\ cancelled' = cancelled \ {j}
  /\ running' = Decrement(running, job[j].kind)
  /\ IsOver(j)
  /\ executor' = Released
  /\ UNCHANGED <<backend, queue, queued, rows, shutdown, stop, faults>>

(* The job's code panics.  The blocking thread of the inline executor       *)
(* unwinds, which drops the context.  (What a panic does to Apalis' worker   *)
(* is up to Apalis, and not modelled.)                                       *)
Panic(j) ==
  /\ backend = "inline" /\ job[j].pc \in UserCode
  /\ Fault
  /\ Goto(j, "closing")
  /\ UNCHANGED <<backend, queue, queued, running, tokens, cancelled, rows,
                 executor, shutdown, stop>>

---------------------------------------------------------------------------
(* Requests. *)

(* Only run_job looks at the token. *)
Heeds(j) == job[j].kind \notin Direct

CancelJob(j) ==
  /\ j \in tokens \ cancelled /\ Heeds(j)
  /\ cancelled' = cancelled \union {j}
  /\ UNCHANGED <<backend, job, queue, queued, running, tokens, rows, executor,
                 shutdown, stop, faults>>

(* delete_job of a job that is not resolved: it is cancelled first unless   *)
(* force is given.  Deleting the row of a job that is over concerns nobody. *)
DeleteJob(j) ==
  /\ j \in rows /\ job[j].pc # "none"
  /\ rows' = rows \ {j}
  /\ \/ UNCHANGED cancelled
     \/ j \in tokens /\ Heeds(j) /\ cancelled' = cancelled \union {j}
  /\ UNCHANGED <<backend, job, queue, queued, running, tokens, executor, shutdown,
                 stop, faults>>

---------------------------------------------------------------------------
(* JobRuntime::stop, the last step of the server's shutdown. *)

StopSignals ==
  /\ stop = "begun"
  /\ cancelled' = cancelled \union {j \in tokens : Heeds(j)}
  /\ shutdown' = TRUE
  /\ stop' = "waiting"
  /\ UNCHANGED <<backend, job, queue, queued, running, tokens, rows, executor,
                 faults>>

StopJoins ==
  /\ stop = "waiting" /\ executor = "gone"
  /\ tokens' = {}
  /\ stop' = "done"
  /\ UNCHANGED <<backend, job, queue, queued, running, cancelled, rows, executor,
                 shutdown, faults>>

(* SHUTDOWN_GRACE has passed and the executor is aborted.  The job of the   *)
(* inline executor stays on its blocking thread; the one of Apalis is part  *)
(* of the task and dropped with it, and so is its context if it has one.    *)
StopAborts ==
  /\ stop = "waiting" /\ executor # "gone"
  /\ executor' = "gone"
  /\ tokens' = {}
  /\ stop' = "done"
  /\ IF backend = "inline" THEN QueueDropped /\ UNCHANGED running
     ELSE LET dropped == {j \in Jobs : job[j].pc \in Open} IN
          /\ job' = [j \in Jobs |->
                       CASE j \in dropped -> Over(j)
                         [] job[j].pc \in {"opening", "starting"}
                              -> [job[j] EXCEPT !.pc = "lost"]
                         [] OTHER -> job[j]]
          /\ running' = [k \in Kinds |->
                           IF \E j \in dropped : job[j].kind = k
                           THEN Decrement(running, k)[k] ELSE running[k]]
          /\ UNCHANGED queue
  /\ UNCHANGED <<backend, queued, cancelled, rows, shutdown, faults>>

(* The process ends, by itself or not, and the server starts again: the rows *)
(* the last process left running are cancelled before anything is enqueued.  *)
Restart ==
  /\ Fault
  /\ job' = [j \in Jobs |-> NoJob]
  /\ queue' = <<>>
  /\ queued' = [k \in Kinds |-> 0] /\ running' = [k \in Kinds |-> 0]
  /\ tokens' = {} /\ cancelled' = {} /\ rows' = {}
  /\ executor' = "idle" /\ shutdown' = FALSE /\ stop' = "none"
  /\ UNCHANGED backend

---------------------------------------------------------------------------

(* What the runtime's own tasks do. *)
RunsItself ==
  \/ Take \/ ExecutorExits
  \/ \E j \in Jobs : PersistStarted(j) \/ Register(j) \/ PersistFinished(j) \/ Finish(j)

Stops == StopSignals \/ StopJoins \/ StopAborts

RuntimeNext ==
  \/ RunsItself \/ Stops
  \/ \E j \in Jobs : CodeReturns(j) \/ Panic(j) \/ CancelJob(j) \/ DeleteJob(j)

=============================================================================
