------------------------ MODULE BackgroundJobsProofs ------------------------
(***************************************************************************)
(* The job runtime and its producers, for any number of jobs, rows, roots   *)
(* and faults: the executor runs one job at a time, the registry knows      *)
(* exactly the jobs that have a context, no row is in two refresh jobs, a   *)
(* row of the job table that says Running has its job, and a claim is held  *)
(* by a refresh that will release it.                                       *)
(*                                                                         *)
(* Every step is one of the few moves of a job defined below; what a move   *)
(* preserves is proved once. The effects, further down, say the same of the *)
(* job table and the counts.                                                *)
(***************************************************************************)
EXTENDS BackgroundJobs, TLAPS

USE SMTT(30)

JobType == [pc : JobPcs, kind : Kinds, arg : (SUBSET Grabs) \cup Roots, left : Nat]

Types == job \in [Jobs -> JobType] /\ queue \in Seq(Jobs)

\* What is in the queue is queued, and is there once.
QueueHolds ==
  /\ \A i \in 1..Len(queue) : job[queue[i]].pc = "queued"
  /\ \A i, k \in 1..Len(queue) : queue[i] = queue[k] => i = k

\* The executor is idle only between jobs.
Serial == OneAtATime /\ (executor = "idle" => \A j \in Jobs : job[j].pc \notin InFlight)

\* The job the maintenance loop is sending has not been sent.
Sending ==
  /\ maint.pc = "send" => /\ maint.job \in Jobs /\ job[maint.job].pc = "counted"
                          /\ job[maint.job].kind = "refresh"
  /\ deploy = "watch" => maint.pc # "send"

\* What the loop has noted as claimed still covers the claims.
Noted == maint.pc = "query" => claims \subseteq maint.claimed

JobInv == Types /\ QueueHolds /\ Serial /\ RegistryIsTruthful

IInv == JobInv /\ Sending /\ RefreshOwnsItsRows /\ Noted

-------------------------------------------------------------------------------
(* The moves of a job. *)

Others(j) == \A i \in Jobs \ {j} : job'[i] = job[i]
Same(j) == job'[j].kind = job[j].kind /\ job'[j].arg = job[j].arg

\* Nothing happens to a job.
Rests == UNCHANGED <<job, queue, tokens, executor>> /\ (stop = "done" => stop' = "done")

\* It is submitted, sent, or dropped before it is taken.
Submitted(j) ==
  /\ job[j].pc = "none" /\ job'[j].pc = "counted" /\ Others(j)
  /\ UNCHANGED <<queue, tokens, executor, stop>>
Sent(j) ==
  /\ job[j].pc = "counted" /\ job'[j].pc = "queued" /\ Same(j) /\ Others(j)
  /\ queue' = Append(queue, j)
  /\ UNCHANGED <<tokens, executor, stop>>
Dropped(j) ==
  /\ job[j].pc = "counted" /\ job'[j].pc \in {"none", "lost"} /\ Others(j)
  /\ UNCHANGED <<queue, tokens, executor>> /\ (stop = "done" => stop' = "done")

\* It is taken, moves on, gets its context, or leaves.
Taken(j) ==
  /\ queue # <<>> /\ j = Head(queue) /\ queue' = Tail(queue)
  /\ job'[j].pc = "opening" /\ Same(j) /\ Others(j)
  /\ executor = "idle" /\ executor' = "busy"
  /\ UNCHANGED <<tokens, stop>>
Moved(j) ==
  /\ job[j].pc \in InFlight /\ job'[j].pc \in InFlight
  /\ job[j].pc \in Open <=> job'[j].pc \in Open
  /\ job'[j].pc \in Waiting \cup {"body"} => job[j].pc \in Waiting
  /\ Same(j) /\ Others(j)
  /\ UNCHANGED <<queue, tokens, executor, stop>>
Registered(j) ==
  /\ job[j].pc = "starting" /\ job'[j].pc \in {"body", "init"} /\ Same(j) /\ Others(j)
  /\ tokens' = tokens \cup {j}
  /\ UNCHANGED <<queue, executor, stop>>
Left(j) ==
  /\ job[j].pc \in {"opening", "closing"} /\ job'[j].pc = "none" /\ Others(j)
  /\ tokens' = IF job[j].pc = "opening" THEN tokens ELSE tokens \ {j}
  /\ executor' = Released
  /\ UNCHANGED <<queue, stop>>

\* The executor ends, with or without its queue and its job.
Gone ==
  /\ \A i \in Jobs : \/ job'[i] = job[i]
                     \/ job[i].pc = "queued" /\ job'[i].pc = "lost" /\ queue' = <<>>
                     \/ job[i].pc \in InFlight /\ job'[i].pc \in {"none", "lost"}
                        /\ stop' = "done"
  /\ queue' \in {queue, <<>>}
  /\ executor' = "gone"
  /\ \/ stop' = stop /\ UNCHANGED tokens
     \/ stop' = "done"

\* The process starts again.
Fresh ==
  /\ \A i \in Jobs : job'[i].pc = "none"
  /\ queue' = <<>> /\ tokens' = {} /\ executor' = "idle"

\* The moves of the runtime's own steps, of any step that submits no job, and
\* of any step.
Inner ==
  \/ Rests \/ Gone
  \/ \E j \in Jobs : Taken(j) \/ Moved(j) \/ Registered(j) \/ Left(j)

Run == Inner \/ Fresh \/ \E j \in Jobs : Sent(j) \/ Dropped(j)

Move == Run \/ \E j \in Jobs : Submitted(j)

-------------------------------------------------------------------------------
(* What a move preserves. *)

LEMMA Pcs ==
  /\ Open \subseteq InFlight
  /\ "none" \notin InFlight /\ "counted" \notin InFlight /\ "queued" \notin InFlight
  /\ "lost" \notin InFlight
  /\ "opening" \in InFlight \ Open /\ "starting" \in InFlight \ Open
  /\ "body" \in Open /\ "init" \in Open /\ "closing" \in Open
BY DEF Open, InFlight, UserCode

LEMMA MoveSerial ==
  ASSUME JobInv, Move, Types'
  PROVE  Serial'
<1>1. CASE Rests
  BY ZenonT(40), <1>1 DEF Rests, JobInv, Serial, OneAtATime
<1>2. CASE Gone
  BY ZenonT(40), <1>2, Pcs DEF Gone, JobInv, Serial, OneAtATime
<1>3. CASE Fresh
  BY ZenonT(40), <1>3, Pcs DEF Fresh, Serial, OneAtATime
<1>4. ASSUME NEW j \in Jobs, Submitted(j) \/ Sent(j) \/ Dropped(j)
      PROVE  Serial'
  <2>1. job'[j].pc \notin InFlight /\ Others(j) /\ executor' = executor
    BY ZenonT(40), <1>4, Pcs DEF Submitted, Sent, Dropped
  <2>. QED
    BY ZenonT(40), <2>1 DEF Others, JobInv, Serial, OneAtATime
<1>5. ASSUME NEW j \in Jobs, Taken(j)
      PROVE  Serial'
  BY ZenonT(40), <1>5 DEF Taken, Others, JobInv, Serial, OneAtATime
<1>6. ASSUME NEW j \in Jobs, Moved(j) \/ Registered(j)
      PROVE  Serial'
  <2>1. job[j].pc \in InFlight /\ Others(j) /\ executor' = executor
    BY ZenonT(40), <1>6, Pcs DEF Moved, Registered
  <2>. QED
    BY ZenonT(40), <2>1 DEF Others, JobInv, Serial, OneAtATime
<1>7. ASSUME NEW j \in Jobs, Left(j)
      PROVE  Serial'
  <2>1. job[j].pc \in InFlight /\ job'[j].pc \notin InFlight
    BY ZenonT(40), <1>7, Pcs DEF Left
  <2>2. \A i \in Jobs : job'[i].pc \notin InFlight
    BY ZenonT(40), <1>7, <2>1 DEF Left, Others, JobInv, Serial, OneAtATime
  <2>. QED
    BY ZenonT(40), <2>2 DEF Serial, OneAtATime
<1>. QED
  BY ZenonT(40), <1>1, <1>2, <1>3, <1>4, <1>5, <1>6, <1>7 DEF Move, Run, Inner

LEMMA MoveRegistry ==
  ASSUME JobInv, Move, Types'
  PROVE  RegistryIsTruthful'
<1>1. CASE Rests
  BY ZenonT(40), <1>1 DEF Rests, JobInv, RegistryIsTruthful
<1>2. CASE Gone
  BY ZenonT(40), <1>2, Pcs DEF Gone, JobInv, RegistryIsTruthful
<1>3. CASE Fresh
  BY ZenonT(40), <1>3, Pcs DEF Fresh, RegistryIsTruthful
<1>4. ASSUME NEW j \in Jobs, Submitted(j) \/ Sent(j) \/ Dropped(j)
      PROVE  RegistryIsTruthful'
  <2>1. /\ job[j].pc \notin Open /\ job'[j].pc \notin Open /\ Others(j)
        /\ tokens' = tokens /\ (stop = "done" => stop' = "done")
    BY ZenonT(40), <1>4, Pcs DEF Submitted, Sent, Dropped
  <2>. QED
    BY <2>1 DEF Others, JobInv, RegistryIsTruthful
<1>5. ASSUME NEW j \in Jobs, Taken(j)
      PROVE  RegistryIsTruthful'
  <2>1. job[j].pc \notin Open /\ job'[j].pc \notin Open
    BY ZenonT(40), <1>5, Pcs DEF Taken, JobInv, Serial
  <2>. QED
    BY ZenonT(40), <1>5, <2>1 DEF Taken, Others, JobInv, RegistryIsTruthful
<1>6. ASSUME NEW j \in Jobs, Moved(j)
      PROVE  RegistryIsTruthful'
  BY <1>6 DEF Moved, Others, JobInv, RegistryIsTruthful
<1>7. ASSUME NEW j \in Jobs, Registered(j)
      PROVE  RegistryIsTruthful'
  BY ZenonT(40), <1>7, Pcs DEF Registered, Others, JobInv, RegistryIsTruthful
<1>8. ASSUME NEW j \in Jobs, Left(j)
      PROVE  RegistryIsTruthful'
  BY ZenonT(40), <1>8, Pcs DEF Left, Others, JobInv, RegistryIsTruthful
<1>. QED
  BY ZenonT(40), <1>1, <1>2, <1>3, <1>4, <1>5, <1>6, <1>7, <1>8 DEF Move, Run, Inner

LEMMA HeadQueued ==
  ASSUME JobInv, queue # <<>>
  PROVE  Head(queue) \in Jobs /\ job[Head(queue)].pc = "queued"
BY DEF JobInv, Types, QueueHolds

LEMMA MoveQueue ==
  ASSUME JobInv, Move, Types'
  PROVE  QueueHolds'
<1>0. /\ queue \in Seq(Jobs)
      /\ \A i \in 1..Len(queue) : queue[i] \in Jobs /\ job[queue[i]].pc = "queued"
      /\ \A i, k \in 1..Len(queue) : queue[i] = queue[k] => i = k
  BY DEF JobInv, Types, QueueHolds
<1>1. CASE Rests
  BY ZenonT(40), <1>1 DEF Rests, JobInv, QueueHolds
<1>2. CASE Gone
  <2>1. CASE queue' = <<>>
    BY <2>1 DEF QueueHolds
  <2>2. CASE queue' = queue /\ queue # <<>>
    <3>1. \A i \in 1..Len(queue) : job'[queue[i]] = job[queue[i]]
      BY ZenonT(40), <1>0, <1>2, <2>2, Pcs DEF Gone
    <3>. QED
      BY ZenonT(40), <1>0, <2>2, <3>1 DEF QueueHolds
  <2>. QED
    BY ZenonT(40), <1>2, <2>1, <2>2 DEF Gone
<1>3. CASE Fresh
  BY <1>3 DEF Fresh, QueueHolds
<1>4. ASSUME NEW j \in Jobs, Submitted(j) \/ Dropped(j) \/ Moved(j) \/ Registered(j) \/ Left(j)
      PROVE  QueueHolds'
  <2>1. job[j].pc # "queued" /\ Others(j) /\ queue' = queue
    BY ZenonT(40), <1>4, Pcs DEF Submitted, Dropped, Moved, Registered, Left
  <2>2. \A i \in 1..Len(queue) : job'[queue[i]] = job[queue[i]]
    BY ZenonT(40), <1>0, <2>1 DEF Others
  <2>. QED
    BY ZenonT(40), <1>0, <2>1, <2>2 DEF QueueHolds
<1>5. ASSUME NEW j \in Jobs, Sent(j)
      PROVE  QueueHolds'
  <2>1. /\ Len(queue') = Len(queue) + 1 /\ queue'[Len(queue) + 1] = j
        /\ \A i \in 1..Len(queue) : queue'[i] = queue[i]
    BY <1>0, <1>5 DEF Sent
  <2>2. \A i \in 1..Len(queue) : queue[i] # j /\ job'[queue[i]].pc = "queued"
    BY ZenonT(40), <1>0, <1>5 DEF Sent, Others
  <2>3. \A i \in 1..Len(queue') : i \in 1..Len(queue) \/ i = Len(queue) + 1
    BY <1>0, <2>1
  <2>4. job'[j].pc = "queued"
    BY ZenonT(40), <1>5 DEF Sent
  <2>. QED
    BY ZenonT(40), <1>0, <2>1, <2>2, <2>3, <2>4 DEF QueueHolds
<1>6. ASSUME NEW j \in Jobs, Taken(j)
      PROVE  QueueHolds'
  <2>1. /\ Len(queue) > 0 /\ Len(queue') = Len(queue) - 1 /\ queue[1] = j
        /\ \A i \in 1..Len(queue') : i + 1 \in 1..Len(queue) /\ queue'[i] = queue[i + 1]
    BY <1>0, <1>6 DEF Taken
  <2>2. \A i \in 1..Len(queue') : queue'[i] # j
    BY <1>0, <2>1
  <2>3. \A i \in 1..Len(queue') : job'[queue'[i]] = job[queue[i + 1]]
    BY ZenonT(40), <1>0, <1>6, <2>1, <2>2 DEF Taken, Others
  <2>4. \A i \in 1..Len(queue') : job'[queue'[i]].pc = "queued"
    BY <1>0, <2>1, <2>3
  <2>5. \A i, k \in 1..Len(queue') : queue'[i] = queue'[k] => i = k
    <3> TAKE i, k \in 1..Len(queue')
    <3>1. queue[i + 1] = queue[k + 1] => i + 1 = k + 1
      BY ZenonT(40), <1>0, <2>1
    <3>. QED
      BY <2>1, <3>1
  <2>. QED
    BY ZenonT(40), <2>4, <2>5 DEF QueueHolds
<1>. QED
  BY ZenonT(40), <1>1, <1>2, <1>3, <1>4, <1>5, <1>6 DEF Move, Run, Inner

\* A move that submits nothing puts no job into Refreshing and leaves the ones
\* that stay as they are.
Shrinks ==
  \A i \in Refreshing' : /\ i \in Refreshing /\ job'[i].arg = job[i].arg
                         /\ job[i].pc = "body" => job'[i].pc = "body"

LEMMA MoveShrinks ==
  ASSUME JobInv, Run, Types'
  PROVE  Shrinks
<1>1. CASE Rests
  BY ZenonT(40), <1>1 DEF Rests, Shrinks, Refreshing
<1>2. CASE Gone
  BY ZenonT(40), <1>2, Pcs DEF Gone, Shrinks, Refreshing, Waiting
<1>3. CASE Fresh
  BY ZenonT(40), <1>3 DEF Fresh, Shrinks, Refreshing, Waiting
<1>4. ASSUME NEW j \in Jobs, Sent(j) \/ Dropped(j) \/ Taken(j) \/ Registered(j) \/ Left(j)
      PROVE  Shrinks
  <2>1. /\ Others(j) /\ job[j].pc # "body"
        /\ job'[j].pc \in Waiting \cup {"body"} => job[j].pc \in Waiting /\ Same(j)
    BY ZenonT(40), <1>4, HeadQueued DEF Sent, Dropped, Taken, Registered, Left, Waiting
  <2>. QED
    BY ZenonT(40), <2>1 DEF Others, Same, Shrinks, Refreshing
<1>5. ASSUME NEW j \in Jobs, Moved(j)
      PROVE  Shrinks
  <2>1. /\ Others(j) /\ Same(j)
        /\ job'[j].pc \in Waiting \cup {"body"} => job[j].pc \in Waiting
    BY <1>5 DEF Moved
  <2>2. "body" \notin Waiting
    BY DEF Waiting
  <2>. QED
    BY ZenonT(40), <2>1, <2>2 DEF Others, Same, Shrinks, Refreshing
<1>. QED
  BY ZenonT(40), <1>1, <1>2, <1>3, <1>4, <1>5 DEF Run, Inner

LEMMA MoveKeepsJobs ==
  ASSUME JobInv, Move, Types'
  PROVE  JobInv'
BY ZenonT(40), MoveSerial, MoveRegistry, MoveQueue DEF JobInv

-------------------------------------------------------------------------------
(* Every step is a move. *)

LEMMA JobAt ==
  ASSUME Types, NEW j \in Jobs, NEW v \in JobType, job' = [job EXCEPT ![j] = v]
  PROVE  job' \in [Jobs -> JobType] /\ job'[j] = v /\ Others(j)
BY ZenonT(40) DEF Types, Others

LEMMA GotoAt ==
  ASSUME Types, NEW j \in Jobs, NEW pc \in JobPcs, Goto(j, pc)
  PROVE  job' \in [Jobs -> JobType] /\ job'[j].pc = pc /\ Same(j) /\ Others(j)
<1>1. job[j] \in JobType /\ job' = [job EXCEPT ![j] = [job[j] EXCEPT !.pc = pc]]
  BY ZenonT(40) DEF Types, Goto
<1>2. [job[j] EXCEPT !.pc = pc] \in JobType
  BY ZenonT(40), <1>1 DEF JobType
<1>3. /\ [job[j] EXCEPT !.pc = pc].pc = pc
      /\ [job[j] EXCEPT !.pc = pc].kind = job[j].kind
      /\ [job[j] EXCEPT !.pc = pc].arg = job[j].arg
  BY ZenonT(40), <1>1 DEF JobType
<1>. QED
  BY Zenon, <1>1, <1>2, <1>3, JobAt DEF Same

LEMMA OverAt ==
  ASSUME Types, NEW j \in Jobs, IsOver(j)
  PROVE  job' \in [Jobs -> JobType] /\ job'[j].pc = "none" /\ Others(j)
<1>1. job[j].kind \in Kinds
  BY ZenonT(40) DEF Types, JobType
<1>2. Over(j) \in JobType /\ Over(j).pc = "none"
  BY ZenonT(40), <1>1 DEF Over, NoJob, JobType, JobPcs, Kinds
<1>. QED
  BY Zenon, <1>2, JobAt DEF IsOver

LEMMA CountMoves ==
  ASSUME Types, NEW j \in Jobs, NEW k \in Kinds, NEW a \in (SUBSET Grabs) \cup Roots,
         Count(j, k, a)
  PROVE  /\ Types' /\ Submitted(j)
         /\ job'[j].kind = k /\ job'[j].arg = a
<1>1. job[j].pc = "none"
  BY ZenonT(40) DEF Count, Free
<1>2. /\ [NoJob EXCEPT !.pc = "counted", !.kind = k, !.arg = a] \in JobType
      /\ [NoJob EXCEPT !.pc = "counted", !.kind = k, !.arg = a].pc = "counted"
      /\ [NoJob EXCEPT !.pc = "counted", !.kind = k, !.arg = a].kind = k
      /\ [NoJob EXCEPT !.pc = "counted", !.kind = k, !.arg = a].arg = a
  BY Zenon DEF NoJob, JobType, JobPcs
<1>3. job' = [job EXCEPT ![j] = [NoJob EXCEPT !.pc = "counted", !.kind = k, !.arg = a]]
  BY ZenonT(40) DEF Count
<1>4. /\ job' \in [Jobs -> JobType] /\ Others(j)
      /\ job'[j] = [NoJob EXCEPT !.pc = "counted", !.kind = k, !.arg = a]
  BY Zenon, <1>2, <1>3, JobAt
<1>. QED
  BY ZenonT(40), <1>1, <1>2, <1>4 DEF Count, Submitted, Types

LEMMA SendMoves ==
  ASSUME Types, NEW j \in Jobs
  PROVE  /\ Send(j) => Types' /\ Sent(j)
         /\ SendRefused(j) => Types' /\ Dropped(j)
<1>1. ASSUME Send(j)
      PROVE  Types' /\ Sent(j)
  <2>1. job' \in [Jobs -> JobType] /\ job'[j].pc = "queued" /\ Same(j) /\ Others(j)
    BY ZenonT(40), <1>1, GotoAt DEF Send, JobPcs
  <2>2. queue' \in Seq(Jobs)
    BY <1>1 DEF Send, Types
  <2>. QED
    BY ZenonT(40), <1>1, <2>1, <2>2 DEF Send, Sent, Types
<1>2. ASSUME SendRefused(j)
      PROVE  Types' /\ Dropped(j)
  <2>1. job' \in [Jobs -> JobType] /\ job'[j].pc = "none" /\ Others(j)
    BY ZenonT(40), <1>2, OverAt DEF SendRefused
  <2>. QED
    BY ZenonT(40), <1>2, <2>1 DEF SendRefused, Dropped, Types
<1>. QED
  BY ZenonT(40), <1>1, <1>2

\* A step inside a job that keeps its context, if it has one.
LEMMA InnerMoves ==
  ASSUME Types, NEW j \in Jobs, NEW pc \in JobPcs, Goto(j, pc),
         \/ job[j].pc \in Open /\ pc \in Open \ {"body"}
         \/ job[j].pc = "opening" /\ pc = "starting",
         UNCHANGED <<queue, tokens, executor, stop>>
  PROVE  Types' /\ Moved(j)
<1>1. job' \in [Jobs -> JobType] /\ job'[j].pc = pc /\ Same(j) /\ Others(j)
  BY ZenonT(40), GotoAt
<1>2. pc \in Open => pc \notin Waiting
  BY ZenonT(40) DEF Open, UserCode, Waiting
<1>3. "opening" \in Waiting
  BY ZenonT(40) DEF Waiting
<1>. QED
  BY ZenonT(40), <1>1, <1>2, <1>3, Pcs DEF Moved, Types

LEMMA CodeAt ==
  ASSUME Types, NEW j \in Jobs, CodeReturns(j)
  PROVE  /\ job' \in [Jobs -> JobType] /\ Same(j) /\ Others(j)
         /\ job[j].pc \in {"init", "task", "finalize"}
         /\ job'[j].pc \in {"task", "finalize", "ending"}
         /\ job'[j].left \in {job[j].left} \cup 0..MaxTasks
<1>1. CASE Goto(j, "ending") /\ job[j].pc \in {"init", "task", "finalize"}
  <2>1. job' \in [Jobs -> JobType] /\ job'[j].pc = "ending" /\ Same(j) /\ Others(j)
    BY ZenonT(40), <1>1, GotoAt DEF JobPcs
  <2>2. job'[j].left = job[j].left
    BY ZenonT(40), <1>1 DEF Goto, Types, JobType
  <2>. QED
    BY ZenonT(40), <1>1, <2>1, <2>2
<1>2. ASSUME NEW n \in 0..MaxTasks, Proceed(j, n), job[j].pc \in {"init", "task"}
      PROVE  /\ job' \in [Jobs -> JobType] /\ Same(j) /\ Others(j)
             /\ job'[j].pc \in {"task", "finalize", "ending"}
             /\ job'[j].left = n
  <2> DEFINE next == CASE n = 0 -> "finalize"
                       [] n > 0 /\ j \in cancelled -> "ending"
                       [] OTHER -> "task"
  <2>1. PICK pc \in {"finalize", "ending", "task"} :
          job' = [job EXCEPT ![j].left = n, ![j].pc = pc]
    <3>1. next \in {"finalize", "ending", "task"}
      <4>1. CASE n = 0
        BY ZenonT(40), <4>1
      <4>2. CASE n # 0 /\ n > 0 /\ j \in cancelled
        BY ZenonT(40), <4>2
      <4>3. CASE n # 0 /\ ~(n > 0 /\ j \in cancelled)
        BY ZenonT(40), <4>3
      <4>. QED
        BY ZenonT(40), <4>1, <4>2, <4>3
    <3>2. job' = [job EXCEPT ![j].left = n, ![j].pc = next]
      BY ZenonT(40), <1>2 DEF Proceed
    <3> HIDE DEF next
    <3>. QED
      BY Zenon, <3>1, <3>2
  <2>2. job[j] \in JobType /\ n \in Nat
    BY DEF Types
  <2>3. job' = [job EXCEPT ![j] = [job[j] EXCEPT !.left = n, !.pc = pc]]
    BY Zenon, <2>1 DEF Types
  <2>4. /\ [job[j] EXCEPT !.left = n, !.pc = pc] \in JobType
        /\ [job[j] EXCEPT !.left = n, !.pc = pc].pc = pc
        /\ [job[j] EXCEPT !.left = n, !.pc = pc].kind = job[j].kind
        /\ [job[j] EXCEPT !.left = n, !.pc = pc].arg = job[j].arg
        /\ [job[j] EXCEPT !.left = n, !.pc = pc].left = n
    BY Zenon, <2>2 DEF JobType, JobPcs
  <2>. QED
    BY Zenon, <2>3, <2>4, JobAt DEF Same
<1>. QED
  BY ZenonT(40), <1>1, <1>2 DEF CodeReturns

LEMMA RuntimeMoves ==
  ASSUME JobInv, RuntimeNext
  PROVE  Types' /\ Inner
<1>0. Types
  BY ZenonT(40) DEF JobInv
<1>1. CASE Take
  <2>1. Head(queue) \in Jobs
    BY ZenonT(40), <1>1, HeadQueued DEF Take
  <2>2. /\ job' \in [Jobs -> JobType] /\ job'[Head(queue)].pc = "opening"
        /\ Same(Head(queue)) /\ Others(Head(queue))
    BY ZenonT(40), <1>0, <1>1, <2>1, GotoAt DEF Take, JobPcs
  <2>3. queue' \in Seq(Jobs)
    BY <1>0, <1>1 DEF Take, Types
  <2>4. Taken(Head(queue))
    BY ZenonT(40), <1>1, <2>2 DEF Take, Taken
  <2>. QED
    BY ZenonT(40), <2>1, <2>2, <2>3, <2>4 DEF Inner, Types
<1>2. ASSUME QueueDropped
      PROVE  /\ Types'
             /\ \A i \in Jobs : \/ job'[i] = job[i]
                                \/ /\ job[i].pc = "queued" /\ job'[i].pc = "lost"
                                   /\ queue' = <<>>
             /\ queue' \in {queue, <<>>}
  <2>1. CASE backend = "inline"
    <3>1. \A i \in Jobs : /\ job[i] \in JobType
                          /\ [job[i] EXCEPT !.pc = "lost"] \in JobType
                          /\ [job[i] EXCEPT !.pc = "lost"].pc = "lost"
      BY Zenon, <1>0 DEF Types, JobType, JobPcs
    <3>2. /\ queue' = <<>>
          /\ job' = [j \in Jobs |-> IF job[j].pc = "queued"
                                    THEN [job[j] EXCEPT !.pc = "lost"] ELSE job[j]]
      BY <1>2, <2>1 DEF QueueDropped
    <3>. QED
      BY <3>1, <3>2 DEF Types
  <2>2. CASE backend # "inline"
    BY <1>0, <1>2, <2>2 DEF QueueDropped, Types
  <2>. QED
    BY ZenonT(40), <2>1, <2>2
<1>3. CASE ExecutorExits
  <2>1. QueueDropped
    BY ZenonT(40), <1>3 DEF ExecutorExits
  <2>. QED
    BY ZenonT(40), <1>2, <1>3, <2>1 DEF ExecutorExits, Inner, Gone
<1>4. ASSUME NEW j \in Jobs, PersistStarted(j)
      PROVE  Types' /\ Inner
  <2>1. CASE Goto(j, "starting") /\ UNCHANGED executor
    <3>1. Types' /\ Moved(j)
      BY ZenonT(40), <1>0, <1>4, <2>1, InnerMoves DEF PersistStarted, JobPcs
    <3>. QED
      BY ZenonT(40), <3>1 DEF Inner
  <2>2. CASE IsOver(j) /\ executor' = Released
    <3>1. job' \in [Jobs -> JobType] /\ job'[j].pc = "none" /\ Others(j)
      BY ZenonT(40), <1>0, <2>2, OverAt
    <3>2. Left(j)
      BY Zenon, <1>4, <2>2, <3>1 DEF PersistStarted, Left
    <3>. QED
      BY ZenonT(40), <1>0, <1>4, <3>1, <3>2 DEF PersistStarted, Inner, Types
  <2>. QED
    BY ZenonT(40), <1>4, <2>1, <2>2 DEF PersistStarted
<1>5. ASSUME NEW j \in Jobs, Register(j)
      PROVE  Types' /\ Inner
  <2>1. PICK pc \in {"body", "init"} : Goto(j, pc)
    BY Zenon, <1>5 DEF Register
  <2>2. job' \in [Jobs -> JobType] /\ job'[j].pc = pc /\ Same(j) /\ Others(j)
    BY ZenonT(40), <1>0, <2>1, GotoAt DEF JobPcs
  <2>3. Registered(j)
    BY ZenonT(40), <1>5, <2>2 DEF Register, Registered
  <2>. QED
    BY ZenonT(40), <1>0, <1>5, <2>2, <2>3 DEF Register, Inner, Types
<1>6. ASSUME NEW j \in Jobs, PersistFinished(j)
      PROVE  Types' /\ Inner
  <2>1. Types' /\ Moved(j)
    BY ZenonT(40), <1>0, <1>6, InnerMoves DEF PersistFinished, Open, UserCode, JobPcs
  <2>. QED
    BY ZenonT(40), <2>1 DEF Inner
<1>7. ASSUME NEW j \in Jobs, Finish(j)
      PROVE  Types' /\ Inner
  <2>1. job' \in [Jobs -> JobType] /\ job'[j].pc = "none" /\ Others(j)
    BY ZenonT(40), <1>0, <1>7, OverAt DEF Finish
  <2>2. Left(j)
    BY ZenonT(40), <1>7, <2>1 DEF Finish, Left
  <2>. QED
    BY ZenonT(40), <1>0, <1>7, <2>1, <2>2 DEF Finish, Inner, Types
<1>8. ASSUME NEW j \in Jobs, CodeReturns(j)
      PROVE  Types' /\ Inner
  <2>1. /\ job' \in [Jobs -> JobType] /\ Same(j) /\ Others(j)
        /\ job[j].pc \in {"init", "task", "finalize"}
        /\ job'[j].pc \in {"task", "finalize", "ending"}
    BY ZenonT(40), <1>0, <1>8, CodeAt
  <2>2. /\ job'[j].pc \in Open /\ job[j].pc \in Open
        /\ job'[j].pc \notin Waiting \cup {"body"}
    BY ZenonT(40), <2>1 DEF Open, UserCode, Waiting
  <2>3. Moved(j)
    BY ZenonT(40), <1>8, <2>1, <2>2, Pcs DEF CodeReturns, Moved
  <2>. QED
    BY ZenonT(40), <1>0, <1>8, <2>1, <2>3 DEF CodeReturns, Inner, Types
<1>9. ASSUME NEW j \in Jobs, Panic(j)
      PROVE  Types' /\ Inner
  <2>1. Types' /\ Moved(j)
    BY Zenon, <1>0, <1>9, InnerMoves DEF Panic, Open, UserCode, JobPcs
  <2>. QED
    BY <2>1 DEF Inner
<1>10. ASSUME NEW j \in Jobs, CancelJob(j) \/ DeleteJob(j)
       PROVE  Types' /\ Inner
  BY ZenonT(40), <1>0, <1>10 DEF CancelJob, DeleteJob, Inner, Rests, Types
<1>11. CASE StopSignals
  BY ZenonT(40), <1>0, <1>11 DEF StopSignals, Inner, Rests, Types
<1>12. CASE StopJoins
  BY ZenonT(40), <1>0, <1>12 DEF StopJoins, Inner, Gone, Types
<1>13. CASE StopAborts
  <2>1. CASE backend = "inline"
    <3>1. QueueDropped
      BY ZenonT(40), <1>13, <2>1 DEF StopAborts
    <3>. QED
      BY ZenonT(40), <1>2, <1>13, <3>1 DEF StopAborts, Inner, Gone
  <2>2. CASE backend # "inline"
    <3>1. \A i \in Jobs : /\ job[i] \in JobType /\ Over(i) \in JobType /\ Over(i).pc = "none"
                          /\ [job[i] EXCEPT !.pc = "lost"] \in JobType
                          /\ [job[i] EXCEPT !.pc = "lost"].pc = "lost"
      BY ZenonT(40), <1>0 DEF Types, Over, NoJob, JobType, JobPcs, Kinds
    <3>2. job' = [j \in Jobs |->
                    CASE j \in {i \in Jobs : job[i].pc \in Open} -> Over(j)
                      [] job[j].pc \in {"opening", "starting"} -> [job[j] EXCEPT !.pc = "lost"]
                      [] OTHER -> job[j]]
      BY <1>13, <2>2 DEF StopAborts
    <3>3. ASSUME NEW i \in Jobs
          PROVE  /\ job'[i] \in JobType
                 /\ \/ job'[i] = job[i]
                    \/ job[i].pc \in InFlight /\ job'[i].pc \in {"none", "lost"}
      <4>1. CASE job[i].pc \in Open
        BY ZenonT(40), <3>1, <3>2, <4>1, Pcs
      <4>2. CASE job[i].pc \in {"opening", "starting"}
        BY Zenon, <3>1, <3>2, <4>2, Pcs
      <4>3. CASE job[i].pc \notin Open /\ job[i].pc \notin {"opening", "starting"}
        BY Zenon, <3>1, <3>2, <4>3
      <4>. QED
        BY <4>1, <4>2, <4>3
    <3>4. job' \in [Jobs -> JobType]
      BY ZenonT(40), <3>2, <3>3
    <3>5. Gone
      BY ZenonT(40), <1>13, <2>2, <3>3 DEF StopAborts, Gone
    <3>. QED
      BY ZenonT(40), <1>0, <1>13, <2>2, <3>4, <3>5 DEF StopAborts, Inner, Types
  <2>. QED
    BY ZenonT(40), <2>1, <2>2
<1>. QED
  BY ZenonT(40), <1>1, <1>3, <1>4, <1>5, <1>6, <1>7, <1>8, <1>9, <1>10, <1>11, <1>12, <1>13
  DEF RuntimeNext, RunsItself, Stops

-------------------------------------------------------------------------------
(* The claims. *)

LEMMA InnerKeepsCounted ==
  ASSUME JobInv, Inner, NEW i \in Jobs, job[i].pc = "counted"
  PROVE  job'[i] = job[i]
<1>1. CASE Rests
  BY ZenonT(40), <1>1 DEF Rests
<1>2. CASE Gone
  BY ZenonT(40), <1>2, Pcs DEF Gone
<1>3. ASSUME NEW j \in Jobs, Taken(j) \/ Moved(j) \/ Registered(j) \/ Left(j)
      PROVE  job'[i] = job[i]
  <2>1. job[j].pc # "counted" /\ Others(j)
    BY ZenonT(40), <1>3, HeadQueued, Pcs DEF Taken, Moved, Registered, Left
  <2>. QED
    BY ZenonT(40), <2>1 DEF Others
<1>. QED
  BY ZenonT(40), <1>1, <1>2, <1>3 DEF Inner

\* Jobs move, the claims and the loop do not.
LEMMA Kept ==
  ASSUME IInv, Types', Run, UNCHANGED <<claims, maint, deploy>>,
         maint.pc = "send" => job'[maint.job] = job[maint.job]
  PROVE  IInv'
<1>1. JobInv'
  BY ZenonT(40), MoveKeepsJobs DEF IInv, Move
<1>2. Shrinks
  BY ZenonT(40), MoveShrinks DEF IInv
<1>3. RefreshOwnsItsRows'
  BY ZenonT(40), <1>2 DEF IInv, Shrinks, RefreshOwnsItsRows
<1>4. Sending' /\ Noted'
  BY ZenonT(40) DEF IInv, Sending, Noted
<1>. QED
  BY ZenonT(40), <1>1, <1>3, <1>4 DEF IInv

\* Nothing that the invariant is about moves.
LEMMA Quiet ==
  ASSUME IInv, UNCHANGED <<job, queue, tokens, executor, stop, claims, maint, deploy>>
  PROVE  IInv'
<1>1. Types' /\ Run
  BY ZenonT(40) DEF IInv, JobInv, Types, Run, Inner, Rests
<1>. QED
  BY ZenonT(40), <1>1, Kept

\* A job moves and, if it was a refresh, releases its claims.
LEMMA Releases ==
  ASSUME IInv, Types', Inner, RefreshMeanwhile, UNCHANGED deploy
  PROVE  IInv'
<1> DEFINE over == {j \in Jobs : InBody(j) /\ job'[j].pc # "body"}
<1>1. JobInv'
  BY ZenonT(40), MoveKeepsJobs DEF IInv, Move, Run
<1>2. Shrinks
  BY ZenonT(40), MoveShrinks DEF IInv, Run
<1>3. claims' = claims \ UNION {job[j].arg : j \in over} /\ maint' = maint
  BY ZenonT(40) DEF RefreshMeanwhile, ReleaseClaims
<1>4. over \subseteq Refreshing
  BY ZenonT(40) DEF InBody, Refreshing
<1>5. ASSUME NEW i \in Refreshing'
      PROVE  i \notin over /\ i \in Refreshing /\ job'[i].arg = job[i].arg
  BY ZenonT(40), <1>2, <1>5 DEF Shrinks, InBody
<1>6. ASSUME NEW i \in Refreshing', NEW j \in over
      PROVE  job[i].arg \cap job[j].arg = {}
  BY ZenonT(40), <1>4, <1>5, <1>6 DEF IInv, RefreshOwnsItsRows
<1>7. ASSUME NEW i \in Refreshing'
      PROVE  job'[i].arg \subseteq claims'
  <2>1. job[i].arg \subseteq claims
    BY ZenonT(40), <1>5 DEF IInv, RefreshOwnsItsRows
  <2>. QED
    BY <1>3, <1>5, <1>6, <2>1
<1>8. RefreshOwnsItsRows'
  <2>1. \A i, j \in Refreshing' : i # j => job'[i].arg \cap job'[j].arg = {}
    BY ZenonT(40), <1>5 DEF IInv, RefreshOwnsItsRows
  <2>. QED
    BY ZenonT(40), <1>7, <2>1 DEF RefreshOwnsItsRows
<1>9. Sending'
  <2>1. maint.pc = "send" => job'[maint.job] = job[maint.job]
    BY ZenonT(40), InnerKeepsCounted DEF IInv, Sending
  <2>. QED
    BY ZenonT(40), <1>3, <2>1 DEF IInv, Sending
<1>10. Noted'
  BY ZenonT(40), <1>3 DEF IInv, Noted
<1>. QED
  BY ZenonT(40), <1>1, <1>8, <1>9, <1>10 DEF IInv

\* The loop is aborted and drops what it was sending.
LEMMA Aborts ==
  ASSUME IInv, AbortLoop, UNCHANGED <<queue, tokens, executor, claims, deploy>>,
         stop = "none"
  PROVE  IInv'
<1>0. Asleep.pc = "asleep"
  BY ZenonT(40) DEF Asleep
<1>1. CASE job' = job /\ maint' \in {maint, Asleep}
  <2>1. Types' /\ Run
    BY ZenonT(40), <1>1 DEF IInv, JobInv, Types, Run, Inner, Rests
  <2>2. JobInv' /\ Shrinks
    BY ZenonT(40), <2>1, MoveKeepsJobs, MoveShrinks DEF IInv, Move
  <2>3. RefreshOwnsItsRows'
    BY ZenonT(40), <2>2 DEF IInv, Shrinks, RefreshOwnsItsRows
  <2>4. Sending' /\ Noted'
    BY ZenonT(40), <1>0, <1>1 DEF IInv, Sending, Noted
  <2>. QED
    BY ZenonT(40), <2>2, <2>3, <2>4 DEF IInv
<1>2. CASE maint.pc = "send" /\ Goto(maint.job, "lost") /\ maint' = Asleep
  <2>1. maint.job \in Jobs /\ job[maint.job].pc = "counted"
    BY ZenonT(40), <1>2 DEF IInv, Sending
  <2>2. /\ job' \in [Jobs -> JobType] /\ job'[maint.job].pc = "lost"
        /\ Others(maint.job)
    BY ZenonT(40), <1>2, <2>1, GotoAt DEF IInv, JobInv, JobPcs
  <2>3. Types' /\ Run
    BY ZenonT(40), <2>1, <2>2 DEF IInv, JobInv, Types, Run, Dropped
  <2>4. JobInv' /\ Shrinks
    BY ZenonT(40), <2>3, MoveKeepsJobs, MoveShrinks DEF IInv, Move
  <2>5. RefreshOwnsItsRows'
    BY ZenonT(40), <2>4 DEF IInv, Shrinks, RefreshOwnsItsRows
  <2>6. Sending' /\ Noted'
    BY ZenonT(40), <1>0, <1>2 DEF Sending, Noted
  <2>. QED
    BY ZenonT(40), <2>4, <2>5, <2>6 DEF IInv
<1>. QED
  BY ZenonT(40), <1>1, <1>2 DEF AbortLoop

-------------------------------------------------------------------------------
(* The steps. *)

LEMMA WatcherSteps ==
  ASSUME IInv, Watches(WatcherRuns) \/ Watches(Reconfigures) \/ Watches(\E r \in Roots : Touch(r))
  PROVE  IInv'
<1>0. /\ Types /\ maint.pc # "send"
      /\ UNCHANGED <<claims, maint, deploy>>
  BY ZenonT(40) DEF Watches, grabVars, IInv, JobInv, Sending
<1>1. CASE \/ HandleChangedFiles \/ FlushTaskWakes \/ HandleFlush \/ ReadRoots
           \/ HandleAddWatcher \/ HandleRemoveWatcher \/ HandleStop \/ PatchTells
  <2>1. UNCHANGED <<job, queue, tokens, executor, stop>>
    BY Zenon, <1>1 DEF HandleChangedFiles, FlushTaskWakes, HandleFlush, ReadRoots, FaultOnly,
                HandleAddWatcher, HandleRemoveWatcher, HandleStop, PatchTells, runtimeVars
  <2>. QED
    BY ZenonT(40), <1>0, <2>1, Quiet
<1>2. ASSUME NEW r \in Roots, PatchCommits(r) \/ Touch(r)
      PROVE  IInv'
  <2>1. UNCHANGED <<job, queue, tokens, executor, stop>>
    BY Zenon, <1>2 DEF PatchCommits, Touch, runtimeVars
  <2>. QED
    BY ZenonT(40), <1>0, <2>1, Quiet
<1>3. ASSUME NEW r \in Roots, NEW j \in Jobs, SubmitScan(r, j)
      PROVE  IInv'
  <2>1. Types' /\ Submitted(j) /\ job'[j].kind = "scan"
    BY ZenonT(40), <1>0, <1>3, CountMoves DEF SubmitScan, Kinds
  <2>2. JobInv'
    BY ZenonT(40), <2>1, MoveKeepsJobs DEF IInv, Move
  <2>3. \A i \in Refreshing' : i \in Refreshing /\ job'[i] = job[i]
    BY ZenonT(40), <2>1 DEF Refreshing, Submitted, Others
  <2>4. RefreshOwnsItsRows'
    BY ZenonT(40), <1>0, <2>3 DEF IInv, RefreshOwnsItsRows
  <2>5. Sending' /\ Noted'
    BY ZenonT(40), <1>0 DEF IInv, Sending, Noted
  <2>. QED
    BY ZenonT(40), <2>2, <2>4, <2>5 DEF IInv
<1>4. ASSUME NEW j \in Jobs, ScanSubmitted(j) \/ ScanRefused(j)
      PROVE  IInv'
  <2>1. Send(j) \/ SendRefused(j)
    BY ZenonT(40), <1>4 DEF ScanSubmitted, ScanRefused
  <2>2. Types' /\ Run
    BY ZenonT(40), <1>0, <2>1, SendMoves DEF Run
  <2>. QED
    BY ZenonT(40), <1>0, <2>2, Kept
<1>. QED
  BY ZenonT(40), <1>1, <1>2, <1>3, <1>4 DEF Watches, WatcherRuns, ListenerRuns, Reconfigures

LEMMA MaintenanceSteps ==
  ASSUME IInv, Acquires(MaintenanceRuns)
  PROVE  IInv'
<1>0. Types /\ deploy = "acquire" /\ UNCHANGED deploy
  BY ZenonT(40) DEF Acquires, IInv, JobInv
<1>1. CASE Tick \/ QueryNothing
  <2>1. UNCHANGED <<job, queue, tokens, executor, stop, claims>>
    BY ZenonT(40), <1>1 DEF Tick, QueryNothing, FaultOnly, runtimeVars
  <2>2. \/ maint' = [pc |-> "query", claimed |-> claims]
        \/ maint' = Asleep
    BY ZenonT(40), <1>1 DEF Tick, QueryNothing
  <2>3. maint'.pc # "send" /\ (maint'.pc = "query" => maint'.claimed = claims)
    BY <2>2 DEF Asleep
  <2>4. Types' /\ Run
    BY ZenonT(40), <1>0, <2>1 DEF Types, Run, Inner, Rests
  <2>5. JobInv' /\ Shrinks
    BY ZenonT(40), <2>4, MoveKeepsJobs, MoveShrinks DEF IInv, Move
  <2>6. RefreshOwnsItsRows'
    BY ZenonT(40), <2>1, <2>5 DEF IInv, Shrinks, RefreshOwnsItsRows
  <2>7. Sending' /\ Noted'
    BY ZenonT(40), <2>1, <2>3 DEF Sending, Noted
  <2>. QED
    BY ZenonT(40), <2>5, <2>6, <2>7 DEF IInv
<1>2. ASSUME NEW j \in Jobs, Query(j)
      PROVE  IInv'
  <2>1. DueGrabIds \in (SUBSET Grabs) \cup Roots /\ DueGrabIds \cap maint.claimed = {}
    BY ZenonT(40) DEF DueGrabIds
  <2>2. /\ Types' /\ Submitted(j)
        /\ job'[j].kind = "refresh" /\ job'[j].arg = DueGrabIds
    BY ZenonT(40), <1>0, <1>2, <2>1, CountMoves DEF Query, Kinds
  <2>3. JobInv'
    BY ZenonT(40), <2>2, MoveKeepsJobs DEF IInv, Move
  <2>4. claims \subseteq maint.claimed /\ claims' = claims \cup DueGrabIds
    BY ZenonT(40), <1>2 DEF Query, IInv, Noted
  <2>5. \A i \in Refreshing' : i = j \/ (i \in Refreshing /\ job'[i] = job[i])
    BY ZenonT(40), <2>2 DEF Refreshing, Submitted, Others
  <2>6. \A i \in Refreshing : job[i].arg \subseteq claims /\ job[i].arg \cap DueGrabIds = {}
    BY ZenonT(40), <2>1, <2>4 DEF IInv, RefreshOwnsItsRows
  <2>7. RefreshOwnsItsRows'
    <3>1. \A i \in Refreshing' : job'[i].arg \subseteq claims'
      BY ZenonT(40), <2>2, <2>4, <2>5, <2>6
    <3>2. ASSUME NEW i \in Refreshing', NEW k \in Refreshing', i # k
          PROVE  job'[k].arg \cap job'[i].arg = {}
      <4>1. CASE i # j /\ k # j
        BY ZenonT(40), <2>5, <3>2, <4>1 DEF IInv, RefreshOwnsItsRows
      <4>2. CASE i = j
        BY ZenonT(40), <2>2, <2>5, <2>6, <3>2, <4>2
      <4>3. CASE k = j
        BY ZenonT(40), <2>2, <2>5, <2>6, <3>2, <4>3
      <4>. QED
        BY ZenonT(40), <4>1, <4>2, <4>3
    <3>. QED
      BY ZenonT(40), <3>1, <3>2 DEF RefreshOwnsItsRows
  <2>8. maint'.pc = "send" /\ maint'.job = j
    BY ZenonT(40), <1>2 DEF Query
  <2>9. Sending' /\ Noted'
    BY ZenonT(40), <1>0, <2>2, <2>8 DEF Sending, Noted, Submitted
  <2>. QED
    BY ZenonT(40), <2>3, <2>7, <2>9 DEF IInv
<1>3. CASE Dispatch
  <2> DEFINE j == maint.job
  <2>1. /\ j \in Jobs /\ job[j].pc = "counted"
        /\ maint'.pc = "asleep"
    BY ZenonT(40), <1>3 DEF Dispatch, IInv, Sending, Asleep
  <2>2. /\ Send(j) \/ SendRefused(j)
        /\ Send(j) => claims' = claims
        /\ claims' = claims \/ (SendRefused(j) /\ claims' = claims \ job[j].arg)
    BY ZenonT(40), <1>3 DEF Dispatch, Send, SendRefused
  <2>3. Types' /\ Run
    BY ZenonT(40), <1>0, <2>1, <2>2, SendMoves DEF Run
  <2>4. JobInv' /\ Shrinks
    BY ZenonT(40), <2>3, MoveKeepsJobs, MoveShrinks DEF IInv, Move
  <2>5. RefreshOwnsItsRows'
    <3>1. CASE claims' = claims
      BY ZenonT(40), <2>4, <3>1 DEF IInv, Shrinks, RefreshOwnsItsRows
    <3>2. CASE SendRefused(j) /\ claims' = claims \ job[j].arg
      <4>1. job'[j].pc \in {"none", "lost"}
        BY ZenonT(40), <1>0, <2>1, <3>2, SendMoves DEF Dropped
      <4>2. j \notin Refreshing'
        BY ZenonT(40), <4>1 DEF Refreshing, Waiting
      <4>3. job[j].kind = "refresh" => j \in Refreshing
        BY ZenonT(40), <2>1 DEF Refreshing, Waiting
      <4>4. \A i \in Refreshing' : i \in Refreshing /\ i # j /\ job'[i].arg = job[i].arg
        BY ZenonT(40), <2>4, <4>2 DEF Shrinks
      <4>5. job[j].kind = "refresh"
        BY ZenonT(40), <1>3 DEF Dispatch, IInv, Sending
      <4>6. \A i \in Refreshing' : job'[i].arg \subseteq claims'
        BY ZenonT(40), <3>2, <4>3, <4>4, <4>5 DEF IInv, RefreshOwnsItsRows
      <4>. QED
        BY ZenonT(40), <4>4, <4>6 DEF IInv, RefreshOwnsItsRows
    <3>. QED
      BY ZenonT(40), <2>2, <3>1, <3>2
  <2>6. Sending' /\ Noted'
    BY ZenonT(40), <2>1 DEF Sending, Noted
  <2>. QED
    BY <2>4, <2>5, <2>6 DEF IInv
<1>. QED
  BY ZenonT(40), <1>1, <1>2, <1>3 DEF Acquires, MaintenanceRuns

LEMMA InitHolds == Init => IInv
<1> SUFFICES ASSUME Init
             PROVE  IInv
  BY ZenonT(40)
<1>1. /\ \A j \in Jobs : job[j] = NoJob
      /\ job \in [Jobs -> JobType] /\ NoJob.pc = "none" /\ NoJob.kind = "scan"
      /\ queue = <<>> /\ tokens = {} /\ maint.pc = "asleep"
  BY ZenonT(40) DEF Init, RuntimeInit, GrabInit, Asleep, NoJob, JobType, JobPcs, Kinds
<1>2. JobInv
  BY <1>1, Pcs DEF JobInv, Types, QueueHolds, Serial, OneAtATime, RegistryIsTruthful
<1>3. RefreshOwnsItsRows /\ Sending /\ Noted
  BY ZenonT(40), <1>1 DEF RefreshOwnsItsRows, Refreshing, Sending, Noted
<1>. QED
  BY ZenonT(40), <1>2, <1>3 DEF IInv

LEMMA NextKeeps == IInv /\ [Next]_vars => IInv'
<1> SUFFICES ASSUME IInv, [Next]_vars
             PROVE  IInv'
  BY ZenonT(40)
<1>1. CASE Runtime
  <2>1. Types' /\ Inner
    BY ZenonT(40), <1>1, RuntimeMoves DEF Runtime, IInv
  <2>2. CASE deploy = "watch"
    <3>1. UNCHANGED <<claims, maint, deploy>> /\ maint.pc # "send"
      BY ZenonT(40), <1>1, <2>2 DEF Runtime, Meanwhile, grabVars, IInv, Sending
    <3>. QED
      BY ZenonT(40), <2>1, <3>1, Kept DEF Run
  <2>3. CASE deploy # "watch"
    BY ZenonT(40), <1>1, <2>1, <2>3, Releases DEF Runtime, Meanwhile
  <2>. QED
    BY ZenonT(40), <2>2, <2>3
<1>2. CASE Acquires(RefreshEnds)
  <2>1. PICK j \in Jobs : RefreshReturns(j) \/ RefreshStops(j)
    BY ZenonT(40), <1>2 DEF Acquires, RefreshEnds
  <2>2. /\ job[j].pc = "body" /\ Goto(j, "closing")
        /\ UNCHANGED <<queue, tokens, executor, stop>>
    BY ZenonT(40), <2>1 DEF RefreshReturns, RefreshStops, BodyReturns, InBody
  <2>3. Types' /\ Moved(j)
    BY Zenon, <2>2, InnerMoves DEF IInv, JobInv, Open, UserCode, JobPcs
  <2>. QED
    BY ZenonT(40), <1>2, <2>3, Releases DEF Acquires, RefreshEnds, Inner
<1>3. CASE Watches(WatcherRuns) \/ Watches(Reconfigures) \/ Watches(\E r \in Roots : Touch(r))
  BY Zenon, <1>3, WatcherSteps
<1>4. CASE Acquires(MaintenanceRuns)
  BY ZenonT(40), <1>4, MaintenanceSteps
<1>5. CASE Acquires(Reload)
  BY ZenonT(40), <1>5, Aborts DEF Acquires, Reload
<1>6. CASE Acquires(RefreshWorks) \/ Acquires(BridgeFails) \/ Acquires(RequestRuns)
  <2>1. /\ UNCHANGED deploy
        /\ RefreshWorks \/ BridgeFails \/ RequestRuns
    BY ZenonT(40), <1>6 DEF Acquires
  <2>2. UNCHANGED <<job, queue, tokens, executor, stop, claims, maint>>
    <3>1. CASE RefreshWorks
      BY ZenonT(40), <3>1 DEF RefreshWorks, Visit, Adopt, Ask, Apply, Stage, runtimeVars
    <3>2. CASE BridgeFails
      BY ZenonT(40), <3>2 DEF BridgeFails, FaultOnly
    <3>3. CASE RequestRuns
      BY Zenon, <3>3 DEF RequestRuns, InsertRow, Post, SaveGrab, FaultOnly, runtimeVars
    <3>. QED
      BY ZenonT(40), <2>1, <3>1, <3>2, <3>3
  <2>. QED
    BY ZenonT(40), <2>1, <2>2, Quiet
<1>7. CASE \/ Acquires(\E a \in Grabs : CheckActive(a))
           \/ Acquires(\E a \in Grabs : ComesDue(a))
           \/ Acquires(\E b \in Fetches : BridgeMoves(b))
  <2>1. UNCHANGED <<job, queue, tokens, executor, stop, claims, maint, deploy>>
    BY ZenonT(40), <1>7 DEF Acquires, CheckActive, ComesDue, BridgeMoves, runtimeVars
  <2>. QED
    BY ZenonT(40), <2>1, Quiet
<1>8. CASE ShutdownBegins /\ UNCHANGED deploy
  <2>1. CASE deploy = "watch"
    <3>1. /\ UNCHANGED <<job, queue, tokens, executor, claims, maint, deploy>>
          /\ stop = "none"
      BY ZenonT(40), <1>8, <2>1 DEF ShutdownBegins
    <3>2. Types' /\ Run
      BY ZenonT(40), <3>1 DEF IInv, JobInv, Types, Run, Inner, Rests
    <3>. QED
      BY ZenonT(40), <3>1, <3>2, Kept
  <2>2. CASE deploy # "watch"
    BY ZenonT(40), <1>8, <2>2, Aborts DEF ShutdownBegins
  <2>. QED
    BY ZenonT(40), <2>1, <2>2
<1>9. CASE Restarts /\ UNCHANGED deploy
  <2>1. /\ \A j \in Jobs : job'[j] = NoJob
        /\ job' \in [Jobs -> JobType] /\ NoJob.pc = "none" /\ NoJob.kind = "scan"
        /\ queue' = <<>> /\ tokens' = {} /\ executor' = "idle" /\ maint'.pc = "asleep"
    BY Zenon, <1>9 DEF Restarts, Restart, Asleep, NoJob, JobType, JobPcs, Kinds
  <2>2. Types' /\ Run
    BY <2>1 DEF Types, Run, Fresh
  <2>3. JobInv'
    BY ZenonT(40), <2>2, MoveKeepsJobs DEF IInv, Move
  <2>4. RefreshOwnsItsRows' /\ Sending' /\ Noted'
    BY ZenonT(40), <2>1 DEF RefreshOwnsItsRows, Refreshing, Sending, Noted
  <2>. QED
    BY ZenonT(40), <2>3, <2>4 DEF IInv
<1>10. CASE UNCHANGED vars
  <2>1. UNCHANGED <<job, queue, tokens, executor, stop, claims, maint, deploy>>
    BY ZenonT(40), <1>10 DEF vars, runtimeVars, grabVars
  <2>. QED
    BY ZenonT(40), <2>1, Quiet
<1>. QED
  BY Zenon, <1>1, <1>2, <1>3, <1>4, <1>5, <1>6, <1>7, <1>8, <1>9, <1>10 DEF Next

LEMMA Invariant == Spec => []IInv
BY InitHolds, NextKeeps, PTL DEF Spec

\* Both executors run one job at a time, whatever the number of jobs and
\* through failed starts, panics, shutdowns and restarts.
THEOREM RunsSerially == Spec => []OneAtATime
<1>1. IInv => OneAtATime
  BY ZenonT(40) DEF IInv, JobInv, Serial
<1>. QED
  BY <1>1, Invariant, PTL

\* The registry that cancel_job and cancel_all look in has a token for a job
\* exactly while the job has its JobContext.
THEOREM RegistryHolds == Spec => []RegistryIsTruthful
<1>1. IInv => RegistryIsTruthful
  BY ZenonT(40) DEF IInv, JobInv
<1>. QED
  BY <1>1, Invariant, PTL

\* RefreshClaims works: no row is in two refresh jobs, and the rows of a
\* queued or running one are claimed.
THEOREM RefreshIsExclusive == Spec => []RefreshOwnsItsRows
<1>1. IInv => RefreshOwnsItsRows
  BY ZenonT(40) DEF IInv
<1>. QED
  BY <1>1, Invariant, PTL

-------------------------------------------------------------------------------
\* A row of the job table that says Running has its job, but for the kinds that
\* never write it again.
HasItsJob(j) == job[j].pc \in InFlight \ {"closing"} \/ job[j].kind \in Direct

Ledger ==
  /\ faults \in Nat /\ rows \subseteq Jobs
  /\ \A j \in Jobs : job[j].pc = "body" => job[j].kind \in Direct
  /\ faults = 0 /\ stop # "done" => \A j \in rows : HasItsJob(j)

-------------------------------------------------------------------------------
(* What a step does to the jobs, to their rows and to the counts. *)

Uncounted == UNCHANGED <<queued, running>>

\* A fault is counted, and what has stopped stays so.
Goes == faults' = faults /\ (stop = "done" => stop' = "done")
Fails == faults' = faults + 1

Stays == job' = job /\ rows' \subseteq rows /\ Uncounted /\ (Goes \/ Fails)

\* A job is submitted.
Submits(j) ==
  /\ job[j].pc = "none" /\ job'[j].pc = "counted" /\ job'[j].kind \in Kinds
  /\ job'[j].left = 0
  /\ Others(j) /\ rows' = rows \ {j}
  /\ queued' = Increment(queued, job'[j].kind) /\ running' = running
  /\ Goes

\* It is sent, taken, or given its row; or it is lost with the loop.
Waits(j) ==
  /\ job[j].pc \in Waiting /\ job'[j].pc \in Waiting \cup {"lost"}
  /\ Same(j) /\ Others(j) /\ job'[j].left = job[j].left
  /\ \/ rows' = rows
     \/ rows' = rows \cup {j} /\ job'[j].pc = "starting"
  /\ job'[j].pc \in InFlight \/ job[j].pc \notin InFlight
  /\ Uncounted /\ (Goes \/ Fails)

\* It gets its context.
Opens(j) ==
  /\ job[j].pc = "starting"
  /\ job'[j].pc = IF job[j].kind \in Direct THEN "body" ELSE "init"
  /\ Same(j) /\ Others(j) /\ job'[j].left = job[j].left
  /\ rows' = rows
  /\ queued' = Decrement(queued, job[j].kind)
  /\ running' = Increment(running, job[j].kind)
  /\ Goes

\* Its code returns, or its end is recorded.
Works(j) ==
  /\ job[j].pc \in Open /\ job'[j].pc \in Open \ {"body"}
  /\ Same(j) /\ Others(j) /\ job'[j].left \in {job[j].left} \cup 0..MaxTasks
  /\ rows' \subseteq rows
  /\ \/ Fails
     \/ Goes /\ (job'[j].pc # "closing" \/ j \notin rows' \/ job[j].pc = "body")
  /\ Uncounted

\* It is over, or refused.
Ends(j) ==
  /\ job[j].pc \in {"counted", "opening", "closing"}
  /\ job'[j].pc = "none" /\ Others(j) /\ job'[j].left = 0
  /\ j \in rows => job'[j].kind = job[j].kind
  /\ rows' = rows
  /\ IF job[j].pc = "closing"
     THEN queued' = queued /\ running' = Decrement(running, job[j].kind)
     ELSE queued' = Decrement(queued, job[j].kind) /\ running' = running
  /\ Fails \/ (Goes /\ job[j].pc # "opening")

\* The inline executor ends and takes its queue along.
Loses ==
  /\ \A j \in Jobs : /\ Same(j) /\ job'[j].left = job[j].left
                     /\ \/ job'[j].pc = job[j].pc
                        \/ job[j].pc = "queued" /\ job'[j].pc = "lost"
  /\ rows' = rows /\ Uncounted /\ Goes

\* The executor of Apalis is aborted with its job.
Dies ==
  /\ \A j \in Jobs :
       /\ job[j].pc \in Open => job'[j].pc = "none" /\ job'[j].left = 0
       /\ job[j].pc \notin Open => /\ Same(j) /\ job'[j].left = job[j].left
                                   /\ \/ job'[j].pc = job[j].pc
                                      \/ job[j].pc \in Waiting /\ job'[j].pc = "lost"
  /\ rows' = rows /\ queued' = queued
  /\ running' = [k \in Kinds |-> IF \E j \in Jobs : job[j].pc \in Open /\ job[j].kind = k
                                 THEN Decrement(running, k)[k] ELSE running[k]]
  /\ Goes /\ stop' = "done"

\* The process starts again.
Renews ==
  /\ \A j \in Jobs : job'[j] = NoJob
  /\ queued' = [k \in Kinds |-> 0] /\ running' = [k \in Kinds |-> 0] /\ rows' = {}
  /\ Fails

Effect ==
  \/ Stays \/ Loses \/ Dies \/ Renews
  \/ \E j \in Jobs : Submits(j) \/ Waits(j) \/ Opens(j) \/ Works(j) \/ Ends(j)

LEMMA GotoLeft ==
  ASSUME Types, NEW j \in Jobs, NEW pc, Goto(j, pc)
  PROVE  job'[j].left = job[j].left
BY ZenonT(40) DEF Types, JobType, Goto

LEMMA OverLeft ==
  ASSUME Types, NEW j \in Jobs, IsOver(j)
  PROVE  job'[j].left = 0 /\ (j \in rows => job'[j].kind = job[j].kind)
<1>1. job'[j] = Over(j) /\ job[j].kind \in Kinds
  BY ZenonT(40) DEF Types, JobType, IsOver
<1>2. Over(j).left = 0 /\ (j \in rows => Over(j).kind = job[j].kind)
  BY ZenonT(40), <1>1 DEF Over, NoJob
<1>. QED
  BY ZenonT(40), <1>1, <1>2

LEMMA RuntimeEffects ==
  ASSUME JobInv, RuntimeNext
  PROVE  Effect
<1>0. Types
  BY ZenonT(40) DEF JobInv
<1>1. CASE Take
  <2>1. Head(queue) \in Jobs /\ job[Head(queue)].pc = "queued"
    BY ZenonT(40), <1>1, HeadQueued DEF Take
  <2>2. /\ job'[Head(queue)].pc = "opening" /\ Same(Head(queue)) /\ Others(Head(queue))
        /\ job'[Head(queue)].left = job[Head(queue)].left
    BY ZenonT(40), <1>0, <1>1, <2>1, GotoAt, GotoLeft DEF Take, JobPcs
  <2>3. Waits(Head(queue))
    BY ZenonT(40), <1>1, <2>1, <2>2, Pcs DEF Take, Waits, Waiting, Goes, Uncounted
  <2>. QED
    BY ZenonT(40), <2>1, <2>3 DEF Effect
<1>2. ASSUME QueueDropped
      PROVE  \A j \in Jobs : /\ Same(j) /\ job'[j].left = job[j].left
                             /\ \/ job'[j].pc = job[j].pc
                                \/ job[j].pc = "queued" /\ job'[j].pc = "lost"
  <2> SUFFICES ASSUME NEW j \in Jobs
               PROVE  /\ Same(j) /\ job'[j].left = job[j].left
                      /\ \/ job'[j].pc = job[j].pc
                         \/ job[j].pc = "queued" /\ job'[j].pc = "lost"
    BY ZenonT(40)
  <2>1. job'[j] = job[j] \/ (job[j].pc = "queued" /\ job'[j] = [job[j] EXCEPT !.pc = "lost"])
    BY ZenonT(40), <1>2 DEF QueueDropped
  <2>2. job[j] \in JobType
    BY ZenonT(40), <1>0 DEF Types
  <2>. QED
    BY ZenonT(40), <2>1, <2>2 DEF JobType, Same
<1>3. CASE ExecutorExits
  <2>1. Loses
    BY ZenonT(40), <1>2, <1>3 DEF ExecutorExits, Loses, Goes, Uncounted
  <2>. QED
    BY ZenonT(40), <2>1 DEF Effect
<1>4. ASSUME NEW j \in Jobs, PersistStarted(j)
      PROVE  Effect
  <2>1. CASE Goto(j, "starting") /\ rows' = rows \cup {j} /\ UNCHANGED <<queued, faults>>
    <3>1. job'[j].pc = "starting" /\ Same(j) /\ Others(j) /\ job'[j].left = job[j].left
      BY ZenonT(40), <1>0, <2>1, GotoAt, GotoLeft DEF JobPcs
    <3>2. Waits(j)
      BY Zenon, <1>4, <2>1, <3>1, Pcs DEF PersistStarted, Waits, Waiting, Goes, Uncounted
    <3>. QED
      BY ZenonT(40), <3>2 DEF Effect
  <2>2. CASE IsOver(j) /\ Fault /\ queued' = Decrement(queued, job[j].kind) /\ rows' = rows
    <3>1. /\ job'[j].pc = "none" /\ Others(j) /\ job'[j].left = 0
          /\ j \in rows => job'[j].kind = job[j].kind
      BY ZenonT(40), <1>0, <2>2, OverAt, OverLeft
    <3>2. Ends(j)
      BY Zenon, <1>4, <2>2, <3>1 DEF PersistStarted, Ends, Fault, Fails
    <3>. QED
      BY ZenonT(40), <3>2 DEF Effect
  <2>. QED
    BY ZenonT(40), <1>4, <2>1, <2>2 DEF PersistStarted
<1>5. ASSUME NEW j \in Jobs, Register(j)
      PROVE  Effect
  <2>1. PICK pc \in {"body", "init"} :
          Goto(j, pc) /\ pc = IF job[j].kind \in Direct THEN "body" ELSE "init"
    BY ZenonT(40), <1>5 DEF Register
  <2>2. job'[j].pc = pc /\ Same(j) /\ Others(j) /\ job'[j].left = job[j].left
    BY ZenonT(40), <1>0, <2>1, GotoAt, GotoLeft DEF JobPcs
  <2>3. Opens(j)
    BY Zenon, <1>5, <2>1, <2>2 DEF Register, Opens, Goes
  <2>. QED
    BY ZenonT(40), <2>3 DEF Effect
<1>6. ASSUME NEW j \in Jobs, PersistFinished(j)
      PROVE  Effect
  <2>1. job'[j].pc = "closing" /\ Same(j) /\ Others(j) /\ job'[j].left = job[j].left
    BY ZenonT(40), <1>0, <1>6, GotoAt, GotoLeft DEF PersistFinished, JobPcs
  <2>2. job[j].pc \in Open /\ "closing" \in Open \ {"body"}
    BY ZenonT(40), <1>6 DEF PersistFinished, Open
  <2>3. Works(j)
    BY ZenonT(40), <1>6, <2>1, <2>2 DEF PersistFinished, Works, Goes, Fails, Fault, Uncounted
  <2>. QED
    BY ZenonT(40), <2>3 DEF Effect
<1>7. ASSUME NEW j \in Jobs, Finish(j)
      PROVE  Effect
  <2>1. /\ job'[j].pc = "none" /\ Others(j) /\ job'[j].left = 0
        /\ j \in rows => job'[j].kind = job[j].kind
    BY ZenonT(40), <1>0, <1>7, OverAt, OverLeft DEF Finish
  <2>2. Ends(j)
    BY ZenonT(40), <1>7, <2>1 DEF Finish, Ends, Goes
  <2>. QED
    BY <2>2 DEF Effect
<1>8. ASSUME NEW j \in Jobs, CodeReturns(j)
      PROVE  Effect
  <2>1. /\ Same(j) /\ Others(j)
        /\ job[j].pc \in {"init", "task", "finalize"}
        /\ job'[j].pc \in {"task", "finalize", "ending"}
        /\ job'[j].left \in {job[j].left} \cup 0..MaxTasks
    BY ZenonT(40), <1>0, <1>8, CodeAt
  <2>2. job[j].pc \in Open /\ job'[j].pc \in Open \ {"body"} /\ job'[j].pc # "closing"
    BY ZenonT(40), <2>1 DEF Open, UserCode
  <2>3. Works(j)
    BY ZenonT(40), <1>8, <2>1, <2>2 DEF CodeReturns, Works, Goes, Uncounted
  <2>. QED
    BY <2>3 DEF Effect
<1>9. ASSUME NEW j \in Jobs, Panic(j)
      PROVE  Effect
  <2>1. job'[j].pc = "closing" /\ Same(j) /\ Others(j) /\ job'[j].left = job[j].left
    BY ZenonT(40), <1>0, <1>9, GotoAt, GotoLeft DEF Panic, JobPcs
  <2>2. job[j].pc \in Open /\ "closing" \in Open \ {"body"}
    BY ZenonT(40), <1>9 DEF Panic, Open
  <2>3. Works(j)
    BY ZenonT(40), <1>9, <2>1, <2>2 DEF Panic, Works, Fails, Fault, Uncounted
  <2>. QED
    BY <2>3 DEF Effect
<1>10. ASSUME NEW j \in Jobs, CancelJob(j) \/ DeleteJob(j)
       PROVE  Effect
  BY ZenonT(40), <1>10 DEF CancelJob, DeleteJob, Effect, Stays, Goes, Uncounted
<1>11. CASE StopSignals \/ StopJoins
  BY ZenonT(40), <1>11 DEF StopSignals, StopJoins, Effect, Stays, Goes, Uncounted
<1>12. CASE StopAborts
  <2>1. CASE backend = "inline"
    <3>1. QueueDropped
      BY ZenonT(40), <1>12, <2>1 DEF StopAborts
    <3>2. Loses
      BY ZenonT(40), <1>2, <1>12, <2>1, <3>1 DEF StopAborts, Loses, Goes, Uncounted
    <3>. QED
      BY <3>2 DEF Effect
  <2>2. CASE backend # "inline"
    <3>1. job' = [j \in Jobs |->
                    CASE j \in {i \in Jobs : job[i].pc \in Open} -> Over(j)
                      [] job[j].pc \in {"opening", "starting"} -> [job[j] EXCEPT !.pc = "lost"]
                      [] OTHER -> job[j]]
      BY <1>12, <2>2 DEF StopAborts
    <3>2. ASSUME NEW j \in Jobs
          PROVE  /\ job[j].pc \in Open => job'[j].pc = "none" /\ job'[j].left = 0
                 /\ job[j].pc \notin Open => /\ Same(j) /\ job'[j].left = job[j].left
                                             /\ \/ job'[j].pc = job[j].pc
                                                \/ job[j].pc \in Waiting /\ job'[j].pc = "lost"
      <4>0. job[j] \in JobType
        BY ZenonT(40), <1>0 DEF Types
      <4>1. CASE job[j].pc \in Open
        <5>1. job'[j] = Over(j)
          BY ZenonT(40), <3>1, <4>1, Pcs
        <5>. QED
          BY <4>1, <5>1 DEF Over, NoJob
      <4>2. CASE job[j].pc \in {"opening", "starting"}
        <5>1. job'[j] = [job[j] EXCEPT !.pc = "lost"] /\ job[j].pc \notin Open
          BY ZenonT(40), <3>1, <4>2, Pcs
        <5>. QED
          BY ZenonT(40), <4>0, <4>2, <5>1 DEF JobType, Same, Waiting
      <4>3. CASE job[j].pc \notin Open /\ job[j].pc \notin {"opening", "starting"}
        <5>1. job'[j] = job[j]
          BY ZenonT(40), <3>1, <4>3
        <5>. QED
          BY Zenon, <4>3, <5>1 DEF Same
      <4>. QED
        BY ZenonT(40), <4>1, <4>2, <4>3
    <3>3. running' = [k \in Kinds |-> IF \E j \in Jobs : job[j].pc \in Open /\ job[j].kind = k
                                      THEN Decrement(running, k)[k] ELSE running[k]]
      BY ZenonT(40), <1>12, <2>2 DEF StopAborts
    <3>4. Dies
      BY ZenonT(40), <1>12, <3>2, <3>3 DEF StopAborts, Dies, Goes
    <3>. QED
      BY ZenonT(40), <3>4 DEF Effect
  <2>. QED
    BY ZenonT(40), <2>1, <2>2
<1>. QED
  BY ZenonT(40), <1>1, <1>3, <1>4, <1>5, <1>6, <1>7, <1>8, <1>9, <1>10, <1>11, <1>12
  DEF RuntimeNext, RunsItself, Stops

LEMMA SendEffects ==
  ASSUME Types, NEW j \in Jobs
  PROVE  Send(j) \/ SendRefused(j) => Effect
<1>1. ASSUME Send(j)
      PROVE  Effect
  <2>1. job'[j].pc = "queued" /\ Same(j) /\ Others(j) /\ job'[j].left = job[j].left
    BY ZenonT(40), <1>1, GotoAt, GotoLeft DEF Send, JobPcs
  <2>2. Waits(j)
    BY Zenon, <1>1, <2>1, Pcs DEF Send, Waits, Waiting, Goes, Uncounted
  <2>. QED
    BY <2>2 DEF Effect
<1>2. ASSUME SendRefused(j)
      PROVE  Effect
  <2>1. /\ job'[j].pc = "none" /\ Others(j) /\ job'[j].left = 0
        /\ j \in rows => job'[j].kind = job[j].kind
    BY ZenonT(40), <1>2, OverAt, OverLeft DEF SendRefused
  <2>2. Ends(j)
    BY Zenon, <1>2, <2>1 DEF SendRefused, Ends, Goes
  <2>. QED
    BY ZenonT(40), <2>2 DEF Effect
<1>. QED
  BY ZenonT(40), <1>1, <1>2

LEMMA CountEffects ==
  ASSUME Types, NEW j \in Jobs, NEW k \in Kinds, NEW a \in (SUBSET Grabs) \cup Roots,
         Count(j, k, a)
  PROVE  Effect
<1>1. Submitted(j) /\ job'[j].kind = k
  BY Zenon, CountMoves
<1>2. job'[j].left = 0
  BY ZenonT(40) DEF Count, Types, NoJob
<1>3. Submits(j)
  BY ZenonT(40), <1>1, <1>2 DEF Count, Submitted, Submits, Goes
<1>. QED
  BY ZenonT(40), <1>3 DEF Effect

\* The loop is aborted.
LEMMA AbortEffects ==
  ASSUME IInv, AbortLoop, Uncounted, rows' = rows, Goes \/ Fails
  PROVE  Effect
<1>1. CASE job' = job
  BY ZenonT(40), <1>1 DEF Effect, Stays
<1>2. CASE maint.pc = "send" /\ Goto(maint.job, "lost")
  <2>1. maint.job \in Jobs /\ job[maint.job].pc = "counted" /\ Types
    BY ZenonT(40), <1>2 DEF IInv, JobInv, Sending
  <2>2. /\ job'[maint.job].pc = "lost" /\ Same(maint.job) /\ Others(maint.job)
        /\ job'[maint.job].left = job[maint.job].left
    BY ZenonT(40), <1>2, <2>1, GotoAt, GotoLeft DEF JobPcs
  <2>3. Waits(maint.job)
    BY ZenonT(40), <2>1, <2>2, Pcs DEF Waits, Waiting
  <2>. QED
    BY ZenonT(40), <2>1, <2>3 DEF Effect
<1>. QED
  BY ZenonT(40), <1>1, <1>2 DEF AbortLoop

LEMMA Effects ==
  ASSUME IInv, [Next]_vars
  PROVE  Effect
<1>0. Types /\ JobInv
  BY ZenonT(40) DEF IInv, JobInv
<1>1. CASE Runtime
  BY ZenonT(40), <1>0, <1>1, RuntimeEffects DEF Runtime
<1>2. CASE Acquires(RefreshEnds)
  <2>1. PICK j \in Jobs : RefreshReturns(j) \/ RefreshStops(j)
    BY <1>2 DEF Acquires, RefreshEnds
  <2>2. /\ job[j].pc = "body" /\ Goto(j, "closing")
        /\ UNCHANGED <<queued, running, rows, stop>> /\ (Fails \/ faults' = faults)
    BY ZenonT(40), <2>1 DEF RefreshReturns, RefreshStops, BodyReturns, InBody, Fault, Fails
  <2>3. job'[j].pc = "closing" /\ Same(j) /\ Others(j) /\ job'[j].left = job[j].left
    BY ZenonT(40), <1>0, <2>2, GotoAt, GotoLeft DEF JobPcs
  <2>4. Works(j)
    BY ZenonT(40), <2>2, <2>3 DEF Works, Goes, Uncounted, Open, UserCode
  <2>. QED
    BY ZenonT(40), <2>4 DEF Effect
<1>3. CASE Watches(WatcherRuns) \/ Watches(Reconfigures) \/ Watches(\E r \in Roots : Touch(r))
  <2>1. ASSUME NEW r \in Roots, NEW j \in Jobs, SubmitScan(r, j)
        PROVE  Effect
    BY ZenonT(40), <1>0, <2>1, CountEffects DEF SubmitScan, Kinds
  <2>2. ASSUME NEW j \in Jobs, ScanSubmitted(j) \/ ScanRefused(j)
        PROVE  Effect
    BY ZenonT(40), <1>0, <2>2, SendEffects DEF ScanSubmitted, ScanRefused
  <2>3. CASE UNCHANGED runtimeVars \/ FaultOnly
    BY ZenonT(40), <2>3 DEF runtimeVars, FaultOnly, Fault, Effect, Stays, Uncounted, Goes, Fails
  <2>4. \/ UNCHANGED runtimeVars \/ FaultOnly
        \/ \E r \in Roots, j \in Jobs : SubmitScan(r, j)
        \/ \E j \in Jobs : ScanSubmitted(j) \/ ScanRefused(j)
    BY Zenon, <1>3 DEF Watches, WatcherRuns, ListenerRuns, Reconfigures, HandleChangedFiles,
                FlushTaskWakes, HandleFlush, ReadRoots, HandleAddWatcher,
                HandleRemoveWatcher, HandleStop, PatchTells, PatchCommits, Touch
  <2>. QED
    BY ZenonT(40), <2>1, <2>2, <2>3, <2>4
<1>4. CASE Acquires(MaintenanceRuns)
  <2>1. CASE Tick \/ QueryNothing
    BY ZenonT(40), <2>1 DEF Tick, QueryNothing, runtimeVars, FaultOnly, Fault, Effect, Stays,
                Uncounted, Goes, Fails
  <2>2. ASSUME NEW j \in Jobs, Query(j)
        PROVE  Effect
    <3>1. DueGrabIds \in (SUBSET Grabs) \cup Roots
      BY ZenonT(40) DEF DueGrabIds
    <3>. QED
      BY ZenonT(40), <1>0, <2>2, <3>1, CountEffects DEF Query, Kinds
  <2>3. CASE Dispatch
    BY ZenonT(40), <1>0, <2>3, SendEffects DEF Dispatch, IInv, Sending
  <2>. QED
    BY ZenonT(40), <1>4, <2>1, <2>2, <2>3 DEF Acquires, MaintenanceRuns
<1>5. CASE Acquires(Reload)
  BY ZenonT(40), <1>5, AbortEffects DEF Acquires, Reload, Fault, Fails, Uncounted
<1>6. CASE \/ Acquires(RefreshWorks) \/ Acquires(BridgeFails) \/ Acquires(RequestRuns)
           \/ Acquires(\E a \in Grabs : CheckActive(a))
           \/ Acquires(\E a \in Grabs : ComesDue(a))
           \/ Acquires(\E b \in Fetches : BridgeMoves(b))
           \/ UNCHANGED vars
  <2>1. UNCHANGED runtimeVars \/ FaultOnly
    <3>1. CASE Acquires(RefreshWorks) \/ Acquires(BridgeFails)
      BY ZenonT(40), <3>1 DEF Acquires, RefreshWorks, Visit, Adopt, Ask, Apply, Stage, BridgeFails
    <3>2. CASE Acquires(RequestRuns)
      BY ZenonT(40), <3>2 DEF Acquires, RequestRuns, InsertRow, Post, SaveGrab
    <3>3. CASE \/ Acquires(\E a \in Grabs : CheckActive(a))
               \/ Acquires(\E a \in Grabs : ComesDue(a))
               \/ Acquires(\E b \in Fetches : BridgeMoves(b))
               \/ UNCHANGED vars
      BY ZenonT(40), <3>3 DEF Acquires, CheckActive, ComesDue, BridgeMoves, vars
    <3>. QED
      BY ZenonT(40), <1>6, <3>1, <3>2, <3>3
  <2>. QED
    BY ZenonT(40), <2>1 DEF runtimeVars, FaultOnly, Fault, Effect, Stays, Uncounted, Goes, Fails
<1>7. CASE ShutdownBegins /\ UNCHANGED deploy
  <2>1. CASE deploy = "watch"
    BY ZenonT(40), <1>7, <2>1 DEF ShutdownBegins, Effect, Stays, Uncounted, Goes
  <2>2. CASE deploy # "watch"
    BY ZenonT(40), <1>7, <2>2, AbortEffects DEF ShutdownBegins, Uncounted, Goes
  <2>. QED
    BY ZenonT(40), <2>1, <2>2
<1>8. CASE Restarts /\ UNCHANGED deploy
  BY ZenonT(40), <1>8 DEF Restarts, Restart, Fault, Effect, Renews, Fails
<1>. QED
  BY Zenon, <1>1, <1>2, <1>3, <1>4, <1>5, <1>6, <1>7, <1>8 DEF Next

-------------------------------------------------------------------------------
(* The rows of the job table. *)

LEMMA LedgerStep ==
  ASSUME Types, Ledger, Effect
  PROVE  Ledger'
<1>0. /\ faults' \in Nat /\ (faults' = 0 => faults = 0 /\ Goes)
      /\ \A j \in Jobs : job[j].pc = "body" => job[j].kind \in Direct
      /\ rows \subseteq Jobs
  <2>1. faults \in Nat /\ (Goes \/ Fails)
    BY ZenonT(40) DEF Ledger, Effect, Stays, Submits, Waits, Opens, Works, Ends, Loses, Dies, Renews
  <2>. QED
    BY <2>1 DEF Goes, Fails, Ledger
<1>1. rows' \subseteq Jobs
  BY Zenon, <1>0 DEF Effect, Stays, Submits, Waits, Opens, Works, Ends, Loses, Dies, Renews
<1>2. ASSUME NEW i \in Jobs, job'[i].pc = "body"
      PROVE  job'[i].kind \in Direct
  <2>1. CASE Stays \/ Loses \/ Dies \/ Renews
    BY <1>0, <1>2, <2>1 DEF Stays, Loses, Dies, Renews, NoJob, Same
  <2>2. ASSUME NEW j \in Jobs, Submits(j) \/ Waits(j) \/ Opens(j) \/ Works(j) \/ Ends(j)
        PROVE  job'[i].kind \in Direct
    BY Zenon, <1>0, <1>2, <2>2 DEF Submits, Waits, Waiting, Opens, Works, Ends, Others, Same
  <2>. QED
    BY ZenonT(40), <2>1, <2>2 DEF Effect
<1>3. ASSUME faults' = 0, stop' # "done", NEW i \in rows'
      PROVE  HasItsJob(i)'
  <2>0. stop # "done" /\ (i \in rows => HasItsJob(i)) /\ i \in Jobs /\ ~Fails
    BY <1>0, <1>1, <1>3 DEF Ledger, Goes, Fails
  <2>1. CASE Stays
    BY ZenonT(40), <2>0, <2>1, <1>3 DEF Stays, HasItsJob
  <2>2. CASE Loses
    BY ZenonT(40), <2>0, <2>2, <1>3, Pcs DEF Loses, Same, HasItsJob
  <2>3. CASE Dies \/ Renews
    BY ZenonT(40), <2>0, <2>3, <1>3 DEF Dies, Renews
  <2>4. ASSUME NEW j \in Jobs, Submits(j)
        PROVE  HasItsJob(i)'
    BY ZenonT(40), <2>0, <2>4, <1>3 DEF Submits, Others, HasItsJob
  <2>5. ASSUME NEW j \in Jobs, Waits(j)
        PROVE  HasItsJob(i)'
    <3>1. CASE i # j
      BY ZenonT(40), <2>0, <2>5, <3>1, <1>3 DEF Waits, Others, HasItsJob
    <3>2. CASE i = j /\ job'[j].pc \in InFlight
      BY ZenonT(40), <2>5, <3>2 DEF Waits, Waiting, HasItsJob
    <3>3. CASE i = j /\ job'[j].pc \notin InFlight
      BY ZenonT(40), <2>0, <2>5, <3>3, <1>3, Pcs DEF Waits, Same, HasItsJob
    <3>. QED
      BY ZenonT(40), <3>1, <3>2, <3>3
  <2>6. ASSUME NEW j \in Jobs, Opens(j)
        PROVE  HasItsJob(i)'
    BY ZenonT(40), <2>0, <2>6, <1>3, Pcs DEF Opens, Others, HasItsJob
  <2>7. ASSUME NEW j \in Jobs, Works(j)
        PROVE  HasItsJob(i)'
    <3>1. CASE i # j
      BY ZenonT(40), <2>0, <2>7, <3>1, <1>3 DEF Works, Others, HasItsJob
    <3>2. CASE i = j
      BY ZenonT(40), <1>0, <2>0, <2>7, <3>2, <1>3, Pcs DEF Works, Same, HasItsJob
    <3>. QED
      BY ZenonT(40), <3>1, <3>2
  <2>8. ASSUME NEW j \in Jobs, Ends(j)
        PROVE  HasItsJob(i)'
    <3>1. CASE i # j
      BY ZenonT(40), <2>0, <2>8, <3>1, <1>3 DEF Ends, Others, HasItsJob
    <3>2. CASE i = j
      BY ZenonT(40), <2>0, <2>8, <3>2, <1>3, Pcs DEF Ends, HasItsJob
    <3>. QED
      BY <3>1, <3>2
  <2>. QED
    BY ZenonT(40), <2>1, <2>2, <2>3, <2>4, <2>5, <2>6, <2>7, <2>8 DEF Effect
<1>. QED
  BY ZenonT(40), <1>0, <1>1, <1>2, <1>3 DEF Ledger

-------------------------------------------------------------------------------

LEMMA LedgerInit == Init => Ledger
<1> SUFFICES ASSUME Init
             PROVE  Ledger
  OBVIOUS
<1>1. (\A j \in Jobs : job[j].pc = "none") /\ rows = {} /\ faults = 0
  BY Zenon DEF Init, RuntimeInit, NoJob
<1>. QED
  BY ZenonT(40), <1>1 DEF Ledger

LEMMA LedgerKept == IInv /\ Ledger /\ [Next]_vars => Ledger'
<1> SUFFICES ASSUME IInv, Ledger, [Next]_vars
             PROVE  Ledger'
  BY ZenonT(40)
<1>1. Effect /\ Types /\ OneAtATime
  BY ZenonT(40), Effects DEF IInv, JobInv, Serial
<1>. QED
  BY ZenonT(40), <1>1, LedgerStep

LEMMA LedgerHolds == Spec => []Ledger
BY Invariant, LedgerInit, LedgerKept, PTL DEF Spec

\* Without a database error or a panic, a row of the job table says Running
\* only while its job is in flight, for any number of jobs.
THEOREM RunningIsInFlight == Spec => []RunningHasItsJob
<1>1. Ledger => RunningHasItsJob
  BY ZenonT(40) DEF Ledger, HasItsJob, RunningHasItsJob
<1>. QED
  BY <1>1, LedgerHolds, PTL

-------------------------------------------------------------------------------
(* The flags of the runtime. *)

Control ==
  /\ backend \in {"inline", "apalis"} /\ deploy \in {"watch", "acquire"}
  /\ tokens \subseteq Jobs /\ cancelled \subseteq Jobs
  /\ executor \in {"idle", "busy", "gone"}
  /\ stop \in {"none", "begun", "waiting", "done"}
  /\ shutdown => stop \in {"waiting", "done"}

controls == <<backend, tokens, cancelled, executor, stop, shutdown>>

LEMMA RuntimeControls ==
  ASSUME Control, RuntimeNext, UNCHANGED deploy
  PROVE  Control'
<1>1. CASE Take \/ ExecutorExits
  BY <1>1 DEF Take, ExecutorExits, Control
<1>2. ASSUME NEW j \in Jobs, PersistStarted(j) \/ Register(j) \/ PersistFinished(j) \/ Finish(j)
      PROVE  Control'
  BY <1>2 DEF PersistStarted, Register, PersistFinished, Finish, Released, Control
<1>3. CASE Stops
  BY ZenonT(40), <1>3 DEF Stops, StopSignals, StopJoins, StopAborts, Control
<1>4. ASSUME NEW j \in Jobs, CodeReturns(j) \/ Panic(j) \/ CancelJob(j) \/ DeleteJob(j)
      PROVE  Control'
  BY <1>4 DEF CodeReturns, Panic, CancelJob, DeleteJob, Control
<1>. QED
  BY ZenonT(40), <1>1, <1>2, <1>3, <1>4 DEF RuntimeNext, RunsItself

\* Outside the runtime nothing touches them but the server's shutdown and a
\* restart.
LEMMA OutsideControls ==
  ASSUME [Next]_vars, ~Runtime, ~ShutdownBegins, ~Restarts
  PROVE  UNCHANGED <<controls, deploy>>
<1>1. CASE Watches(WatcherRuns)
  <2>1. CASE HandleChangedFiles \/ HandleFlush \/ ReadRoots \/ HandleStop \/ FlushTaskWakes
    BY ZenonT(40), <1>1, <2>1 DEF Watches, HandleChangedFiles, HandleFlush, ReadRoots, HandleStop,
                      FlushTaskWakes, FaultOnly, runtimeVars, controls
  <2>2. CASE HandleAddWatcher \/ HandleRemoveWatcher
    BY Zenon, <1>1, <2>2 DEF Watches, HandleAddWatcher, HandleRemoveWatcher, FaultOnly,
                      runtimeVars, controls
  <2>3. ASSUME NEW r \in Roots, NEW j \in Jobs, SubmitScan(r, j)
        PROVE  UNCHANGED <<controls, deploy>>
    BY ZenonT(40), <1>1, <2>3 DEF Watches, SubmitScan, Count, controls
  <2>4. ASSUME NEW j \in Jobs, ScanSubmitted(j) \/ ScanRefused(j)
        PROVE  UNCHANGED <<controls, deploy>>
    BY ZenonT(40), <1>1, <2>4 DEF Watches, ScanSubmitted, ScanRefused, Send, SendRefused, controls
  <2>. QED
    BY ZenonT(40), <1>1, <2>1, <2>2, <2>3, <2>4 DEF Watches, WatcherRuns, ListenerRuns
<1>2. CASE Watches(Reconfigures) \/ Watches(\E r \in Roots : Touch(r))
  BY ZenonT(40), <1>2 DEF Watches, Reconfigures, PatchTells, PatchCommits, Touch, runtimeVars,
     controls
<1>3. CASE Acquires(MaintenanceRuns)
  BY ZenonT(40), <1>3 DEF Acquires, MaintenanceRuns, Tick, QueryNothing, Dispatch, Query, Count,
              Send, SendRefused, FaultOnly, runtimeVars, controls
<1>4. CASE Acquires(Reload)
  BY ZenonT(40), <1>4 DEF Acquires, Reload, controls
<1>5. CASE Acquires(RefreshWorks) \/ Acquires(BridgeFails)
  BY ZenonT(40), <1>5 DEF Acquires, RefreshWorks, Visit, Adopt, Ask, Apply, Stage, BridgeFails,
              FaultOnly, runtimeVars, controls
<1>6. CASE Acquires(RefreshEnds)
  BY ZenonT(40), <1>6 DEF Acquires, RefreshEnds, RefreshReturns, RefreshStops, BodyReturns, controls
<1>7. CASE Acquires(RequestRuns)
  BY ZenonT(40), <1>7 DEF Acquires, RequestRuns, InsertRow, Post, SaveGrab, FaultOnly, runtimeVars,
              controls
<1>8. CASE \/ Acquires(\E a \in Grabs : CheckActive(a))
           \/ Acquires(\E a \in Grabs : ComesDue(a))
           \/ Acquires(\E b \in Fetches : BridgeMoves(b))
  BY ZenonT(40), <1>8 DEF Acquires, CheckActive, ComesDue, BridgeMoves, runtimeVars, controls
<1>9. CASE UNCHANGED vars
  BY ZenonT(40), <1>9 DEF vars, runtimeVars, controls
<1>. QED
  BY Zenon, <1>1, <1>2, <1>3, <1>4, <1>5, <1>6, <1>7, <1>8, <1>9 DEF Next

LEMMA ControlInit == Init => Control
BY ZenonT(40) DEF Init, RuntimeInit, Control

LEMMA ControlKept == Control /\ [Next]_vars => Control'
<1> SUFFICES ASSUME Control, [Next]_vars
             PROVE  Control'
  OBVIOUS
<1>1. CASE Runtime
  BY ZenonT(40), <1>1, RuntimeControls DEF Runtime, Meanwhile
<1>2. CASE ShutdownBegins
  <2>1. UNCHANGED deploy
    BY ZenonT(40), <1>2 DEF ShutdownBegins, Next, Runtime, Meanwhile, Watches, Acquires, vars
  <2>. QED
    BY ZenonT(40), <1>2, <2>1 DEF ShutdownBegins, Control
<1>3. CASE Restarts
  <2>1. UNCHANGED deploy
    BY ZenonT(40), <1>3 DEF Next, Runtime, Meanwhile, Watches, Acquires, vars
  <2>. QED
    BY ZenonT(40), <1>3, <2>1 DEF Restarts, Restart, Control
<1>4. CASE ~Runtime /\ ~ShutdownBegins /\ ~Restarts
  BY <1>4, OutsideControls DEF controls, Control
<1>. QED
  BY ZenonT(40), <1>1, <1>2, <1>3, <1>4
-------------------------------------------------------------------------------
(* The claims. *)

\* A claim is some refresh job's, as long as nothing has failed.
Held ==
  /\ claims \subseteq Grabs
  /\ deploy = "watch" => claims = {}
  /\ faults = 0 /\ stop = "none" => \A a \in claims : \E j \in Refreshing : a \in job[j].arg

\* As long as nothing fails or stops, a queued refresh job goes on until its
\* body ends.
LEMMA RefreshGoesOn ==
  ASSUME IInv, Ledger, Control, RuntimeNext, faults' = 0, stop' = "none", NEW j \in Refreshing,
         InBody(j) => job'[j].pc = "body"
  PROVE  j \in Refreshing' /\ job'[j].arg = job[j].arg
<1>0. /\ Types /\ faults \in Nat /\ j \in Jobs
      /\ job[j].kind = "refresh" /\ job[j].pc \in Waiting \cup {"body"}
  BY ZenonT(40) DEF IInv, JobInv, Ledger, Refreshing
<1>1. ~Fault
  BY <1>0 DEF Fault
<1>2. ASSUME NEW i \in Jobs, Others(i), i # j
      PROVE  j \in Refreshing' /\ job'[j].arg = job[j].arg
  BY ZenonT(40), <1>0, <1>2 DEF Others, Refreshing
<1>3. ASSUME NEW pc \in Waiting \cup {"body"}, Goto(j, pc)
      PROVE  j \in Refreshing' /\ job'[j].arg = job[j].arg
  <2>1. pc \in JobPcs
    BY DEF Waiting, JobPcs
  <2>. QED
    BY ZenonT(40), <1>0, <1>3, <2>1, GotoAt DEF Same, Refreshing
<1>4. ASSUME NEW i \in Jobs, NEW pc \in JobPcs, Goto(i, pc)
      PROVE  Others(i)
  BY ZenonT(40), <1>0, <1>4, GotoAt
<1>5. CASE Take
  <2>1. Head(queue) \in Jobs /\ Goto(Head(queue), "opening")
    BY ZenonT(40), <1>5, HeadQueued DEF Take, IInv
  <2>. QED
    BY ZenonT(40), <1>2, <1>3, <1>4, <2>1 DEF Waiting, JobPcs
<1>6. CASE ExecutorExits \/ Stops
  BY ZenonT(40), <1>6 DEF ExecutorExits, Stops, StopSignals, StopJoins, StopAborts, Control
<1>7. ASSUME NEW i \in Jobs, PersistStarted(i)
      PROVE  j \in Refreshing' /\ job'[j].arg = job[j].arg
  <2>1. Goto(i, "starting")
    BY ZenonT(40), <1>1, <1>7 DEF PersistStarted
  <2>. QED
    BY ZenonT(40), <1>2, <1>3, <1>4, <2>1 DEF Waiting, JobPcs
<1>8. ASSUME NEW i \in Jobs, Register(i)
      PROVE  j \in Refreshing' /\ job'[j].arg = job[j].arg
  <2>1. CASE i = j
    <3>1. Goto(j, "body")
      BY ZenonT(40), <1>0, <1>8, <2>1 DEF Register, Direct
    <3>. QED
      BY ZenonT(40), <1>3, <3>1
  <2>2. CASE i # j
    <3>1. PICK pc \in {"body", "init"} : Goto(i, pc)
      BY ZenonT(40), <1>8 DEF Register
    <3>. QED
      BY ZenonT(40), <1>2, <1>4, <2>2, <3>1 DEF JobPcs
  <2>. QED
    BY ZenonT(40), <2>1, <2>2
<1>9. ASSUME NEW i \in Jobs, PersistFinished(i)
      PROVE  j \in Refreshing' /\ job'[j].arg = job[j].arg
  <2>1. Goto(i, "closing") /\ i # j
    BY ZenonT(40), <1>0, <1>9 DEF PersistFinished, Waiting
  <2>. QED
    BY Zenon, <1>2, <1>4, <2>1 DEF JobPcs
<1>10. ASSUME NEW i \in Jobs, Finish(i)
       PROVE  j \in Refreshing' /\ job'[j].arg = job[j].arg
  <2>1. IsOver(i) /\ i # j
    BY ZenonT(40), <1>0, <1>10 DEF Finish, Waiting
  <2>2. Others(i)
    BY ZenonT(40), <1>0, <2>1, OverAt
  <2>. QED
    BY ZenonT(40), <1>2, <2>1, <2>2
<1>11. ASSUME NEW i \in Jobs, CodeReturns(i)
       PROVE  j \in Refreshing' /\ job'[j].arg = job[j].arg
  <2>1. Others(i) /\ i # j
    BY ZenonT(40), <1>0, <1>11, CodeAt DEF Waiting
  <2>. QED
    BY ZenonT(40), <1>2, <2>1
<1>12. ASSUME NEW i \in Jobs, CancelJob(i) \/ DeleteJob(i)
       PROVE  j \in Refreshing' /\ job'[j].arg = job[j].arg
  BY ZenonT(40), <1>12 DEF CancelJob, DeleteJob, Refreshing
<1>. QED
  BY ZenonT(40), <1>1, <1>5, <1>6, <1>7, <1>8, <1>9, <1>10, <1>11, <1>12 DEF RuntimeNext,
     RunsItself, Panic

\* A step that neither makes nor ends a refresh job.
LEMMA HeldSame ==
  ASSUME Held, Ledger, claims' = claims, UNCHANGED <<job, stop, deploy>>, Goes \/ Fails
  PROVE  Held'
<1>1. faults' = 0 => faults = 0
  BY DEF Goes, Fails, Ledger
<1>. QED
  BY ZenonT(40), <1>1 DEF Held, Refreshing

LEMMA HeldByRuntime ==
  ASSUME IInv, Ledger, Control, Held, RuntimeNext \/ RefreshEnds, RefreshMeanwhile,
         UNCHANGED deploy
  PROVE  Held'
<1>1. claims' = claims \ UNION {job[j].arg : j \in {i \in Jobs : InBody(i) /\ job'[i].pc # "body"}}
  BY ZenonT(40) DEF RefreshMeanwhile, ReleaseClaims
<1>2. claims' \subseteq claims
  BY ZenonT(40), <1>1
<1>3. ASSUME faults' = 0, stop' = "none", NEW a \in claims'
      PROVE  \E j \in Refreshing' : a \in job'[j].arg
  <2>1. \A j \in Jobs : a \in job[j].arg => (InBody(j) => job'[j].pc = "body")
    BY ZenonT(40), <1>1, <1>3
  <2>2. CASE RuntimeNext
    <3>1. faults = 0 /\ stop = "none"
      <4>1. RuntimeNext => faults' = faults \/ Fault
        BY ZenonT(40) DEF RuntimeNext, RunsItself, Stops, Take, ExecutorExits, PersistStarted,
           Register,
               PersistFinished, Finish, StopSignals, StopJoins, StopAborts, CodeReturns, Panic,
               CancelJob, DeleteJob
      <4>2. RuntimeNext => stop' = stop \/ stop' \in {"waiting", "done"}
        BY ZenonT(40) DEF RuntimeNext, RunsItself, Stops, Take, ExecutorExits, PersistStarted,
           Register,
               PersistFinished, Finish, StopSignals, StopJoins, StopAborts, CodeReturns, Panic,
               CancelJob, DeleteJob
      <4>. QED
        BY <1>3, <2>2, <4>1, <4>2 DEF Fault, Ledger
    <3>2. PICK j \in Refreshing : a \in job[j].arg
      BY ZenonT(40), <1>2, <1>3, <3>1 DEF Held
    <3>3. InBody(j) => job'[j].pc = "body"
      BY ZenonT(40), <2>1, <3>2 DEF Refreshing
    <3>4. j \in Refreshing' /\ job'[j].arg = job[j].arg
      BY ZenonT(40), <1>3, <2>2, <3>3, RefreshGoesOn
    <3>. QED
      BY ZenonT(40), <3>2, <3>4
  <2>3. CASE RefreshEnds
    <3>1. PICK i \in Jobs : RefreshReturns(i) \/ RefreshStops(i)
      BY ZenonT(40), <2>3 DEF RefreshEnds
    <3>2. InBody(i) /\ Goto(i, "closing") /\ stop' = stop /\ (faults' = faults \/ Fault)
      BY ZenonT(40), <3>1 DEF RefreshReturns, RefreshStops, BodyReturns
    <3>3. faults = 0 /\ stop = "none"
      BY <1>3, <3>2 DEF Fault, Ledger
    <3>4. PICK j \in Refreshing : a \in job[j].arg
      BY ZenonT(40), <1>2, <1>3, <3>3 DEF Held
    <3>5. job'[i].pc = "closing" /\ Others(i)
      BY ZenonT(40), <3>2, GotoAt DEF IInv, JobInv, JobPcs
    <3>6. j # i /\ j \in Jobs
      BY ZenonT(40), <2>1, <3>2, <3>4, <3>5 DEF Refreshing
    <3>. QED
      BY ZenonT(40), <3>4, <3>5, <3>6 DEF Others, Refreshing
  <2>. QED
    BY ZenonT(40), <2>2, <2>3
<1>. QED
  BY ZenonT(40), <1>2, <1>3 DEF Held

LEMMA HeldByLoop ==
  ASSUME IInv, Ledger, Held, Acquires(MaintenanceRuns)
  PROVE  Held'
<1>0. Types /\ deploy' = "acquire"
  BY ZenonT(40) DEF Acquires, IInv, JobInv
<1>1. CASE Tick \/ QueryNothing
  <2>1. UNCHANGED <<job, stop, claims>> /\ (Goes \/ Fails)
    BY ZenonT(40), <1>1 DEF Tick, QueryNothing, FaultOnly, Fault, runtimeVars, Goes, Fails
  <2>. QED
    BY ZenonT(40), <2>1, HeldSame DEF Acquires
<1>2. ASSUME NEW j \in Jobs, Query(j)
      PROVE  Held'
  <2>1. DueGrabIds \in (SUBSET Grabs) \cup Roots /\ DueGrabIds \subseteq Grabs
    BY ZenonT(40) DEF DueGrabIds
  <2>2. /\ Submitted(j) /\ job'[j].kind = "refresh" /\ job'[j].arg = DueGrabIds
    BY ZenonT(40), <1>0, <1>2, <2>1, CountMoves DEF Query, Kinds
  <2>3. claims' = claims \cup DueGrabIds /\ UNCHANGED <<faults, stop>>
    BY ZenonT(40), <1>2 DEF Query, Count
  <2>4. j \in Refreshing' /\ \A i \in Refreshing : i \in Refreshing' /\ job'[i].arg = job[i].arg
    BY ZenonT(40), <2>2 DEF Refreshing, Submitted, Others, Waiting
  <2>. QED
    BY ZenonT(40), <1>0, <2>1, <2>2, <2>3, <2>4 DEF Held
<1>3. CASE Dispatch
  <2> DEFINE j == maint.job
  <2>1. /\ j \in Jobs /\ job[j].pc = "counted"
        /\ UNCHANGED <<faults, stop>>
    BY ZenonT(40), <1>3 DEF Dispatch, IInv, Sending, Send, SendRefused
  <2>2. CASE Send(j) /\ claims' = claims
    <3>1. Goto(j, "queued")
      BY ZenonT(40), <2>2 DEF Send
    <3>2. job'[j].pc = "queued" /\ Same(j) /\ Others(j)
      BY ZenonT(40), <1>0, <2>1, <3>1, GotoAt DEF JobPcs
    <3>3. \A i \in Refreshing : i \in Refreshing' /\ job'[i].arg = job[i].arg
      BY ZenonT(40), <3>2 DEF Refreshing, Same, Others, Waiting
    <3>. QED
      BY ZenonT(40), <1>0, <2>1, <2>2, <3>3 DEF Held
  <2>3. CASE SendRefused(j) /\ claims' = claims \ job[j].arg
    <3>1. Others(j)
      BY ZenonT(40), <1>0, <2>1, <2>3, OverAt DEF SendRefused
    <3>2. \A i \in Refreshing \ {j} : i \in Refreshing' /\ job'[i].arg = job[i].arg
      BY ZenonT(40), <3>1 DEF Refreshing, Others
    <3>. QED
      BY ZenonT(40), <1>0, <2>1, <2>3, <3>2 DEF Held
  <2>. QED
    BY ZenonT(40), <1>3, <2>2, <2>3 DEF Dispatch
<1>. QED
  BY ZenonT(40), <1>1, <1>2, <1>3 DEF Acquires, MaintenanceRuns

LEMMA HeldInit == Init => Held
BY ZenonT(40) DEF Init, GrabInit, Held

LEMMA HeldKept == IInv /\ Ledger /\ Control /\ Held /\ [Next]_vars => Held'
<1> SUFFICES ASSUME IInv, Ledger, Control, Held, [Next]_vars
             PROVE  Held'
  BY ZenonT(40)
<1>1. ASSUME deploy = "watch", UNCHANGED <<deploy, claims>>
      PROVE  Held'
  BY ZenonT(40), <1>1 DEF Held
<1>2. CASE Runtime
  <2>1. CASE deploy = "watch"
    BY ZenonT(40), <1>1, <1>2, <2>1 DEF Runtime, Meanwhile, grabVars
  <2>2. CASE deploy # "watch"
    BY ZenonT(40), <1>2, <2>2, HeldByRuntime DEF Runtime, Meanwhile
  <2>. QED
    BY ZenonT(40), <2>1, <2>2
<1>3. CASE Watches(WatcherRuns) \/ Watches(Reconfigures) \/ Watches(\E r \in Roots : Touch(r))
  BY ZenonT(40), <1>1, <1>3 DEF Watches, grabVars
<1>4. CASE Acquires(MaintenanceRuns)
  BY ZenonT(40), <1>4, HeldByLoop
<1>5. CASE Acquires(Reload)
  BY <1>5 DEF Acquires, Reload, Fault, Held, Ledger
<1>6. CASE Acquires(RefreshEnds)
  BY ZenonT(40), <1>6, HeldByRuntime DEF Acquires, RefreshEnds
<1>7. CASE Acquires(RefreshWorks) \/ Acquires(BridgeFails) \/ Acquires(RequestRuns)
  <2>1. /\ UNCHANGED deploy
        /\ RefreshWorks \/ BridgeFails \/ RequestRuns
    BY ZenonT(40), <1>7 DEF Acquires
  <2>2. UNCHANGED <<job, stop, claims>> /\ (Goes \/ Fails)
    <3>1. CASE RefreshWorks
      BY ZenonT(40), <3>1 DEF RefreshWorks, Visit, Adopt, Ask, Apply, Stage, runtimeVars, Goes
    <3>2. CASE BridgeFails
      BY ZenonT(40), <3>2 DEF BridgeFails, FaultOnly, Fault, Fails
    <3>3. CASE RequestRuns
      BY ZenonT(40), <3>3 DEF RequestRuns, InsertRow, Post, SaveGrab, FaultOnly, Fault, runtimeVars,
                  Goes, Fails
    <3>. QED
      BY ZenonT(40), <2>1, <3>1, <3>2, <3>3
  <2>. QED
    BY ZenonT(40), <2>1, <2>2, HeldSame
<1>8. CASE \/ Acquires(\E a \in Grabs : CheckActive(a))
           \/ Acquires(\E a \in Grabs : ComesDue(a))
           \/ Acquires(\E b \in Fetches : BridgeMoves(b))
  <2>1. UNCHANGED <<job, stop, claims, deploy>> /\ Goes
    BY ZenonT(40), <1>8 DEF Acquires, CheckActive, ComesDue, BridgeMoves, runtimeVars, Goes
  <2>. QED
    BY ZenonT(40), <2>1, HeldSame
<1>9. CASE ShutdownBegins /\ UNCHANGED deploy
  BY ZenonT(40), <1>9 DEF ShutdownBegins, Held
<1>10. CASE Restarts /\ UNCHANGED deploy
  BY ZenonT(40), <1>10 DEF Restarts, Held
<1>11. CASE UNCHANGED vars
  BY ZenonT(40), <1>11, HeldSame DEF vars, runtimeVars, grabVars, Goes
<1>. QED
  BY Zenon, <1>2, <1>3, <1>4, <1>5, <1>6, <1>7, <1>8, <1>9, <1>10, <1>11 DEF Next

\* No claim leaks: as long as no start fails, no loop is aborted and the server
\* is not stopping, RefreshClaims holds exactly the rows of the refresh jobs
\* that are queued or running, for any number of rows and jobs.
THEOREM ClaimsHeld == Spec => []ClaimsAreHeld
<1>1. Init => Control /\ Held
  BY ZenonT(40), ControlInit, HeldInit
<1>2. IInv /\ Ledger /\ Control /\ Held /\ [Next]_vars => Control' /\ Held'
  BY ZenonT(40), ControlKept, HeldKept
<1>3. IInv /\ Held => ClaimsAreHeld
  BY DEF IInv, Held, RefreshOwnsItsRows, ClaimsAreHeld
<1>. QED
  BY <1>1, <1>2, <1>3, Invariant, LedgerHolds, PTL DEF Spec

-------------------------------------------------------------------------------
(* The tasks a job has left. *)

Lefts == \A j \in Jobs : job[j].left \in 0..MaxTasks

LEMMA LeftsStep ==
  ASSUME Lefts, Effect
  PROVE  Lefts'
<1>0. 0 \in 0..MaxTasks
  BY RuntimeAssumption
<1>1. CASE Stays
  BY ZenonT(40), <1>1 DEF Stays, Lefts
<1>2. ASSUME NEW j \in Jobs, Submits(j) \/ Waits(j) \/ Opens(j) \/ Works(j) \/ Ends(j)
      PROVE  Lefts'
  <2>1. job'[j].left \in {0, job[j].left} \cup 0..MaxTasks /\ Others(j)
    BY ZenonT(40), <1>2 DEF Submits, Waits, Opens, Works, Ends
  <2>. QED
    BY ZenonT(40), <1>0, <2>1 DEF Others, Lefts
<1>3. CASE Loses
  BY ZenonT(40), <1>3 DEF Loses, Lefts
<1>4. CASE Dies
  BY ZenonT(40), <1>0, <1>4 DEF Dies, Lefts
<1>5. CASE Renews
  BY <1>0, <1>5 DEF Renews, NoJob, Lefts
<1>. QED
  BY ZenonT(40), <1>1, <1>2, <1>3, <1>4, <1>5 DEF Effect

LEMMA LeftsHold == Spec => []Lefts
<1>1. Init => Lefts
  BY RuntimeAssumption DEF Init, RuntimeInit, NoJob, Lefts
<1>2. IInv /\ Lefts /\ [Next]_vars => Lefts'
  BY ZenonT(40), Effects, LeftsStep
<1>. QED
  BY <1>1, <1>2, Invariant, PTL DEF Spec

-------------------------------------------------------------------------------
(* The counts are natural numbers: an update adds one or saturates. *)

Numbers == queued \in [Kinds -> Nat] /\ running \in [Kinds -> Nat]

LEMMA NumberMoves ==
  ASSUME NEW count \in [Kinds -> Nat], NEW k
  PROVE  /\ Increment(count, k) \in [Kinds -> Nat] /\ Decrement(count, k) \in [Kinds -> Nat]
         /\ k \in Kinds => Decrement(count, k)[k] \in Nat
<1>1. \A n \in Nat : n + 1 \in Nat /\ (IF n = 0 THEN 0 ELSE n - 1) \in Nat
  OBVIOUS
<1>. QED
  BY ZenonT(40), <1>1 DEF Increment, Decrement

LEMMA NumbersStep ==
  ASSUME Numbers, Effect
  PROVE  Numbers'
<1>1. CASE Stays \/ Loses
  BY ZenonT(40), <1>1 DEF Stays, Loses, Uncounted, Numbers
<1>2. ASSUME NEW j \in Jobs, Submits(j) \/ Waits(j) \/ Opens(j) \/ Works(j) \/ Ends(j)
      PROVE  Numbers'
  <2>1. /\ \/ queued' = queued
           \/ \E k : queued' = Increment(queued, k) \/ queued' = Decrement(queued, k)
        /\ \/ running' = running
           \/ \E k : running' = Increment(running, k) \/ running' = Decrement(running, k)
    BY ZenonT(40), <1>2 DEF Submits, Waits, Opens, Works, Ends, Uncounted
  <2>. QED
    BY ZenonT(40), <2>1, NumberMoves DEF Numbers
<1>3. CASE Dies
  BY ZenonT(40), <1>3, NumberMoves DEF Dies, Numbers
<1>4. CASE Renews
  <2>1. 0 \in Nat
    OBVIOUS
  <2>. QED
    BY ZenonT(40), <1>4, <2>1 DEF Renews, Numbers
<1>. QED
  BY ZenonT(40), <1>1, <1>2, <1>3, <1>4 DEF Effect

LEMMA NumbersHold == Spec => []Numbers
<1>1. Init => Numbers
  BY DEF Init, RuntimeInit, Numbers
<1>2. IInv /\ Numbers /\ [Next]_vars => Numbers'
  BY ZenonT(40), Effects, NumbersStep
<1>. QED
  BY <1>1, <1>2, Invariant, PTL DEF Spec

=============================================================================
