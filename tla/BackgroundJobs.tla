--------------------------- MODULE BackgroundJobs ---------------------------
(* The server's background work: the job runtime with one of its producers, *)
(* the library watcher or the acquisition's maintenance loop, through the   *)
(* shutdown of apps/server/src/http_server.rs and a restart.                *)
EXTENDS LibraryWatcher, GrabRefresh

VARIABLE deploy   \* what this server is set up for: "watch" or "acquire"

vars == <<deploy, runtimeVars, watcherVars, grabVars>>

Init ==
  /\ deploy \in {"watch", "acquire"}
  /\ RuntimeInit /\ GrabInit
  /\ enabled \in IF deploy = "watch" THEN {Roots, {}} ELSE {{}}
  /\ WatcherInit

---------------------------------------------------------------------------
(* cleanup: the watcher is told to stop, the scheduler's loops are aborted, *)
(* and then the runtime is stopped.                                         *)
ShutdownBegins ==
  /\ stop = "none"
  /\ stop' = "begun"
  /\ IF deploy = "watch" THEN Tell(Stop) /\ UNCHANGED <<job, maint>>
     ELSE AbortLoop /\ UNCHANGED channel
  /\ UNCHANGED <<pending, flushTask, fresh, listener, toScan, sending, watched,
                 enabled, patch, dirty, touches, patches>>
  /\ UNCHANGED <<row, fetch, call, claims, visit>>
  /\ UNCHANGED <<backend, queue, queued, running, tokens, cancelled, rows,
                 executor, shutdown, faults>>

(* What is in memory is gone; rows, libraries and the bridge's grabs are not. *)
Restarts ==
  /\ Restart
  /\ UNCHANGED <<row, fetch>>
  /\ WatcherRestarts
  /\ call' = [a \in Grabs |-> [pc |-> "none"]]
  /\ claims' = {} /\ maint' = Asleep /\ visit' = NoVisit

(* A step of the runtime, as the rest of the server sees it. *)
Meanwhile ==
  IF deploy = "watch" THEN WatcherMeanwhile /\ UNCHANGED <<grabVars, deploy>>
  ELSE RefreshMeanwhile /\ UNCHANGED <<watcherVars, deploy>>

Runtime == RuntimeNext /\ Meanwhile

Watches(step) == deploy = "watch" /\ step /\ UNCHANGED <<grabVars, deploy>>
Acquires(step) == deploy = "acquire" /\ step /\ UNCHANGED <<watcherVars, deploy>>

WatcherRuns == ListenerRuns \/ FlushTaskWakes

RefreshEnds == (\E j \in Jobs : RefreshReturns(j) \/ RefreshStops(j)) /\ RefreshMeanwhile

MaintenanceRuns == Tick \/ QueryNothing \/ Dispatch \/ \E j \in Jobs : Query(j)

RequestRuns == \E a \in Grabs : InsertRow(a) \/ Post(a) \/ SaveGrab(a)

Next ==
  \/ Runtime
  \/ Watches(WatcherRuns) \/ Watches(Reconfigures)
  \/ Watches(\E r \in Roots : Touch(r))
  \/ Acquires(MaintenanceRuns) \/ Acquires(Reload)
  \/ Acquires(RefreshWorks) \/ Acquires(RefreshEnds) \/ Acquires(BridgeFails)
  \/ Acquires(RequestRuns) \/ Acquires(\E a \in Grabs : CheckActive(a))
  \/ Acquires(\E a \in Grabs : ComesDue(a))
  \/ Acquires(\E b \in Fetches : BridgeMoves(b))
  \/ (ShutdownBegins \/ Restarts) /\ UNCHANGED deploy

Spec == Init /\ [][Next]_vars

(* Every task of the server that can go on is polled again, the code of a   *)
(* job returns, time passes, and the bridge ends what it has begun.         *)
JobsProceed ==
  (RunsItself \/ \E j \in Jobs : CodeReturns(j) \/ RefreshReturns(j)) /\ Meanwhile

Fairness ==
  /\ WF_vars(JobsProceed)
  /\ WF_vars(Watches(WatcherRuns) \/ Acquires(MaintenanceRuns))
  /\ WF_vars(Acquires(RefreshWorks))
  /\ WF_vars(Acquires(RequestRuns))
  /\ WF_vars(Acquires(\E a \in Grabs : ComesDue(a)))
  /\ WF_vars(Acquires(\E b \in Fetches : BridgeMoves(b)))

FairSpec == Spec /\ Fairness

---------------------------------------------------------------------------

(* Types, and the bound HANDOFF_MAX_ATTEMPTS puts on a row's attempts. *)
TypeOK ==
  /\ backend \in {"inline", "apalis"} /\ deploy \in {"watch", "acquire"}
  /\ \A j \in Jobs : /\ job[j].pc \in JobPcs /\ job[j].kind \in Kinds
                     /\ job[j].left \in 0..MaxTasks
  /\ \A k \in Kinds : queued[k] \in Nat /\ running[k] \in Nat
  /\ tokens \subseteq Jobs /\ cancelled \subseteq Jobs /\ rows \subseteq Jobs
  /\ executor \in {"idle", "busy", "gone"}
  /\ stop \in {"none", "begun", "waiting", "done"}
  /\ pending \subseteq Roots /\ dirty \subseteq Roots /\ watched \subseteq Roots
  /\ claims \subseteq Grabs
  /\ \A a \in Grabs : row[a].attempts \in 0..MaxAttempts

(* JobQueueCounts is what queue_depth says.  Enqueue, dispatch, an error at *)
(* the start, the end of a context and an abort each move a job from one    *)
(* count to the other or out of both, and the counts stay those of the jobs *)
(* that are there.  The one exception is a job lost with its queue, which   *)
(* stays counted as queued for the rest of the process.                     *)
CountsAddUp ==
  \A k \in Kinds :
    /\ queued[k] = Cardinality({j \in Jobs : /\ job[j].kind = k
                                             /\ job[j].pc \in Waiting \union {"lost"}})
    /\ running[k] = Cardinality({j \in Jobs : job[j].kind = k /\ job[j].pc \in Open})

(* Until the runtime has stopped, the registry that cancel_job looks in and *)
(* is_idle goes by has a token for a job exactly while the job has a        *)
(* context, whichever way it ended: success, error, cancellation, panic or  *)
(* abort.                                                                   *)
RegistryIsTruthful ==
  stop # "done" => tokens = {j \in Jobs : job[j].pc \in Open}

(* Both executors run one job at a time, also through a job's panic, a      *)
(* failed start and a shutdown that leaves a job on its blocking thread.    *)
OneAtATime ==
  \A i, j \in Jobs : job[i].pc \in InFlight /\ job[j].pc \in InFlight => i = j

(* Without a database error or a panic, a row of the job table says Running *)
(* only while its job is in flight.  (persist_finished is not called for    *)
(* the kinds in Direct, whose rows stay, and an abort leaves one behind for *)
(* the next start.)                                                         *)
RunningHasItsJob ==
  faults = 0 /\ stop # "done" =>
    \A j \in rows : job[j].pc \in InFlight \/ job[j].kind \in Direct

(* A change the watcher has reported and no scan has covered yet is on its  *)
(* way: in the channel, in the window with a flush to come, in the flush    *)
(* being handled, or in a scan that has not begun.                          *)
NoChangeIsForgotten ==
  \A r \in dirty :
    \/ \E i \in DOMAIN channel : channel[i] = Command("ChangedFiles", r)
    \/ /\ r \in pending
       /\ flushTask = "sleeping" \/ \E i \in DOMAIN channel : channel[i] = Flush
    \/ r \in toScan
    \/ \E j \in Jobs : ScanWaits(j, r)

Refreshing == {j \in Jobs : job[j].kind = "refresh" /\ job[j].pc \in Waiting \union {"body"}}

(* What RefreshClaims is for: a row in a queued or running refresh job is   *)
(* claimed, and in no other job.                                            *)
RefreshOwnsItsRows ==
  \A j \in Refreshing :
    /\ job[j].arg \subseteq claims
    /\ \A i \in Refreshing \ {j} : job[i].arg \intersect job[j].arg = {}

(* ... and, as long as no start fails and no loop is aborted, a claim is    *)
(* released when its job ends: a claim nobody holds hides its row from      *)
(* due_grab_ids until the process ends.                                     *)
ClaimsAreHeld ==
  faults = 0 /\ stop = "none" => claims = UNION {job[j].arg : j \in Refreshing}

(* No two rows follow the same grab of the bridge, whichever of two         *)
(* concurrent requests, lost answers and adoptions made them.               *)
TrackedOnce ==
  \A a, x \in Grabs : row[a].fetch # "none" /\ row[a].fetch = row[x].fetch => a = x

Settled(a) == row[a].phase \notin Active \/ row[a].staged

Leaked(a) == a \in claims /\ \A j \in Refreshing : a \notin job[j].arg

Outstanding == dirty # {} \/ \E a \in Grabs : ~Settled(a) /\ ~Leaked(a)

(* As long as the server runs, every reported change comes to be scanned    *)
(* and every grab ends staged or in error, through restarts and errors.     *)
(* (A leaked claim, see ClaimsAreHeld, holds its row back until a restart.) *)
WorkGetsDone == Outstanding ~> ~Outstanding \/ stop # "none"

=============================================================================
