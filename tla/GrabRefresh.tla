---------------------------- MODULE GrabRefresh ----------------------------
(* Acquisition: core/src/mam_acquisition.rs with the maintenance loop of    *)
(* crates/jobs/src/scheduler.rs and dispatch_due of                         *)
(* core/src/job/services.rs, over the job runtime.                          *)
(*                                                                          *)
(* create_grab makes a row and asks the bridge, an external downloader, to  *)
(* fetch a release; the maintenance loop hands the rows that are due to a   *)
(* refresh job, which follows the bridge and stages what it has fetched.    *)
(* All rows are grabs of one torrent, the case in which they interact.      *)
EXTENDS JobRuntime

CONSTANTS
  Grabs,        \* rows of mam_acquisition_grab
  Fetches,      \* grabs of the bridge
  MaxAttempts   \* HANDOFF_MAX_ATTEMPTS

ASSUME GrabAssumption == MaxAttempts \in Nat \ {0}

VARIABLES
  row,          \* row[a]: the row of a
  fetch,        \* fetch[b]: the bridge's phase for b, "none" if it has none
  call,         \* call[a]: the create_grab request that makes a
  claims,       \* RefreshClaims
  maint,        \* the maintenance loop
  visit         \* the refresh job's place in its batch

grabVars == <<row, fetch, call, claims, maint, visit>>

NoRow == [phase |-> "none", fetch |-> "none", staged |-> FALSE, attempts |-> 0,
          due |-> FALSE]

(* ACTIVE_GRAB_PHASES; "downloading" stands for "queued" too. *)
Active == {"starting", "downloading", "completed"}

Asleep == [pc |-> "asleep"]
NoVisit == [pc |-> "none"]

GrabInit ==
  /\ row = [a \in Grabs |-> NoRow]
  /\ fetch = [b \in Fetches |-> "none"]
  /\ call = [a \in Grabs |-> [pc |-> "none"]]
  /\ claims = {} /\ maint = Asleep /\ visit = NoVisit

(* Every save sets updated_at. *)
Saved(a, r) == row' = [row EXCEPT ![a] = [r EXCEPT !.due = FALSE]]

---------------------------------------------------------------------------
(* create_grab.  The look for an active row and the insert are two steps. *)

Unused == {a \in Grabs : call[a].pc = "none" /\ row[a].phase = "none"}

CheckActive(a) ==
  /\ Alive
  /\ Unused # {} /\ a = CHOOSE x \in Unused : TRUE
  /\ \A x \in Grabs : row[x].phase \notin Active
  /\ call' = [call EXCEPT ![a] = [pc |-> "insert"]]
  /\ UNCHANGED <<row, fetch, claims, maint, visit>>
  /\ UNCHANGED runtimeVars

InsertRow(a) ==
  /\ call[a].pc = "insert"
  /\ \/ /\ Saved(a, [NoRow EXCEPT !.phase = "starting"])
        /\ call' = [call EXCEPT ![a] = [pc |-> "post"]]
        /\ UNCHANGED runtimeVars
     \/ call' = [call EXCEPT ![a] = [pc |-> "none"]] /\ FaultOnly /\ UNCHANGED row
  /\ UNCHANGED <<fetch, claims, maint, visit>>

(* The bridge refuses a torrent it is already working on and, here, one     *)
(* more grab than Fetches has.  A request that never arrives is an error    *)
(* for the caller, and so is an accepted one whose answer is lost.          *)
Post(a) ==
  /\ call[a].pc = "post"
  /\ \/ \E b \in Fetches :
          /\ fetch[b] = "none" /\ b = CHOOSE x \in Fetches : fetch[x] = "none"
          /\ \A x \in Fetches : fetch[x] # "downloading"
          /\ fetch' = [fetch EXCEPT ![b] = "downloading"]
          /\ \/ /\ call' = [call EXCEPT ![a] = [pc |-> "save", fetch |-> b]]
                /\ UNCHANGED runtimeVars
             \/ /\ call' = [call EXCEPT ![a] = [pc |-> "error"]]
                /\ FaultOnly
     \/ /\ \/ /\ \/ \E x \in Fetches : fetch[x] = "downloading"
                 \/ \A x \in Fetches : fetch[x] # "none"
              /\ UNCHANGED runtimeVars
           \/ FaultOnly
        /\ call' = [call EXCEPT ![a] = [pc |-> "error"]]
        /\ UNCHANGED fetch
  /\ UNCHANGED <<row, claims, maint, visit>>

(* The last save of the request.  When it fails the row stays "starting". *)
SaveGrab(a) ==
  /\ \/ /\ call[a].pc = "save"
        /\ Saved(a, [row[a] EXCEPT !.phase = "downloading", !.fetch = call[a].fetch])
        /\ UNCHANGED runtimeVars
     \/ /\ call[a].pc = "error"
        /\ Saved(a, [row[a] EXCEPT !.phase = "error"])
        /\ UNCHANGED runtimeVars
     \/ call[a].pc \in {"save", "error"} /\ FaultOnly /\ UNCHANGED row
  /\ call' = [call EXCEPT ![a] = [pc |-> "none"]]
  /\ UNCHANGED <<fetch, claims, maint, visit>>

---------------------------------------------------------------------------
(* The bridge and the clock. *)

BridgeMoves(b) ==
  /\ Alive /\ fetch[b] = "downloading"
  /\ \E p \in {"completed", "error"} : fetch' = [fetch EXCEPT ![b] = p]
  /\ UNCHANGED <<row, call, claims, maint, visit>>
  /\ UNCHANGED runtimeVars

ComesDue_NoRetry(a) ==
  /\ Alive /\ ~row[a].due
  /\ \/ row[a].phase = "downloading"
     \/ row[a].phase = "starting" /\ \A x \in Grabs : call[x].pc = "none"
  /\ row' = [row EXCEPT ![a].due = TRUE]
  /\ UNCHANGED <<fetch, call, claims, maint, visit>>
  /\ UNCHANGED runtimeVars

(* A row comes due: REFRESH_INTERVAL, HANDOFF_RETRY_INTERVAL or             *)
(* STARTING_STALE_AFTER has passed.  A request takes less than the last of  *)
(* these: a "starting" row comes due when no request is in progress.        *)
ComesDue(a) ==
  /\ Alive /\ ~row[a].due
  /\ \/ row[a].phase = "downloading"
     \/ row[a].phase = "completed" /\ ~row[a].staged
     \/ row[a].phase = "starting" /\ \A x \in Grabs : call[x].pc = "none"
  /\ row' = [row EXCEPT ![a].due = TRUE]
  /\ UNCHANGED <<fetch, call, claims, maint, visit>>
  /\ UNCHANGED runtimeVars

---------------------------------------------------------------------------
(* maintenance_loop and dispatch_due: note the claims, ask for the rows that *)
(* are due, claim them, and only then send the job.                          *)

Tick ==
  /\ maint = Asleep /\ stop = "none"
  /\ \E a \in Grabs : row[a].due
  /\ maint' = [pc |-> "query", claimed |-> claims]
  /\ UNCHANGED <<row, fetch, call, claims, visit>>
  /\ UNCHANGED runtimeVars

DueGrabIds_Claimed == {a \in Grabs : row[a].due}

DueGrabIds == {a \in Grabs : row[a].due} \ maint.claimed

Query(j) ==
  /\ maint.pc = "query" /\ DueGrabIds # {}
  /\ claims' = claims \union DueGrabIds
  /\ Count(j, "refresh", DueGrabIds)
  /\ maint' = [pc |-> "send", job |-> j]
  /\ UNCHANGED <<row, fetch, call, visit>>

QueryNothing ==
  /\ maint.pc = "query"
  /\ \/ DueGrabIds = {} /\ UNCHANGED runtimeVars
     \/ FaultOnly
  /\ maint' = Asleep
  /\ UNCHANGED <<row, fetch, call, claims, visit>>

Dispatch ==
  /\ maint.pc = "send"
  /\ \/ Send(maint.job) /\ UNCHANGED claims
     \/ SendRefused(maint.job) /\ claims' = claims \ job[maint.job].arg
  /\ maint' = Asleep
  /\ UNCHANGED <<row, fetch, call, visit>>

(* The loop is aborted at its next await.  Sending to the inline channel has *)
(* none; aborted while it sends to Apalis' storage, the loop drops the job   *)
(* it has counted and claimed for.                                           *)
AbortLoop ==
  IF maint.pc # "send" THEN maint' = Asleep /\ UNCHANGED job
  ELSE IF backend = "inline" THEN UNCHANGED <<maint, job>>
  ELSE maint' = Asleep /\ Goto(maint.job, "lost")

(* start_scheduler puts a new loop in the place of the old one.  Counted     *)
(* with the faults.                                                          *)
Reload ==
  /\ stop = "none" /\ maint # Asleep
  /\ Fault
  /\ AbortLoop
  /\ UNCHANGED <<row, fetch, call, claims, visit, backend, queue, queued, running,
                 tokens, cancelled, rows, executor, shutdown, stop>>

---------------------------------------------------------------------------
(* refresh_grabs, the body of the refresh job. *)

InBody(j) == job[j].pc = "body" /\ job[j].kind = "refresh"

(* The next row of the batch is read; a row without bridge work is skipped. *)
Visit(j, a) ==
  /\ InBody(j)
  /\ IF visit = NoVisit THEN a \in job[j].arg
     ELSE visit.pc = "next" /\ a \in visit.todo
  /\ LET todo == (IF visit = NoVisit THEN job[j].arg ELSE visit.todo) \ {a} IN
     visit' = [pc |-> IF row[a].phase = "starting" THEN "list"
                      ELSE IF row[a].fetch # "none" THEN "ask" ELSE "next",
               at |-> a, todo |-> todo]
  /\ UNCHANGED <<row, fetch, call, claims, maint>>
  /\ UNCHANGED runtimeVars

At(pc) == visit.pc = pc
Onto(pc) == visit' = [visit EXCEPT !.pc = pc]

(* A call of the bridge fails: the row keeps its phase and rests. *)
BridgeFails ==
  /\ At("list") \/ At("ask")
  /\ Saved(visit.at, row[visit.at])
  /\ Onto("next")
  /\ FaultOnly
  /\ UNCHANGED <<fetch, call, claims, maint>>

Tracked == {row[a].fetch : a \in Grabs} \ {"none"}

Adoptable_Tracked ==
  LET known == {b \in Fetches : fetch[b] # "none"}
      live == {b \in known : fetch[b] # "error"}
  IN  IF live # {} THEN live ELSE known

(* adopt_bridge_grab: the bridge's grabs that no row tracks, the ones still *)
(* active before the ones that have ended.  Nobody else gives a row a grab  *)
(* meanwhile (one job runs at a time, and no request is in progress while a  *)
(* "starting" row is due), so the listing, the query and the save are one    *)
(* step.                                                                     *)
Adoptable ==
  LET left == {b \in Fetches : fetch[b] # "none"} \ Tracked
      live == {b \in left : fetch[b] # "error"}
  IN  IF live # {} THEN live ELSE left

Adopt ==
  /\ At("list")
  /\ \/ \E b \in Adoptable :
          /\ Saved(visit.at, [row[visit.at] EXCEPT !.fetch = b])
          /\ visit' = [pc |-> "apply", at |-> visit.at, todo |-> visit.todo,
                       phase |-> fetch[b]]
     \/ /\ Adoptable = {}
        /\ Saved(visit.at, [row[visit.at] EXCEPT !.phase = "error"])
        /\ Onto("next")
  /\ UNCHANGED <<fetch, call, claims, maint>>
  /\ UNCHANGED runtimeVars

Ask ==
  /\ At("ask")
  /\ visit' = [pc |-> "apply", at |-> visit.at, todo |-> visit.todo,
               phase |-> fetch[row[visit.at].fetch]]
  /\ UNCHANGED <<row, fetch, call, claims, maint>>
  /\ UNCHANGED runtimeVars

Apply ==
  /\ At("apply")
  /\ Saved(visit.at, [row[visit.at] EXCEPT !.phase = visit.phase])
  /\ visit' = [pc |-> IF visit.phase = "completed" /\ ~row[visit.at].staged
                      THEN "stage" ELSE "next",
               at |-> visit.at, todo |-> visit.todo]
  /\ UNCHANGED <<fetch, call, claims, maint>>
  /\ UNCHANGED runtimeVars

Stage_NeverEnds ==
  /\ At("stage")
  /\ LET r == row[visit.at] IN
     \/ Saved(visit.at, [r EXCEPT !.staged = TRUE])
     \/ Saved(visit.at, [r EXCEPT !.attempts = @ + 1])
  /\ Onto("next")
  /\ UNCHANGED <<fetch, call, claims, maint>>
  /\ UNCHANGED runtimeVars

(* stage_completed_grab: the copy is staged and linked, or the attempt is   *)
(* counted and the last one ends the grab.                                  *)
Stage ==
  /\ At("stage")
  /\ LET r == row[visit.at] IN
     \/ Saved(visit.at, [r EXCEPT !.staged = TRUE])
     \/ Saved(visit.at, [r EXCEPT !.attempts = @ + 1,
                                  !.phase = IF r.attempts + 1 >= MaxAttempts
                                            THEN "error" ELSE @])
  /\ Onto("next")
  /\ UNCHANGED <<fetch, call, claims, maint>>
  /\ UNCHANGED runtimeVars

(* The batch is through, or a query or a save failed and stops it. *)
RefreshReturns(j) ==
  /\ InBody(j)
  /\ At("next") /\ visit.todo = {}
  /\ BodyReturns(j)

RefreshStops(j) ==
  /\ InBody(j)
  /\ At("next") => visit.todo # {}
  /\ Fault
  /\ Goto(j, "closing")
  /\ UNCHANGED <<backend, queue, queued, running, tokens, cancelled, rows,
                 executor, shutdown, stop>>

ReleaseClaims_Kept ==
  LET over == {j \in Jobs : InBody(j) /\ job'[j].pc # "body"} IN
  /\ UNCHANGED claims
  /\ visit' = IF over = {} THEN visit ELSE NoVisit

(* The guard of release_on_drop goes with the body, whichever way it ends. *)
ReleaseClaims ==
  LET over == {j \in Jobs : InBody(j) /\ job'[j].pc # "body"} IN
  /\ claims' = claims \ UNION {job[j].arg : j \in over}
  /\ visit' = IF over = {} THEN visit ELSE NoVisit

RefreshMeanwhile == ReleaseClaims /\ UNCHANGED <<row, fetch, call, maint>>

RefreshWorks == (\E j \in Jobs, a \in Grabs : Visit(j, a)) \/ Adopt \/ Ask \/ Apply \/ Stage

=============================================================================
