--------------------------- MODULE LibraryWatcher ---------------------------
(* The library watcher, crates/watcher/src/watcher.rs, over the job runtime *)
(* its adapters of core/src/filesystem/scanner/watcher_adapters.rs connect  *)
(* it to, and the one place that reconfigures it, patch_library_config.     *)
(*                                                                          *)
(* A changed path is represented by the library root it lies in.            *)
EXTENDS JobRuntime

CONSTANTS
  Roots,        \* the library roots
  MaxTouches,   \* file-system events, together
  MaxPatches    \* configuration requests, one after the other

VARIABLES
  channel,      \* the listener's unbounded command channel
  pending,      \* Listener.accumulated_paths
  flushTask,    \* Listener.flush_task: "none", "sleeping" or "sent"
  fresh,        \* a change was handled since the flush task went to sleep
  listener,     \* where the listener is
  toScan,       \* what the flush it is handling still has to submit
  sending,      \* the job it is enqueuing
  watched,      \* roots the OS watcher reports on
  enabled,      \* ready libraries whose row says watch
  patch,        \* the configuration request in progress
  dirty,        \* roots that changed while watched and still need a scan
  touches,
  patches

watcherVars == <<channel, pending, flushTask, fresh, listener, toScan, sending,
                 watched, enabled, patch, dirty, touches, patches>>

Command(name, r) == [name |-> name, root |-> r]
Flush == [name |-> "Flush"]
Stop == [name |-> "Stop"]

NoPatch == [pc |-> "idle"]

(* After start-up: Watcher::init has added every enabled root. *)
WatcherInit ==
  /\ channel = <<>> /\ pending = {} /\ flushTask = "none" /\ fresh = FALSE
  /\ listener = "recv" /\ toScan = {} /\ sending = "none"
  /\ watched = enabled /\ patch = NoPatch /\ dirty = {}
  /\ touches = 0 /\ patches = 0

(* The window and the commands are in memory only. *)
WatcherRestarts ==
  /\ channel' = <<>> /\ pending' = {} /\ flushTask' = "none" /\ fresh' = FALSE
  /\ listener' = "recv" /\ toScan' = {} /\ sending' = "none"
  /\ watched' = enabled /\ patch' = NoPatch /\ dirty' = {}
  /\ UNCHANGED <<enabled, touches, patches>>

Listening == listener # "stopped"

(* A scan of r has been submitted and has not begun. *)
ScanWaits(j, r) == job[j].pc \in Waiting /\ job[j].arg = r

(* Changes of these roots are given up.  The ones the listener hears of later *)
(* are not among them.                                                       *)
GivenUp(roots) ==
  {r \in roots \ pending : \A i \in DOMAIN channel : channel[i] # Command("ChangedFiles", r)}

Tell(command) ==
  channel' = IF Listening THEN Append(channel, command) ELSE channel

---------------------------------------------------------------------------
(* The world: files change under a watched root.  create_backend's callback *)
(* sends the event; nobody hears of a root that is not watched.             *)
Touch(r) ==
  /\ r \in watched /\ touches < MaxTouches
  /\ touches' = touches + 1
  /\ dirty' = dirty \union {r}
  /\ Tell(Command("ChangedFiles", r))
  /\ UNCHANGED <<pending, flushTask, fresh, listener, toScan, sending, watched,
                 enabled, patch, patches>>
  /\ UNCHANGED runtimeVars

---------------------------------------------------------------------------
(* The listener. *)

Hears(name) == listener = "recv" /\ channel # <<>> /\ Head(channel).name = name

(* The first change of a window starts the flush task. *)
HandleChangedFiles ==
  /\ Hears("ChangedFiles")
  /\ channel' = Tail(channel)
  /\ pending' = pending \union {Head(channel).root}
  /\ fresh' = (flushTask = "sleeping")
  /\ flushTask' = IF flushTask = "none" THEN "sleeping" ELSE flushTask
  /\ UNCHANGED <<listener, toScan, sending, watched, enabled, patch, dirty,
                 touches, patches>>
  /\ UNCHANGED runtimeVars

(* The flush task looks at last_change each time its sleep is over. *)
FlushTaskWakes ==
  /\ flushTask = "sleeping"
  /\ \/ fresh /\ fresh' = FALSE /\ UNCHANGED <<channel, flushTask>>
     \/ ~fresh /\ Tell(Flush) /\ flushTask' = "sent" /\ UNCHANGED fresh
  /\ UNCHANGED <<pending, listener, toScan, sending, watched, enabled, patch,
                 dirty, touches, patches>>
  /\ UNCHANGED runtimeVars

HandleFlush_KeepsTask ==
  /\ Hears("Flush")
  /\ channel' = Tail(channel)
  /\ toScan' = pending /\ pending' = {}
  /\ listener' = "roots"
  /\ UNCHANGED <<flushTask, fresh, sending, watched, enabled, patch, dirty,
                 touches, patches>>
  /\ UNCHANGED runtimeVars

(* The window's paths are taken and the next change starts a new task. *)
HandleFlush ==
  /\ Hears("Flush")
  /\ channel' = Tail(channel)
  /\ toScan' = pending /\ pending' = {}
  /\ flushTask' = "none"
  /\ listener' = "roots"
  /\ UNCHANGED <<fresh, sending, watched, enabled, patch, dirty, touches, patches>>
  /\ UNCHANGED runtimeVars

(* submit_scans asks which libraries are to be watched now.  A change of any *)
(* other is dropped, and all of them are when the database answers an error. *)
ReadRoots ==
  /\ listener = "roots"
  /\ \/ toScan' = toScan \intersect enabled /\ UNCHANGED runtimeVars
     \/ toScan' = {} /\ FaultOnly
  /\ dirty' = dirty \ GivenUp(toScan \ toScan')
  /\ listener' = IF toScan' = {} THEN "recv" ELSE "submit"
  /\ UNCHANGED <<channel, pending, flushTask, fresh, sending, watched, enabled,
                 patch, touches, patches>>

SubmitScan(r, j) ==
  /\ listener = "submit" /\ r \in toScan
  /\ Count(j, "scan", r)
  /\ sending' = j /\ listener' = "send"
  /\ UNCHANGED <<channel, pending, flushTask, fresh, toScan, watched, enabled,
                 patch, dirty, touches, patches>>

ScanSubmitted(j) ==
  /\ listener = "send" /\ sending = j
  /\ Send(j)
  /\ toScan' = toScan \ {job[j].arg}
  /\ listener' = IF toScan' = {} THEN "recv" ELSE "submit"
  /\ sending' = "none"
  /\ UNCHANGED <<channel, pending, flushTask, fresh, watched, enabled, patch,
                 dirty, touches, patches>>

(* The first refusal ends submit_scans. *)
ScanRefused(j) ==
  /\ listener = "send" /\ sending = j
  /\ SendRefused(j)
  /\ toScan' = {} /\ dirty' = dirty \ GivenUp(toScan)
  /\ listener' = "recv" /\ sending' = "none"
  /\ UNCHANGED <<channel, pending, flushTask, fresh, watched, enabled, patch,
                 touches, patches>>

Answer(r) ==
  patch' = IF patch.pc = "reply" /\ patch.root = r THEN NoPatch ELSE patch

(* The OS may refuse to watch a root; the request is told, and its row stays. *)
HandleAddWatcher ==
  /\ Hears("AddWatcher")
  /\ channel' = Tail(channel)
  /\ \/ watched' = watched \union {Head(channel).root} /\ UNCHANGED runtimeVars
     \/ FaultOnly /\ UNCHANGED watched
  /\ Answer(Head(channel).root)
  /\ UNCHANGED <<pending, flushTask, fresh, listener, toScan, sending, enabled,
                 dirty, touches, patches>>

HandleRemoveWatcher ==
  /\ Hears("RemoveWatcher")
  /\ channel' = Tail(channel)
  /\ watched' = watched \ {Head(channel).root}
  /\ UNCHANGED <<pending, flushTask, fresh, listener, toScan, sending, enabled,
                 patch, dirty, touches, patches>>
  /\ UNCHANGED runtimeVars

(* The flush task is aborted, and the channel and the OS watcher go with the *)
(* listener.                                                                 *)
HandleStop ==
  /\ Hears("Stop")
  /\ listener' = "stopped"
  /\ channel' = <<>> /\ watched' = {} /\ flushTask' = "none"
  /\ pending' = {} /\ fresh' = FALSE
  /\ patch' = IF patch.pc = "reply" THEN NoPatch ELSE patch
  /\ dirty' = {r \in dirty : \E j \in Jobs : ScanWaits(j, r)}
  /\ UNCHANGED <<toScan, sending, enabled, touches, patches>>
  /\ UNCHANGED runtimeVars

---------------------------------------------------------------------------
(* patch_library_config: the row is committed, then the watcher is told.    *)
(* add_watcher waits for the listener's answer, remove_watcher does not.    *)

PatchCommits(r) ==
  /\ Alive /\ patch = NoPatch /\ patches < MaxPatches
  /\ patches' = patches + 1
  /\ enabled' = IF r \in enabled THEN enabled \ {r} ELSE enabled \union {r}
  /\ patch' = [pc |-> "tell", root |-> r]
  /\ UNCHANGED <<channel, pending, flushTask, fresh, listener, toScan, sending,
                 watched, dirty, touches>>
  /\ UNCHANGED runtimeVars

PatchTells ==
  /\ patch.pc = "tell"
  /\ LET r == patch.root IN
     IF r \in enabled
     THEN /\ Tell(Command("AddWatcher", r))
          /\ patch' = IF Listening THEN [patch EXCEPT !.pc = "reply"] ELSE NoPatch
     ELSE Tell(Command("RemoveWatcher", r)) /\ patch' = NoPatch
  /\ UNCHANGED <<pending, flushTask, fresh, listener, toScan, sending, watched,
                 enabled, dirty, touches, patches>>
  /\ UNCHANGED runtimeVars

---------------------------------------------------------------------------
(* The runtime's steps.  A scan that begins sees every change made so far;  *)
(* the changes of one that is dropped before it begins are dropped with it. *)

ScansLeave(pcs) ==
  {job[j].arg : j \in {i \in Jobs : job[i].pc \in Waiting /\ job'[i].pc \in pcs}}

WatcherMeanwhile ==
  /\ dirty' = dirty \ (ScansLeave(Open) \union GivenUp(ScansLeave({"none", "lost"})))
  /\ UNCHANGED <<channel, pending, flushTask, fresh, listener, toScan, sending,
                 watched, enabled, patch, touches, patches>>

ListenerRuns ==
  \/ HandleChangedFiles \/ HandleFlush \/ ReadRoots
  \/ \E r \in Roots, j \in Jobs : SubmitScan(r, j)
  \/ \E j \in Jobs : ScanSubmitted(j) \/ ScanRefused(j)
  \/ HandleAddWatcher \/ HandleRemoveWatcher \/ HandleStop

Reconfigures == PatchTells \/ \E r \in Roots : PatchCommits(r)

=============================================================================
