-------------------------- MODULE ProducersProofs --------------------------
(***************************************************************************)
(* The producers of jobs, for any roots, rows, attempts and faults: a       *)
(* changed root of a watched library is never forgotten (WInv), and no two  *)
(* rows follow the same download (GInv). Attempts, inductive relative to    *)
(* GInv, bounds the attempts of a row by HANDOFF_MAX_ATTEMPTS.              *)
(***************************************************************************)
EXTENDS BackgroundJobsProofs

USE SMTT(30)

Commands == [name : {"ChangedFiles", "AddWatcher", "RemoveWatcher"}, root : Roots]
              \cup [name : {"Flush", "Stop"}]

Has(c) == \E i \in DOMAIN channel : channel[i] = c

Changed(r) == Command("ChangedFiles", r)

\* Paths in the window have a flush to come, and the flush task's last word is
\* in the channel until the listener takes it.
Window ==
  /\ flushTask \in {"none", "sleeping", "sent"}
  /\ pending # {} => flushTask # "none"
  /\ flushTask = "sent" => Has(Flush)

\* Between two commands nothing is left to submit, and after Stop nothing is
\* left at all.
Resting ==
  /\ listener = "recv" => toScan = {}
  /\ listener = "stopped" => watched = {} /\ pending = {} /\ flushTask = "none"

\* The scan being enqueued is one of those to submit.
Submitting ==
  listener = "send" => /\ sending \in Jobs /\ job[sending].pc = "counted"
                       /\ job[sending].arg \in toScan

\* A server that does not watch has no changes.
Unwatched == deploy # "watch" => dirty = {} /\ listener = "recv"

Patching == patch = NoPatch \/ patch \in [pc : {"tell", "reply"}, root : Roots]

Shape == channel \in Seq(Commands) /\ Patching /\ Window /\ Resting

WInv == Shape /\ Submitting /\ Unwatched /\ NoChangeIsForgotten

OnItsWay(r) ==
  \/ Has(Changed(r))
  \/ r \in pending
  \/ r \in toScan
  \/ \E j \in Jobs : ScanWaits(j, r)

-------------------------------------------------------------------------------
(* The channel. *)

LEMMA Names ==
  /\ Flush \in Commands /\ Stop \in Commands
  /\ Flush.name = "Flush" /\ Stop.name = "Stop"
  /\ \A r \in Roots : Changed(r) \in Commands
  /\ \A r : Changed(r).name = "ChangedFiles" /\ Changed(r).root = r
  /\ \A r \in Roots : /\ Command("AddWatcher", r) \in Commands
                     /\ Command("RemoveWatcher", r) \in Commands
BY ZenonT(40) DEF Flush, Stop, Commands, Changed, Command

LEMMA Told ==
  ASSUME channel \in Seq(Commands), NEW c \in Commands, Tell(c)
  PROVE  /\ channel' \in Seq(Commands)
         /\ \A d : Has(d) => Has(d)'
         /\ Listening => Has(c)'
<1>1. CASE Listening
  <2>1. channel' = Append(channel, c)
    BY ZenonT(40), <1>1 DEF Tell
  <2>2. /\ channel' \in Seq(Commands) /\ Len(channel') = Len(channel) + 1
        /\ channel'[Len(channel) + 1] = c
        /\ \A i \in 1..Len(channel) : channel'[i] = channel[i]
        /\ DOMAIN channel = 1..Len(channel) /\ DOMAIN channel' = 1..Len(channel')
        /\ Len(channel) \in Nat
    BY <2>1
  <2>3. Has(c)'
    <3>1. Len(channel) + 1 \in DOMAIN channel'
      BY <2>2
    <3>. QED
      BY ZenonT(40), <2>2, <3>1 DEF Has
  <2>4. ASSUME NEW d, Has(d)
        PROVE  Has(d)'
    <3>1. PICK i \in 1..Len(channel) : channel[i] = d
      BY ZenonT(40), <2>2, <2>4 DEF Has
    <3>2. i \in DOMAIN channel' /\ channel'[i] = d
      BY <2>2, <3>1
    <3>. QED
      BY ZenonT(40), <3>2 DEF Has
  <2>. QED
    BY ZenonT(40), <2>2, <2>3, <2>4
<1>2. CASE ~Listening
  <2>1. channel' = channel
    BY ZenonT(40), <1>2 DEF Tell
  <2>. QED
    BY ZenonT(40), <1>2, <2>1 DEF Has
<1>. QED
  BY ZenonT(40), <1>1, <1>2

LEMMA Heard ==
  ASSUME channel \in Seq(Commands), channel # <<>>, channel' = Tail(channel)
  PROVE  /\ channel' \in Seq(Commands)
         /\ \A d : Has(d) /\ d # Head(channel) => Has(d)'
<1>1. /\ channel' \in Seq(Commands) /\ Len(channel') = Len(channel) - 1
      /\ Head(channel) = channel[1]
      /\ \A i \in 1..Len(channel') : channel'[i] = channel[i + 1]
      /\ DOMAIN channel = 1..Len(channel) /\ DOMAIN channel' = 1..Len(channel')
      /\ Len(channel) \in Nat
  OBVIOUS
<1>2. ASSUME NEW d, Has(d), d # Head(channel)
      PROVE  Has(d)'
  <2>1. PICK i \in 1..Len(channel) : channel[i] = d
    BY ZenonT(40), <1>1, <1>2 DEF Has
  <2>2. i # 1
    BY ZenonT(40), <1>1, <1>2, <2>1
  <2>3. i - 1 \in 1..Len(channel') /\ (i - 1) + 1 = i
    BY <1>1, <2>1, <2>2
  <2>4. channel'[i - 1] = d
    BY ZenonT(40), <1>1, <2>1, <2>3
  <2>. QED
    BY Zenon, <1>1, <2>3, <2>4 DEF Has
<1>. QED
  BY ZenonT(40), <1>1, <1>2

\* With Window, a path in the window is one with a flush to come.
LEMMA WayIsWay ==
  ASSUME Window
  PROVE  NoChangeIsForgotten <=> \A r \in dirty : OnItsWay(r)
<1>1. pending # {} => flushTask = "sleeping" \/ Has(Flush)
  BY ZenonT(40) DEF Window
<1>. QED
  BY ZenonT(40), <1>1 DEF NoChangeIsForgotten, OnItsWay, Has, Changed

-------------------------------------------------------------------------------
(* What the runtime does to the scans that wait. *)

LEMMA WaitingStays ==
  ASSUME JobInv, Inner, NEW i \in Jobs, job[i].pc \in Waiting, job'[i].pc \in Waiting
  PROVE  job'[i].arg = job[i].arg
<1>1. CASE Rests
  BY ZenonT(40), <1>1 DEF Rests
<1>2. CASE Gone
  BY ZenonT(40), <1>2 DEF Gone, Waiting
<1>3. ASSUME NEW j \in Jobs, Taken(j) \/ Moved(j) \/ Registered(j)
      PROVE  job'[i].arg = job[i].arg
  BY ZenonT(40), <1>3 DEF Taken, Moved, Registered, Same, Others
<1>4. ASSUME NEW j \in Jobs, Left(j)
      PROVE  job'[i].arg = job[i].arg
  <2>1. i # j
    BY ZenonT(40), <1>4 DEF Left, Waiting
  <2>. QED
    BY ZenonT(40), <1>4, <2>1 DEF Left, Others
<1>. QED
  BY ZenonT(40), <1>1, <1>2, <1>3, <1>4 DEF Inner

\* A change stays on its way through a step of the runtime, unless the step
\* begins its scan or ends it with nothing reported since.
LEMMA RuntimeKeepsWay ==
  ASSUME JobInv, Inner, Types', WatcherMeanwhile, \A r \in dirty : OnItsWay(r)
  PROVE  \A r \in dirty' : OnItsWay(r)'
<1> SUFFICES ASSUME NEW r \in dirty'
             PROVE  OnItsWay(r)'
  BY ZenonT(40)
<1>1. /\ r \in dirty /\ r \notin ScansLeave(Open)
      /\ r \notin GivenUp(ScansLeave({"none", "lost"}))
      /\ UNCHANGED <<channel, pending, toScan>>
  BY ZenonT(40) DEF WatcherMeanwhile
<1>2. CASE Has(Changed(r)) \/ r \in pending \/ r \in toScan
  BY ZenonT(40), <1>1, <1>2 DEF OnItsWay, Has
<1>3. ASSUME NEW j \in Jobs, ScanWaits(j, r)
      PROVE  OnItsWay(r)'
  <2>1. job[j].pc \in Waiting /\ job[j].arg = r
    BY ZenonT(40), <1>3 DEF ScanWaits
  <2>2. CASE job'[j].pc \in Waiting
    <3>1. job'[j].arg = r
      BY ZenonT(40), <2>1, <2>2, WaitingStays
    <3>. QED
      BY ZenonT(40), <2>2, <3>1 DEF OnItsWay, ScanWaits
  <2>3. CASE job'[j].pc \notin Waiting
    <3>1. job'[j].pc \in Open \/ job'[j].pc \in {"none", "lost"}
      BY ZenonT(40), <2>3 DEF Types, JobType, JobPcs, Open, UserCode, Waiting
    <3>2. job'[j].pc \notin Open
      BY ZenonT(40), <1>1, <2>1 DEF ScansLeave
    <3>3. r \in ScansLeave({"none", "lost"})
      BY ZenonT(40), <2>1, <3>1, <3>2 DEF ScansLeave
    <3>4. r \in pending \/ Has(Changed(r))
      BY ZenonT(40), <1>1, <3>3 DEF GivenUp, Has, Changed
    <3>. QED
      BY ZenonT(40), <1>1, <3>4 DEF OnItsWay, Has
  <2>. QED
    BY ZenonT(40), <2>2, <2>3
<1>. QED
  BY ZenonT(40), <1>1, <1>2, <1>3 DEF OnItsWay

-------------------------------------------------------------------------------
(* The steps. *)

\* What has to be shown of a step, the change's way given by OnItsWay.
LEMMA Suffices ==
  ASSUME Shape', Submitting', Unwatched', \A r \in dirty' : OnItsWay(r)'
  PROVE  WInv'
<1>1. Window' => (NoChangeIsForgotten' <=> \A r \in dirty' : OnItsWay(r)')
  <2>1. pending' # {} /\ Window' => flushTask' = "sleeping" \/ Has(Flush)'
    BY ZenonT(40) DEF Window
  <2>. QED
    BY ZenonT(40), <2>1 DEF NoChangeIsForgotten, OnItsWay, Has, Changed
<1>. QED
  BY ZenonT(40), <1>1 DEF WInv, Shape

LEMMA Given ==
  ASSUME WInv
  PROVE  /\ channel \in Seq(Commands) /\ Patching /\ Window /\ Resting
         /\ Submitting /\ Unwatched /\ \A r \in dirty : OnItsWay(r)
BY ZenonT(40), WayIsWay DEF WInv, Shape

\* The listener takes a command.  What the channel had it still has, but for it.
LEMMA Hearing ==
  ASSUME WInv, NEW name, Hears(name), channel' = Tail(channel)
  PROVE  /\ channel' \in Seq(Commands)
         /\ \A d : Has(d) /\ d # Head(channel) => Has(d)'
         /\ Head(channel).name = name /\ listener = "recv"
         /\ toScan = {}
         /\ name # "Flush" => (Has(Flush) => Has(Flush)')
         /\ name # "ChangedFiles" => \A r : Has(Changed(r)) => Has(Changed(r))'
<1>1. channel \in Seq(Commands) /\ Resting
  BY ZenonT(40), Given
<1>2. channel # <<>> /\ Head(channel).name = name /\ listener = "recv"
  BY ZenonT(40) DEF Hears
<1>3. channel' \in Seq(Commands) /\ \A d : Has(d) /\ d # Head(channel) => Has(d)'
  BY ZenonT(40), <1>1, <1>2, Heard
<1>. QED
  BY ZenonT(40), <1>1, <1>2, <1>3, Names DEF Resting

LEMMA TakesChange ==
  ASSUME WInv, HandleChangedFiles, deploy' = "watch"
  PROVE  WInv'
<1>1. /\ channel' \in Seq(Commands)
      /\ \A d : Has(d) /\ d # Head(channel) => Has(d)'
      /\ listener = "recv" /\ toScan = {} /\ (Has(Flush) => Has(Flush)')
  BY Hearing DEF HandleChangedFiles
<1>2. /\ pending' = pending \cup {Head(channel).root}
      /\ flushTask' = IF flushTask = "none" THEN "sleeping" ELSE flushTask
      /\ UNCHANGED <<listener, toScan, sending, watched, patch, dirty, job>>
  BY ZenonT(40) DEF HandleChangedFiles, runtimeVars
<1>3. Shape'
  BY ZenonT(40), <1>1, <1>2, Given DEF Shape, Window, Resting, Patching
<1>4. Submitting' /\ Unwatched'
  BY ZenonT(40), <1>1, <1>2 DEF Submitting, Unwatched
<1>5. ASSUME NEW r \in dirty'
      PROVE  OnItsWay(r)'
  <2>1. OnItsWay(r)
    BY ZenonT(40), <1>2, Given
  <2>2. CASE Has(Changed(r))
    <3>1. Changed(r) = Head(channel) => r \in pending'
      BY ZenonT(40), <1>2, Names
    <3>. QED
      BY ZenonT(40), <1>1, <2>2, <3>1 DEF OnItsWay
  <2>3. CASE r \in pending \/ r \in toScan \/ \E j \in Jobs : ScanWaits(j, r)
    BY ZenonT(40), <1>2, <2>3 DEF OnItsWay, ScanWaits
  <2>. QED
    BY ZenonT(40), <2>1, <2>2, <2>3 DEF OnItsWay
<1>. QED
  BY ZenonT(40), <1>3, <1>4, <1>5, Suffices

LEMMA TakesFlush ==
  ASSUME WInv, HandleFlush, deploy' = "watch"
  PROVE  WInv'
<1>1. /\ channel' \in Seq(Commands) /\ listener = "recv" /\ toScan = {}
      /\ \A r : Has(Changed(r)) => Has(Changed(r))'
  BY Hearing DEF HandleFlush
<1>2. /\ toScan' = pending /\ pending' = {} /\ flushTask' = "none" /\ listener' = "roots"
      /\ UNCHANGED <<sending, watched, patch, dirty, job>>
  BY ZenonT(40) DEF HandleFlush, runtimeVars
<1>3. Shape' /\ Submitting'
  BY ZenonT(40), <1>1, <1>2, Given DEF Shape, Window, Resting, Patching, Submitting
<1>4. Unwatched'
  BY ZenonT(40) DEF Unwatched
<1>5. \A r \in dirty' : OnItsWay(r)'
  <2>1. ASSUME NEW r \in dirty'
        PROVE  OnItsWay(r)'
    <3>1. OnItsWay(r)
      BY ZenonT(40), <1>2, Given
    <3>. QED
      BY ZenonT(40), <1>1, <1>2, <3>1 DEF OnItsWay, ScanWaits
  <2>. QED
    BY ZenonT(40), <2>1
<1>. QED
  BY ZenonT(40), <1>3, <1>4, <1>5, Suffices

\* The other commands, and the ones who send them.
LEMMA OtherCommands ==
  ASSUME WInv, HandleAddWatcher \/ HandleRemoveWatcher \/ HandleStop, deploy' = "watch"
  PROVE  WInv'
<1>1. CASE HandleStop
  <2>1. /\ channel' = <<>> /\ pending' = {} /\ flushTask' = "none" /\ watched' = {}
        /\ listener' = "stopped" /\ job' = job
        /\ patch' = IF patch.pc = "reply" THEN NoPatch ELSE patch
        /\ dirty' = {r \in dirty : \E j \in Jobs : ScanWaits(j, r)}
    BY ZenonT(40), <1>1 DEF HandleStop, runtimeVars
  <2>2. Shape' /\ Submitting' /\ Unwatched'
    BY <2>1, Given DEF Shape, Window, Resting, Patching, NoPatch, Submitting, Unwatched
  <2>3. \A r \in dirty' : OnItsWay(r)'
    BY ZenonT(40), <2>1 DEF OnItsWay, ScanWaits
  <2>. QED
    BY ZenonT(40), <2>2, <2>3, Suffices
<1>2. CASE HandleAddWatcher \/ HandleRemoveWatcher
  <2>1. /\ channel' \in Seq(Commands) /\ listener = "recv"
        /\ Has(Flush) => Has(Flush)'
        /\ \A r : Has(Changed(r)) => Has(Changed(r))'
    BY <1>2, Hearing DEF HandleAddWatcher, HandleRemoveWatcher
  <2>2. /\ UNCHANGED <<pending, flushTask, listener, toScan, sending, dirty, job>>
        /\ patch' \in {patch, NoPatch}
    BY ZenonT(40), <1>2 DEF HandleAddWatcher, HandleRemoveWatcher, Answer, FaultOnly, runtimeVars
  <2>3. Shape' /\ Submitting' /\ Unwatched'
    BY ZenonT(40), <2>1, <2>2, Given DEF Shape, Window, Resting, Patching, NoPatch, Submitting,
       Unwatched
  <2>4. \A r \in dirty' : OnItsWay(r)'
    BY ZenonT(40), <2>1, <2>2, Given DEF OnItsWay, ScanWaits
  <2>. QED
    BY <2>3, <2>4, Suffices
<1>. QED
  BY ZenonT(40), <1>1, <1>2

\* Somebody tells the listener something.
LEMMA Telling ==
  ASSUME WInv, NEW c \in Commands, Tell(c), deploy' = "watch",
         UNCHANGED <<pending, flushTask, listener, toScan, sending, dirty, job, watched>>,
         Patching'
  PROVE  WInv'
<1>1. channel' \in Seq(Commands) /\ \A d : Has(d) => Has(d)'
  BY ZenonT(40), Told, Given
<1>2. Shape' /\ Submitting' /\ Unwatched'
  BY ZenonT(40), <1>1, Given DEF Shape, Window, Resting, Submitting, Unwatched
<1>3. \A r \in dirty' : OnItsWay(r)'
  BY ZenonT(40), <1>1, Given DEF OnItsWay, ScanWaits
<1>. QED
  BY ZenonT(40), <1>2, <1>3, Suffices

LEMMA Touched ==
  ASSUME WInv, NEW r \in Roots, Touch(r), deploy' = "watch"
  PROVE  WInv'
<1>1. /\ r \in watched /\ dirty' = dirty \cup {r} /\ Tell(Changed(r))
      /\ UNCHANGED <<pending, flushTask, listener, toScan, sending, job, watched, patch>>
  BY ZenonT(40) DEF Touch, Changed, runtimeVars
<1>2. Listening
  BY ZenonT(40), <1>1, Given DEF Listening, Resting
<1>3. channel' \in Seq(Commands) /\ (\A d : Has(d) => Has(d)') /\ Has(Changed(r))'
  BY ZenonT(40), <1>1, <1>2, Told, Names, Given
<1>4. Shape' /\ Submitting' /\ Unwatched'
  BY ZenonT(40), <1>1, <1>3, Given DEF Shape, Window, Resting, Patching, Submitting, Unwatched
<1>5. \A q \in dirty' : OnItsWay(q)'
  BY ZenonT(40), <1>1, <1>3, Given DEF OnItsWay, ScanWaits
<1>. QED
  BY ZenonT(40), <1>4, <1>5, Suffices

LEMMA Wakes ==
  ASSUME WInv, FlushTaskWakes, deploy' = "watch"
  PROVE  WInv'
<1>1. /\ flushTask = "sleeping"
      /\ UNCHANGED <<pending, listener, toScan, sending, dirty, job, watched, patch>>
      /\ UNCHANGED <<channel, flushTask>> \/ (Tell(Flush) /\ flushTask' = "sent")
  BY ZenonT(40) DEF FlushTaskWakes, runtimeVars
<1>2. Listening
  BY ZenonT(40), <1>1, Given DEF Listening, Resting
<1>3. /\ channel' \in Seq(Commands) /\ \A d : Has(d) => Has(d)'
      /\ flushTask' = "sleeping" \/ (flushTask' = "sent" /\ Has(Flush)')
  <2>1. CASE UNCHANGED <<channel, flushTask>>
    BY ZenonT(40), <1>1, <2>1, Given DEF Has
  <2>2. CASE Tell(Flush) /\ flushTask' = "sent"
    BY ZenonT(40), <1>2, <2>2, Told, Names, Given
  <2>. QED
    BY ZenonT(40), <1>1, <2>1, <2>2
<1>4. Shape' /\ Submitting' /\ Unwatched'
  BY ZenonT(40), <1>1, <1>2, <1>3, Given DEF Shape, Window, Resting, Patching, Submitting,
     Unwatched, Listening
<1>5. \A q \in dirty' : OnItsWay(q)'
  BY ZenonT(40), <1>1, <1>3, Given DEF OnItsWay, ScanWaits
<1>. QED
  BY ZenonT(40), <1>4, <1>5, Suffices

LEMMA Reads ==
  ASSUME WInv, ReadRoots, deploy' = "watch"
  PROVE  WInv'
<1>1. /\ listener = "roots" /\ dirty' = dirty \ GivenUp(toScan \ toScan')
      /\ listener' = IF toScan' = {} THEN "recv" ELSE "submit"
      /\ UNCHANGED <<channel, pending, flushTask, sending, job, watched, patch>>
  BY ZenonT(40) DEF ReadRoots, FaultOnly, runtimeVars
<1>2. Shape' /\ Submitting' /\ Unwatched'
  BY ZenonT(40), <1>1, Given DEF Shape, Window, Resting, Patching, Submitting, Unwatched, Has
<1>3. ASSUME NEW r \in dirty'
      PROVE  OnItsWay(r)'
  <2>1. OnItsWay(r)
    BY ZenonT(40), <1>1, Given
  <2>2. CASE r \in toScan \ toScan'
    <3>1. r \in pending \/ Has(Changed(r))
      BY ZenonT(40), <1>1, <1>3, <2>2 DEF GivenUp, Has, Changed
    <3>. QED
      BY ZenonT(40), <1>1, <3>1 DEF OnItsWay, Has
  <2>3. CASE r \notin toScan \/ r \in toScan'
    BY ZenonT(40), <1>1, <2>1, <2>3 DEF OnItsWay, ScanWaits, Has
  <2>. QED
    BY ZenonT(40), <2>2, <2>3
<1>. QED
  BY ZenonT(40), <1>2, <1>3, Suffices

LEMMA SubmitsScan ==
  ASSUME WInv, IInv, NEW r \in Roots, NEW j \in Jobs, SubmitScan(r, j), deploy' = "watch"
  PROVE  WInv'
<1>1. /\ listener = "submit" /\ r \in toScan /\ sending' = j /\ listener' = "send"
      /\ UNCHANGED <<channel, pending, flushTask, toScan, dirty, watched, patch>>
  BY ZenonT(40) DEF SubmitScan
<1>2. Submitted(j) /\ job'[j].arg = r
  BY ZenonT(40), CountMoves DEF SubmitScan, Kinds, IInv, JobInv
<1>3. Shape' /\ Submitting' /\ Unwatched'
  BY Zenon, <1>1, <1>2, Given DEF Shape, Window, Resting, Patching, Submitting, Unwatched, Has,
     Submitted
<1>4. \A q, i : i \in Jobs /\ ScanWaits(i, q) => ScanWaits(i, q)'
  <2>1. job[j].pc \notin Waiting /\ Others(j)
    BY ZenonT(40), <1>2 DEF Submitted, Waiting
  <2>. QED
    BY ZenonT(40), <2>1 DEF ScanWaits, Others
<1>5. \A q \in dirty' : OnItsWay(q)'
  BY ZenonT(40), <1>1, <1>4, Given DEF OnItsWay, Has
<1>. QED
  BY ZenonT(40), <1>3, <1>5, Suffices

LEMMA SendsScan ==
  ASSUME WInv, IInv, NEW j \in Jobs, ScanSubmitted(j), deploy' = "watch"
  PROVE  WInv'
<1>1. /\ toScan' = toScan \ {job[j].arg}
      /\ listener' = IF toScan' = {} THEN "recv" ELSE "submit"
      /\ UNCHANGED <<channel, pending, flushTask, dirty, watched, patch>>
      /\ Send(j)
  BY ZenonT(40) DEF ScanSubmitted
<1>2. Sent(j)
  BY ZenonT(40), <1>1, SendMoves DEF IInv, JobInv
<1>3. Shape' /\ Submitting' /\ Unwatched'
  BY ZenonT(40), <1>1, Given DEF Shape, Window, Resting, Patching, Submitting, Unwatched, Has
<1>4. job'[j].pc \in Waiting /\ job'[j].arg = job[j].arg
  BY ZenonT(40), <1>2 DEF Sent, Same, Waiting
<1>5. ASSUME NEW q, NEW i \in Jobs, ScanWaits(i, q)
      PROVE  ScanWaits(i, q)'
  BY ZenonT(40), <1>2, <1>4, <1>5 DEF Sent, Others, ScanWaits
<1>6. ASSUME NEW q \in dirty'
      PROVE  OnItsWay(q)'
  <2>1. OnItsWay(q)
    BY ZenonT(40), <1>1, Given
  <2>2. CASE q = job[j].arg
    BY ZenonT(40), <1>4, <2>2 DEF OnItsWay, ScanWaits
  <2>3. CASE q # job[j].arg
    BY ZenonT(40), <1>1, <1>5, <2>1, <2>3 DEF OnItsWay, Has
  <2>. QED
    BY ZenonT(40), <2>2, <2>3
<1>. QED
  BY ZenonT(40), <1>3, <1>6, Suffices

LEMMA RefusesScan ==
  ASSUME WInv, IInv, NEW j \in Jobs, ScanRefused(j), deploy' = "watch"
  PROVE  WInv'
<1>1. /\ listener = "send" /\ sending = j
      /\ toScan' = {} /\ dirty' = dirty \ GivenUp(toScan) /\ listener' = "recv"
      /\ UNCHANGED <<channel, pending, flushTask, watched, patch>>
      /\ SendRefused(j)
  BY ZenonT(40) DEF ScanRefused
<1>2. Others(j)
  BY ZenonT(40), <1>1, SendMoves DEF IInv, JobInv, Dropped
<1>3. Shape' /\ Submitting' /\ Unwatched'
  BY ZenonT(40), <1>1, Given DEF Shape, Window, Resting, Patching, Submitting, Unwatched, Has
<1>4. job[j].arg \in toScan
  BY ZenonT(40), <1>1, Given DEF Submitting
<1>5. ASSUME NEW q \in dirty'
      PROVE  OnItsWay(q)'
  <2>1. OnItsWay(q)
    BY ZenonT(40), <1>1, Given
  <2>2. CASE q \in toScan
    <3>1. q \in pending \/ Has(Changed(q))
      BY ZenonT(40), <1>1, <1>5, <2>2 DEF GivenUp, Has, Changed
    <3>. QED
      BY ZenonT(40), <1>1, <3>1 DEF OnItsWay, Has
  <2>3. CASE q \notin toScan
    <3>1. \A i \in Jobs : ScanWaits(i, q) => ScanWaits(i, q)'
      BY ZenonT(40), <1>2, <1>4, <2>3 DEF Others, ScanWaits
    <3>. QED
      BY ZenonT(40), <1>1, <2>1, <2>3, <3>1 DEF OnItsWay, Has
  <2>. QED
    BY ZenonT(40), <2>2, <2>3
<1>. QED
  BY <1>3, <1>5, Suffices

LEMMA ListenerKeeps ==
  ASSUME WInv, IInv, WatcherRuns, deploy' = "watch"
  PROVE  WInv'
BY ZenonT(40), TakesChange, TakesFlush, Reads, SubmitsScan, SendsScan, RefusesScan, OtherCommands,
   Wakes
  DEF WatcherRuns, ListenerRuns

LEMMA ReconfigureKeeps ==
  ASSUME WInv, Reconfigures, deploy' = "watch"
  PROVE  WInv'
<1>1. ASSUME NEW r \in Roots, PatchCommits(r)
      PROVE  WInv'
  <2>1. /\ patch' = [pc |-> "tell", root |-> r]
        /\ UNCHANGED <<channel, pending, flushTask, listener, toScan, sending, dirty,
                       job, watched>>
    BY ZenonT(40), <1>1 DEF PatchCommits, runtimeVars
  <2>2. Shape' /\ Submitting' /\ Unwatched'
    BY ZenonT(40), <2>1, Given DEF Shape, Window, Resting, Patching, Submitting, Unwatched, Has
  <2>3. \A q \in dirty' : OnItsWay(q)'
    BY ZenonT(40), <2>1, Given DEF OnItsWay, ScanWaits, Has
  <2>. QED
    BY ZenonT(40), <2>2, <2>3, Suffices
<1>2. CASE PatchTells
  <2>0. patch.pc = "tell" /\ patch \in [pc : {"tell", "reply"}, root : Roots]
    BY <1>2, Given DEF PatchTells, Shape, Patching, NoPatch
  <2>1. /\ patch.root \in Roots
        /\ UNCHANGED <<pending, flushTask, listener, toScan, sending, dirty, job, watched>>
        /\ \/ Tell(Command("AddWatcher", patch.root))
           \/ Tell(Command("RemoveWatcher", patch.root))
    BY ZenonT(40), <1>2, <2>0 DEF PatchTells, runtimeVars
  <2>2. patch' \in {[patch EXCEPT !.pc = "reply"], NoPatch}
    BY ZenonT(40), <1>2 DEF PatchTells
  <2>3. Patching'
    BY ZenonT(40), <2>0, <2>2 DEF Patching
  <2>. QED
    BY ZenonT(40), <2>1, <2>3, Names, Telling
<1>. QED
  BY ZenonT(40), <1>1, <1>2 DEF Reconfigures

\* A step of the runtime on a server that watches.
LEMMA MeanwhileKeeps ==
  ASSUME WInv, IInv, RuntimeNext, WatcherMeanwhile, deploy' = "watch"
  PROVE  WInv'
<1>1. UNCHANGED <<channel, pending, flushTask, listener, toScan, sending, watched, patch>>
  BY ZenonT(40) DEF WatcherMeanwhile
<1>2. Types' /\ Inner
  BY ZenonT(40), RuntimeMoves DEF IInv
<1>3. Shape' /\ Unwatched'
  BY ZenonT(40), <1>1, Given DEF Shape, Window, Resting, Patching, Unwatched, Has
<1>4. Submitting'
  BY ZenonT(40), <1>1, <1>2, InnerKeepsCounted, Given DEF Submitting, IInv
<1>5. \A q \in dirty' : OnItsWay(q)'
  BY ZenonT(40), <1>2, RuntimeKeepsWay, Given DEF IInv
<1>. QED
  BY ZenonT(40), <1>3, <1>4, <1>5, Suffices

\* A server that does not watch.
LEMMA ElsewhereKeeps ==
  ASSUME WInv, deploy # "watch", UNCHANGED <<watcherVars, deploy>>
  PROVE  WInv'
<1>1. /\ UNCHANGED <<channel, pending, flushTask, listener, toScan, sending, watched,
                     patch, dirty, deploy>>
      /\ dirty = {} /\ listener = "recv"
  BY ZenonT(40), Given DEF watcherVars, Unwatched
<1>2. Shape' /\ Submitting' /\ Unwatched'
  BY ZenonT(40), <1>1, Given DEF Shape, Window, Resting, Patching, Submitting, Unwatched, Has
<1>3. \A q \in dirty' : OnItsWay(q)'
  BY ZenonT(40), <1>1
<1>. QED
  BY ZenonT(40), <1>2, <1>3, Suffices

LEMMA FreshWatcher ==
  ASSUME channel = <<>>, pending = {}, flushTask = "none", listener = "recv",
         toScan = {}, patch = NoPatch, dirty = {}
  PROVE  WInv
<1>1. channel \in Seq(Commands)
  OBVIOUS
<1>. QED
  BY ZenonT(40), <1>1 DEF WInv, Shape, Window, Resting, Patching, Submitting, Unwatched, NoPatch,
              NoChangeIsForgotten

LEMMA NextKeepsChanges ==
  ASSUME WInv, IInv, [Next]_vars
  PROVE  WInv'
<1>1. CASE Runtime
  BY ZenonT(40), <1>1, MeanwhileKeeps, ElsewhereKeeps DEF Runtime, Meanwhile
<1>2. CASE Watches(WatcherRuns) \/ Watches(Reconfigures) \/ Watches(\E r \in Roots : Touch(r))
  BY ZenonT(40), <1>2, ListenerKeeps, ReconfigureKeeps, Touched DEF Watches
<1>3. CASE deploy = "acquire" /\ UNCHANGED <<watcherVars, deploy>>
  BY ZenonT(40), <1>3, ElsewhereKeeps
<1>4. CASE ShutdownBegins /\ UNCHANGED deploy
  <2>1. CASE deploy = "watch"
    <3>1. /\ Tell(Stop)
          /\ UNCHANGED <<pending, flushTask, listener, toScan, sending, dirty, job,
                         watched, patch>>
      BY ZenonT(40), <1>4, <2>1 DEF ShutdownBegins
    <3>2. Patching'
      BY ZenonT(40), <3>1, Given DEF Shape, Patching
    <3>. QED
      BY ZenonT(40), <1>4, <2>1, <3>1, <3>2, Names, Telling
  <2>2. CASE deploy # "watch"
    <3>1. UNCHANGED watcherVars
      BY ZenonT(40), <1>4, <2>2 DEF ShutdownBegins, watcherVars
    <3>. QED
      BY ZenonT(40), <1>4, <2>2, <3>1, ElsewhereKeeps
  <2>. QED
    BY ZenonT(40), <2>1, <2>2
<1>5. CASE Restarts
  <2>1. /\ channel' = <<>> /\ pending' = {} /\ flushTask' = "none" /\ listener' = "recv"
        /\ toScan' = {} /\ patch' = NoPatch /\ dirty' = {}
    BY ZenonT(40), <1>5 DEF Restarts, WatcherRestarts
  <2>2. channel' \in Seq(Commands)
    BY <2>1
  <2>3. Shape' /\ Submitting' /\ Unwatched' /\ \A q \in dirty' : OnItsWay(q)'
    BY ZenonT(40), <2>1, <2>2 DEF Shape, Window, Resting, Patching, NoPatch, Submitting, Unwatched
  <2>. QED
    BY ZenonT(40), <2>3, Suffices
<1>6. CASE UNCHANGED vars
  <2>1. UNCHANGED <<channel, pending, flushTask, listener, toScan, sending, watched,
                    patch, dirty, deploy, job>>
    BY ZenonT(40), <1>6 DEF vars, watcherVars, runtimeVars
  <2>2. Shape' /\ Submitting' /\ Unwatched'
    BY ZenonT(40), <2>1, Given DEF Shape, Window, Resting, Patching, Submitting, Unwatched, Has
  <2>3. \A q \in dirty' : OnItsWay(q)'
    BY ZenonT(40), <2>1, Given DEF OnItsWay, ScanWaits, Has
  <2>. QED
    BY ZenonT(40), <2>2, <2>3, Suffices
<1>. QED
  BY Zenon, <1>1, <1>2, <1>3, <1>4, <1>5, <1>6 DEF Next, Acquires

\* No change the watcher reported is forgotten: Listener::process_events and
\* submit_scans of crates/watcher/src/watcher.rs, whatever the order of events,
\* flushes, configuration requests, scans, refusals, shutdown and restart.
THEOREM NothingForgotten == Spec => []NoChangeIsForgotten
<1>1. Init => WInv
  BY ZenonT(40), FreshWatcher DEF Init, WatcherInit
<1>2. WInv => NoChangeIsForgotten
  BY ZenonT(40) DEF WInv
<1>. QED
  BY <1>1, <1>2, Invariant, NextKeepsChanges, PTL DEF Spec

-------------------------------------------------------------------------------
Phases == {"none", "starting", "downloading", "completed", "error"}
Fetching == {"downloading", "completed", "error"}

RowType == [phase : Phases, fetch : Fetches \cup {"none"}, staged : BOOLEAN,
            attempts : Nat, due : BOOLEAN]
CallType == [pc : {"none", "insert", "post", "error"}] \cup [pc : {"save"}, fetch : Fetches]
VisitType ==
  {NoVisit} \cup [pc : {"list", "ask", "stage", "next"}, at : Grabs, todo : SUBSET Grabs]
            \cup [pc : {"apply"}, at : Grabs, todo : SUBSET Grabs, phase : Fetching]

GrabTypes ==
  /\ row \in [Grabs -> RowType] /\ fetch \in [Fetches -> Fetching \cup {"none"}]
  /\ call \in [Grabs -> CallType] /\ visit \in VisitType

\* What a row follows, or a request is about to save, is a grab of the bridge,
\* and nobody else's.
Follows ==
  \A a \in Grabs : row[a].fetch # "none" => fetch[row[a].fetch] # "none"
Saving ==
  \A a \in Grabs : call[a].pc = "save" =>
    /\ fetch[call[a].fetch] # "none"
    /\ \A x \in Grabs : /\ row[x].fetch # "none" => row[x].fetch # call[a].fetch
                        /\ x # a /\ call[x].pc = "save" => call[x].fetch # call[a].fetch

Followed == Follows /\ Saving /\ TrackedOnce

\* The request that made a row is over; while the row is "starting" no other is
\* in progress either.
Ripe(a) ==
  /\ a \in Grabs /\ row[a].phase # "none" /\ call[a].pc = "none"
  /\ row[a].phase = "starting" => \A x \in Grabs : call[x].pc = "none"

\* A request in progress has its row to itself.
Requested == \A a \in Grabs : call[a].pc # "none" => row[a].phase \in {"none", "starting"}

\* The rows that are due, and the rows of a refresh job, are ripe.
Batches ==
  /\ \A a \in Grabs : row[a].due => Ripe(a)
  /\ \A j \in Refreshing : job[j].arg \subseteq Grabs /\ \A a \in job[j].arg : Ripe(a)

\* The row being visited is one of the running job's, and is not visited again.
Visiting ==
  visit # NoVisit =>
    /\ deploy = "acquire"
    /\ visit.at \notin visit.todo
    /\ \E j \in Jobs : InBody(j) /\ visit.at \in job[j].arg /\ visit.todo \subseteq job[j].arg
    /\ visit.pc = "list" => row[visit.at].phase = "starting"
    /\ visit.pc = "ask" => row[visit.at].fetch # "none"

GInv == GrabTypes /\ Followed /\ Requested /\ Batches /\ Visiting

-------------------------------------------------------------------------------
(* Who follows what. *)

\* Nobody comes to follow a grab.
LEMMA NobodyFollows ==
  ASSUME GrabTypes, Followed,
         \A a \in Grabs : row'[a].fetch = row[a].fetch \/ row'[a].fetch = "none",
         \A b \in Fetches : fetch[b] # "none" => fetch'[b] # "none",
         \A a \in Grabs : call'[a].pc = "save" => call'[a] = call[a]
  PROVE  Followed'
<1>0. \A a \in Grabs : /\ row[a].fetch \in Fetches \cup {"none"}
                       /\ call[a].pc = "save" => call[a].fetch \in Fetches
  BY ZenonT(40) DEF GrabTypes, RowType, CallType
<1>1. Follows'
  <2> SUFFICES ASSUME NEW a \in Grabs, row'[a].fetch # "none"
               PROVE  fetch'[row'[a].fetch] # "none"
    BY ZenonT(40) DEF Follows
  <2>1. row'[a].fetch = row[a].fetch /\ row[a].fetch \in Fetches
    BY ZenonT(40), <1>0
  <2>2. fetch[row[a].fetch] # "none"
    BY ZenonT(40), <2>1 DEF Followed, Follows
  <2>. QED
    BY ZenonT(40), <2>1, <2>2
<1>2. Saving'
  <2> SUFFICES ASSUME NEW a \in Grabs, call'[a].pc = "save"
               PROVE  /\ fetch'[call'[a].fetch] # "none"
                      /\ \A x \in Grabs :
                           /\ row'[x].fetch # "none" => row'[x].fetch # call'[a].fetch
                           /\ x # a /\ call'[x].pc = "save" => call'[x].fetch # call'[a].fetch
    BY ZenonT(40) DEF Saving
  <2>1. call'[a] = call[a] /\ call[a].pc = "save" /\ call[a].fetch \in Fetches
    BY ZenonT(40), <1>0
  <2>2. /\ fetch[call[a].fetch] # "none"
        /\ \A x \in Grabs : /\ row[x].fetch # "none" => row[x].fetch # call[a].fetch
                            /\ x # a /\ call[x].pc = "save" => call[x].fetch # call[a].fetch
    BY ZenonT(40), <2>1 DEF Followed, Saving
  <2>. QED
    BY ZenonT(40), <2>1, <2>2
<1>3. TrackedOnce'
  BY ZenonT(40) DEF Followed, TrackedOnce
<1>. QED
  BY ZenonT(40), <1>1, <1>2, <1>3 DEF Followed

\* The bridge accepts a request.
LEMMA Accepted ==
  ASSUME GrabTypes, Followed, NEW a \in Grabs, NEW b \in Fetches, fetch[b] = "none",
         row' = row, fetch' = [fetch EXCEPT ![b] = "downloading"],
         call' = [call EXCEPT ![a] = [pc |-> "save", fetch |-> b]]
  PROVE  Followed'
<1>0. \A x \in Grabs : /\ row[x].fetch \in Fetches \cup {"none"}
                       /\ call[x].pc = "save" => call[x].fetch \in Fetches
  BY ZenonT(40) DEF GrabTypes, RowType, CallType
<1>1. \A x \in Fetches : fetch[x] # "none" => fetch'[x] # "none" /\ x # b
  BY ZenonT(40) DEF GrabTypes
<1>2. /\ fetch'[b] # "none" /\ call'[a].pc = "save" /\ call'[a].fetch = b
      /\ \A x \in Grabs : x # a => call'[x] = call[x]
  BY ZenonT(40) DEF GrabTypes
<1>3. \A x \in Grabs : row[x].fetch # "none" => row[x].fetch # b
  BY ZenonT(40), <1>0, <1>1 DEF Followed, Follows
<1>4. \A x \in Grabs : call[x].pc = "save" => call[x].fetch # b
  BY ZenonT(40), <1>0, <1>1 DEF Followed, Saving
<1>5. Follows' /\ TrackedOnce'
  BY ZenonT(40), <1>0, <1>1 DEF Followed, Follows, TrackedOnce
<1>6. Saving'
  BY <1>0, <1>1, <1>2, <1>3, <1>4 DEF Followed, Saving
<1>. QED
  BY ZenonT(40), <1>5, <1>6 DEF Followed

\* A row takes a grab that no row and no other request has.
LEMMA Adopted ==
  ASSUME GrabTypes, Followed, NEW a \in Grabs, NEW b \in Fetches, fetch[b] # "none",
         row'[a].fetch = b, \A x \in Grabs \ {a} : row'[x] = row[x],
         \A x \in Grabs \ {a} : row[x].fetch # "none" => row[x].fetch # b,
         \A x \in Grabs : call'[x].pc = "save" => call'[x] = call[x] /\ call[x].fetch # b,
         fetch' = fetch
  PROVE  Followed'
<1>1. Follows' /\ TrackedOnce'
  BY DEF Followed, Follows, TrackedOnce
<1>2. Saving'
  BY DEF Followed, Saving
<1>. QED
  BY ZenonT(40), <1>1, <1>2 DEF Followed

-------------------------------------------------------------------------------
(* What stays ripe. *)

\* A request in progress has to do with no row that is ripe.
LEMMA RequestSpares ==
  ASSUME GrabTypes, NEW a \in Grabs, call[a].pc # "none",
         \A x \in Grabs \ {a} : row'[x] = row[x] /\ call'[x] = call[x],
         NEW x, Ripe(x)
  PROVE  Ripe(x)' /\ x # a /\ row'[x] = row[x]
BY ZenonT(40) DEF Ripe

\* A row that is visited stays ripe, and so does every other.
LEMMA VisitSpares ==
  ASSUME GrabTypes, NEW a \in Grabs, NEW r \in RowType, Saved(a, r), call' = call,
         r.phase # "none", r.phase = "starting" => row[a].phase = "starting",
         NEW x, Ripe(x)
  PROVE  Ripe(x)'
<1>1. row'[a] = [r EXCEPT !.due = FALSE] /\ (x # a => row'[x] = row[x])
  BY ZenonT(40) DEF Saved, GrabTypes, Ripe
<1>2. row'[a].phase = r.phase
  BY ZenonT(40), <1>1 DEF RowType
<1>. QED
  BY Zenon, <1>1, <1>2 DEF Ripe

LEMMA SavedAt ==
  ASSUME GrabTypes, NEW a \in Grabs, NEW r \in RowType, Saved(a, r)
  PROVE  /\ row' \in [Grabs -> RowType]
         /\ row'[a].phase = r.phase /\ row'[a].fetch = r.fetch /\ row'[a].attempts = r.attempts
         /\ row'[a].due = FALSE
         /\ \A x \in Grabs \ {a} : row'[x] = row[x]
<1>1. /\ [r EXCEPT !.due = FALSE] \in RowType
      /\ [r EXCEPT !.due = FALSE].phase = r.phase /\ [r EXCEPT !.due = FALSE].fetch = r.fetch
      /\ [r EXCEPT !.due = FALSE].attempts = r.attempts /\ [r EXCEPT !.due = FALSE].due = FALSE
  BY Zenon DEF RowType
<1>2. row' = [row EXCEPT ![a] = [r EXCEPT !.due = FALSE]] /\ row \in [Grabs -> RowType]
  BY ZenonT(40) DEF Saved, GrabTypes
<1>. QED
  BY ZenonT(40), <1>1, <1>2

LEMMA VisitAt ==
  ASSUME GInv, visit # NoVisit
  PROVE  Ripe(visit.at) /\ visit.at \in Grabs
BY ZenonT(40) DEF GInv, Visiting, Batches, InBody, Refreshing

\* No job and no visit moves, and every row that was ripe stays as it is.
LEMMA RequestsKeep ==
  ASSUME GInv, GrabTypes', Followed', Requested', UNCHANGED <<job, visit, deploy>>,
         \A x \in Grabs : Ripe(x) => Ripe(x)' /\ row'[x] = row[x],
         \A x \in Grabs : row'[x].due => row[x].due
  PROVE  GInv'
<1>1. Refreshing' = Refreshing
  BY ZenonT(40) DEF Refreshing
<1>2. Batches'
  BY ZenonT(40), <1>1 DEF GInv, Batches
<1>4. Visiting'
  BY ZenonT(40), VisitAt DEF GInv, Visiting, InBody
<1>. QED
  BY ZenonT(40), <1>2, <1>4 DEF GInv

-------------------------------------------------------------------------------
(* The requests, the bridge and the clock. *)

\* A step of the request that makes a.
LEMMA RequestKeeps ==
  ASSUME GInv, NEW a \in Grabs, call[a].pc # "none",
         NEW c \in CallType, call' = [call EXCEPT ![a] = c],
         row' \in [Grabs -> RowType], \A x \in Grabs \ {a} : row'[x] = row[x],
         row'[a].due => row'[a] = row[a],
         c.pc = "none" \/ row'[a].phase \in {"none", "starting"},
         fetch' \in [Fetches -> Fetching \cup {"none"}],
         Followed', UNCHANGED <<job, visit, deploy>>
  PROVE  GInv'
<1>1. call' \in [Grabs -> CallType] /\ \A x \in Grabs \ {a} : call'[x] = call[x]
  BY ZenonT(40) DEF GInv, GrabTypes
<1>2. GrabTypes'
  BY ZenonT(40), <1>1 DEF GInv, GrabTypes
<1>3. \A x \in Grabs : Ripe(x) => Ripe(x)' /\ row'[x] = row[x]
  BY ZenonT(40), <1>1, RequestSpares DEF GInv
<1>4. \A x \in Grabs : row'[x].due => row[x].due
  BY ZenonT(40)
<1>5. call'[a] = c
  BY ZenonT(40) DEF GInv, GrabTypes
<1>6. Requested'
  BY ZenonT(40), <1>1, <1>5 DEF GInv, Requested
<1>. QED
  BY ZenonT(40), <1>2, <1>3, <1>4, <1>6, RequestsKeep

LEMMA RequestSteps ==
  ASSUME GInv, RequestRuns, UNCHANGED deploy
  PROVE  GInv'
<1>0. GrabTypes /\ Followed /\ row \in [Grabs -> RowType]
  BY ZenonT(40) DEF GInv, GrabTypes
<1>1. ASSUME NEW a \in Grabs, InsertRow(a)
      PROVE  GInv'
  <2>1. UNCHANGED <<fetch, visit, job>> /\ call[a].pc = "insert"
    BY ZenonT(40), <1>1 DEF InsertRow, FaultOnly, runtimeVars
  <2>2. PICK c \in {[pc |-> "post"], [pc |-> "none"]} : call' = [call EXCEPT ![a] = c]
    BY ZenonT(40), <1>1 DEF InsertRow
  <2>3. c \in CallType /\ c.pc # "save"
    BY <2>2 DEF CallType
  <2>4. /\ row' \in [Grabs -> RowType] /\ \A x \in Grabs \ {a} : row'[x] = row[x]
        /\ row'[a] = row[a] \/ (row'[a].due = FALSE /\ row'[a].fetch = "none")
        /\ c.pc = "none" \/ row'[a].phase \in {"none", "starting"}
    <3>1. CASE row' = row /\ call' = [call EXCEPT ![a] = [pc |-> "none"]]
      <4>1. call'[a] = c /\ call'[a] = [pc |-> "none"]
        BY ZenonT(40), <1>0, <2>2, <3>1 DEF GrabTypes
      <4>. QED
        BY <1>0, <3>1, <4>1
    <3>2. CASE Saved(a, [NoRow EXCEPT !.phase = "starting"])
      <4>1. /\ [NoRow EXCEPT !.phase = "starting"] \in RowType
            /\ [NoRow EXCEPT !.phase = "starting"].fetch = "none"
            /\ [NoRow EXCEPT !.phase = "starting"].phase = "starting"
        BY Zenon DEF NoRow, RowType, Phases
      <4>. QED
        BY Zenon, <1>0, <3>2, <4>1, SavedAt
    <3>. QED
      BY Zenon, <1>1, <3>1, <3>2 DEF InsertRow
  <2>5. \A x \in Grabs : call'[x].pc = "save" => call'[x] = call[x]
    BY ZenonT(40), <1>0, <2>2, <2>3 DEF GrabTypes
  <2>6. \A x \in Grabs : row'[x].fetch = row[x].fetch \/ row'[x].fetch = "none"
    BY ZenonT(40), <2>4
  <2>7. Followed'
    BY ZenonT(40), <1>0, <2>1, <2>5, <2>6, NobodyFollows
  <2>. QED
    BY Zenon, <1>0, <2>1, <2>2, <2>3, <2>4, <2>7, RequestKeeps DEF GrabTypes
<1>2. ASSUME NEW a \in Grabs, Post(a)
      PROVE  GInv'
  <2>1. /\ UNCHANGED <<row, visit, job>> /\ call[a].pc = "post"
        /\ row[a].phase \in {"none", "starting"}
    BY Zenon, <1>2 DEF Post, FaultOnly, runtimeVars, GInv, Requested
  <2>2. CASE \E b \in Fetches : /\ fetch[b] = "none"
                                /\ fetch' = [fetch EXCEPT ![b] = "downloading"]
                                /\ call' = [call EXCEPT ![a] = [pc |-> "save", fetch |-> b]]
    <3>1. PICK b \in Fetches : /\ fetch[b] = "none"
                               /\ fetch' = [fetch EXCEPT ![b] = "downloading"]
                               /\ call' = [call EXCEPT ![a] = [pc |-> "save", fetch |-> b]]
      BY Zenon, <2>2
    <3>2. Followed'
      BY Zenon, <1>0, <2>1, <3>1, Accepted
    <3>3. [pc |-> "save", fetch |-> b] \in CallType
      BY ZenonT(40) DEF CallType
    <3>4. fetch' \in [Fetches -> Fetching \cup {"none"}]
      BY ZenonT(40), <1>0, <3>1 DEF GrabTypes, Fetching
    <3>. QED
      BY Zenon, <1>0, <2>1, <3>1, <3>2, <3>3, <3>4, RequestKeeps
  <2>3. CASE /\ call' = [call EXCEPT ![a] = [pc |-> "error"]]
             /\ fetch' = fetch \/ \E b \in Fetches : fetch' = [fetch EXCEPT ![b] = "downloading"]
    <3>1. /\ fetch' \in [Fetches -> Fetching \cup {"none"}]
          /\ \A b \in Fetches : fetch[b] # "none" => fetch'[b] # "none"
      BY ZenonT(40), <1>0, <2>3 DEF GrabTypes, Fetching
    <3>2. [pc |-> "error"] \in CallType
      BY ZenonT(40) DEF CallType
    <3>3. \A x \in Grabs : call'[x].pc = "save" => call'[x] = call[x]
      BY ZenonT(40), <1>0, <2>3 DEF GrabTypes
    <3>4. Followed'
      BY ZenonT(40), <1>0, <2>1, <3>1, <3>3, NobodyFollows
    <3>. QED
      BY Zenon, <1>0, <2>1, <2>3, <3>1, <3>2, <3>4, RequestKeeps
  <2>. QED
    BY ZenonT(40), <1>2, <2>2, <2>3 DEF Post
<1>3. ASSUME NEW a \in Grabs, SaveGrab(a)
      PROVE  GInv'
  <2>1. /\ UNCHANGED <<fetch, visit, job>> /\ call[a].pc \in {"save", "error"}
        /\ call' = [call EXCEPT ![a] = [pc |-> "none"]]
    BY ZenonT(40), <1>3 DEF SaveGrab, FaultOnly, runtimeVars
  <2>2. [pc |-> "none"] \in CallType /\ row[a] \in RowType
    BY ZenonT(40), <1>0 DEF CallType
  <2>3. \A x \in Grabs : call'[x].pc = "save" => call'[x] = call[x] /\ x # a
    BY ZenonT(40), <1>0, <2>1 DEF GrabTypes
  <2>4. CASE row' = row
    <3>1. Followed'
      BY ZenonT(40), <1>0, <2>1, <2>3, <2>4, NobodyFollows
    <3>. QED
      BY ZenonT(40), <1>0, <2>1, <2>2, <2>4, <3>1, RequestKeeps DEF GrabTypes
  <2>5. CASE Saved(a, [row[a] EXCEPT !.phase = "error"])
    <3>1. /\ [row[a] EXCEPT !.phase = "error"] \in RowType
          /\ [row[a] EXCEPT !.phase = "error"].fetch = row[a].fetch
      BY ZenonT(40), <2>2 DEF RowType, Phases
    <3>2. /\ row' \in [Grabs -> RowType] /\ row'[a].fetch = row[a].fetch
          /\ row'[a].due = FALSE /\ \A x \in Grabs \ {a} : row'[x] = row[x]
      BY ZenonT(40), <1>0, <2>5, <3>1, SavedAt
    <3>3. Followed'
      BY ZenonT(40), <1>0, <2>1, <2>3, <3>2, NobodyFollows
    <3>. QED
      BY Zenon, <1>0, <2>1, <2>2, <3>2, <3>3, RequestKeeps DEF GrabTypes
  <2>6. CASE /\ call[a].pc = "save"
             /\ Saved(a, [row[a] EXCEPT !.phase = "downloading", !.fetch = call[a].fetch])
    <3> DEFINE r == [row[a] EXCEPT !.phase = "downloading", !.fetch = call[a].fetch]
    <3>1. call[a].fetch \in Fetches
      BY ZenonT(40), <1>0, <2>6 DEF GrabTypes, CallType
    <3>2. r \in RowType /\ r.fetch = call[a].fetch
      BY Zenon, <2>2, <3>1 DEF RowType, Phases
    <3>3. /\ row' \in [Grabs -> RowType] /\ row'[a].fetch = call[a].fetch
          /\ row'[a].due = FALSE /\ \A x \in Grabs \ {a} : row'[x] = row[x]
      BY ZenonT(40), <1>0, <2>6, <3>2, SavedAt
    <3>4. /\ fetch[call[a].fetch] # "none"
          /\ \A x \in Grabs : /\ row[x].fetch # "none" => row[x].fetch # call[a].fetch
                              /\ x # a /\ call[x].pc = "save" => call[x].fetch # call[a].fetch
      BY ZenonT(40), <1>0, <2>6 DEF Followed, Saving
    <3>5. \A x \in Grabs : call'[x].pc = "save" => call'[x] = call[x] /\ call[x].fetch # call[a].fetch
      BY ZenonT(40), <2>3, <3>4
    <3>6. Followed'
      BY <1>0, <2>1, <3>1, <3>3, <3>4, <3>5, Adopted
    <3>. QED
      BY Zenon, <1>0, <2>1, <2>2, <3>3, <3>6, RequestKeeps DEF GrabTypes
  <2>. QED
    BY ZenonT(40), <1>3, <2>4, <2>5, <2>6 DEF SaveGrab
<1>. QED
  BY ZenonT(40), <1>1, <1>2, <1>3 DEF RequestRuns

LEMMA OtherSteps ==
  ASSUME GInv, UNCHANGED deploy,
         \/ \E a \in Grabs : CheckActive(a) \/ ComesDue(a)
         \/ \E b \in Fetches : BridgeMoves(b)
  PROVE  GInv'
<1>0. GrabTypes /\ Followed /\ row \in [Grabs -> RowType] /\ Batches
  BY ZenonT(40) DEF GInv, GrabTypes
<1>1. ASSUME NEW a \in Grabs, CheckActive(a)
      PROVE  GInv'
  <2>1. /\ UNCHANGED <<row, fetch, visit, job>>
        /\ call' = [call EXCEPT ![a] = [pc |-> "insert"]]
        /\ row[a].phase = "none"
        /\ \A x \in Grabs : row[x].phase # "starting"
    BY ZenonT(40), <1>1 DEF CheckActive, runtimeVars, Unused, Active
  <2>2. /\ call' \in [Grabs -> CallType] /\ call'[a].pc = "insert"
        /\ \A x \in Grabs \ {a} : call'[x] = call[x]
    BY ZenonT(40), <1>0, <2>1 DEF GrabTypes, CallType
  <2>3. GrabTypes'
    BY ZenonT(40), <1>0, <2>1, <2>2 DEF GrabTypes
  <2>4. Followed'
    BY ZenonT(40), <1>0, <2>1, <2>2, NobodyFollows
  <2>5. \A x \in Grabs : Ripe(x) => Ripe(x)'
    BY ZenonT(40), <2>1, <2>2 DEF Ripe
  <2>6. Requested'
    BY ZenonT(40), <2>1, <2>2 DEF GInv, Requested
  <2>. QED
    BY ZenonT(40), <2>1, <2>3, <2>4, <2>5, <2>6, RequestsKeep
<1>2. ASSUME NEW a \in Grabs, ComesDue(a)
      PROVE  GInv'
  <2>1. /\ UNCHANGED <<fetch, call, visit, job>>
        /\ row' = [row EXCEPT ![a].due = TRUE]
        /\ row[a].phase \in {"starting", "downloading", "completed"}
        /\ row[a].phase = "starting" => \A x \in Grabs : call[x].pc = "none"
    BY ZenonT(40), <1>2 DEF ComesDue, runtimeVars
  <2>2. row[a] \in RowType /\ row' = [row EXCEPT ![a] = [row[a] EXCEPT !.due = TRUE]]
    BY ZenonT(40), <1>0, <2>1
  <2>3. /\ [row[a] EXCEPT !.due = TRUE] \in RowType
        /\ [row[a] EXCEPT !.due = TRUE].phase = row[a].phase
        /\ [row[a] EXCEPT !.due = TRUE].fetch = row[a].fetch
    BY Zenon, <2>2 DEF RowType
  <2>4. /\ row' \in [Grabs -> RowType] /\ \A x \in Grabs \ {a} : row'[x] = row[x]
        /\ row'[a].phase = row[a].phase /\ row'[a].fetch = row[a].fetch
    BY ZenonT(40), <1>0, <2>2, <2>3
  <2>5. \A x \in Grabs : row'[x].phase = row[x].phase /\ row'[x].fetch = row[x].fetch
    BY ZenonT(40), <2>4
  <2>6. GrabTypes'
    BY ZenonT(40), <1>0, <2>1, <2>4 DEF GrabTypes
  <2>7. Followed'
    BY ZenonT(40), <1>0, <2>1, <2>5, NobodyFollows
  <2>8. \A x \in Grabs : (Ripe(x) => Ripe(x)') /\ (x = a => Ripe(x)')
    BY ZenonT(40), <2>1, <2>5 DEF Ripe, GInv, Requested
  <2>9. Batches' /\ Requested'
    <3>1. Refreshing' = Refreshing
      BY ZenonT(40), <2>1 DEF Refreshing
    <3>2. \A x \in Grabs : row'[x].due => Ripe(x)'
      BY ZenonT(40), <1>0, <2>4, <2>8 DEF Batches
    <3>. QED
      BY ZenonT(40), <1>0, <2>1, <2>5, <2>8, <3>1, <3>2 DEF Batches, GInv, Requested
  <2>10. Visiting'
    BY ZenonT(40), <2>1, <2>5, VisitAt DEF GInv, Visiting, InBody
  <2>. QED
    BY ZenonT(40), <2>6, <2>7, <2>9, <2>10 DEF GInv
<1>3. ASSUME NEW b \in Fetches, BridgeMoves(b)
      PROVE  GInv'
  <2>1. UNCHANGED <<row, call, visit, job>>
    BY ZenonT(40), <1>3 DEF BridgeMoves, runtimeVars
  <2>2. PICK p \in {"completed", "error"} : fetch' = [fetch EXCEPT ![b] = p]
    BY ZenonT(40), <1>3 DEF BridgeMoves
  <2>3. /\ fetch' \in [Fetches -> Fetching \cup {"none"}]
        /\ \A x \in Fetches : fetch[x] # "none" => fetch'[x] # "none"
    BY ZenonT(40), <1>0, <2>2 DEF GrabTypes, Fetching
  <2>4. GrabTypes'
    BY ZenonT(40), <1>0, <2>1, <2>3 DEF GrabTypes
  <2>5. Followed'
    BY ZenonT(40), <1>0, <2>1, <2>3, NobodyFollows
  <2>6. \A x \in Grabs : Ripe(x) => Ripe(x)'
    BY ZenonT(40), <2>1 DEF Ripe
  <2>7. Requested'
    BY ZenonT(40), <2>1 DEF GInv, Requested
  <2>. QED
    BY ZenonT(40), <2>1, <2>4, <2>5, <2>6, <2>7, RequestsKeep
<1>. QED
  BY ZenonT(40), <1>1, <1>2, <1>3

-------------------------------------------------------------------------------
(* The visits. *)

LEMMA Visits ==
  ASSUME GrabTypes, visit.pc # "none"
  PROVE  /\ visit # NoVisit /\ visit.at \in Grabs /\ visit.todo \in SUBSET Grabs
         /\ visit.pc = "apply" => visit.phase \in Fetching
BY DEF GrabTypes, VisitType, NoVisit

LEMMA OntoAt ==
  ASSUME GrabTypes, visit.pc \in {"list", "ask", "stage"}, Onto("next")
  PROVE  /\ visit' \in VisitType /\ visit'.pc = "next"
         /\ visit'.at = visit.at /\ visit'.todo = visit.todo
<1>1. visit \in [pc : {"list", "ask", "stage", "next"}, at : Grabs, todo : SUBSET Grabs]
  BY DEF GrabTypes, VisitType, NoVisit
<1>. QED
  BY ZenonT(40), <1>1 DEF Onto, VisitType

\* The row that is visited is saved.
LEMMA VisitSaves ==
  ASSUME GInv, visit.pc # "none", NEW r \in RowType, Saved(visit.at, r),
         r.phase # "none", r.phase = "starting" => row[visit.at].phase = "starting",
         UNCHANGED <<fetch, call, job, deploy>>, Followed',
         visit' \in VisitType, visit'.pc \notin {"list", "ask"},
         visit'.at = visit.at, visit'.todo = visit.todo
  PROVE  GInv'
<1>0. GrabTypes /\ visit # NoVisit /\ visit.at \in Grabs
  BY ZenonT(40), Visits DEF GInv
<1>1. /\ row' \in [Grabs -> RowType] /\ row'[visit.at].due = FALSE
      /\ \A x \in Grabs \ {visit.at} : row'[x] = row[x]
  BY ZenonT(40), <1>0, SavedAt
<1>2. \A x : Ripe(x) => Ripe(x)'
  BY Zenon, <1>0, VisitSpares
<1>3. Refreshing' = Refreshing
  BY Zenon DEF Refreshing
<1>4. Batches'
  BY ZenonT(40), <1>1, <1>2, <1>3 DEF GInv, Batches
<1>5. call[visit.at].pc = "none"
  BY ZenonT(40), <1>0, VisitAt DEF Ripe
<1>6. Requested'
  BY ZenonT(40), <1>1, <1>5 DEF GInv, Requested
<1>7. Visiting'
  BY ZenonT(40), <1>0 DEF GInv, Visiting, InBody
<1>8. GrabTypes'
  BY ZenonT(40), <1>0, <1>1 DEF GrabTypes
<1>. QED
  BY ZenonT(40), <1>4, <1>6, <1>7, <1>8 DEF GInv

\* No row is written.
LEMMA VisitReads ==
  ASSUME GInv, UNCHANGED <<row, fetch, call, job>>, visit' \in VisitType, Visiting'
  PROVE  GInv'
<1>1. GrabTypes' /\ Requested'
  BY ZenonT(40) DEF GInv, GrabTypes, Requested
<1>2. Followed'
  BY ZenonT(40) DEF GInv, Followed, Follows, Saving, TrackedOnce
<1>3. Batches'
  <2>1. Refreshing' = Refreshing /\ \A x : Ripe(x) => Ripe(x)'
    BY ZenonT(40) DEF Refreshing, Ripe
  <2>. QED
    BY ZenonT(40), <2>1 DEF GInv, Batches
<1>. QED
  BY ZenonT(40), <1>1, <1>2, <1>3 DEF GInv

LEMMA VisitSteps ==
  ASSUME IInv, GInv, RefreshWorks \/ BridgeFails,
         UNCHANGED deploy, deploy = "acquire"
  PROVE  GInv'
<1>0. GrabTypes /\ Followed /\ row \in [Grabs -> RowType]
  BY ZenonT(40) DEF GInv, GrabTypes
<1>1. ASSUME NEW j \in Jobs, NEW a \in Grabs, Visit(j, a)
      PROVE  GInv'
  <2> DEFINE todo == (IF visit = NoVisit THEN job[j].arg ELSE visit.todo) \ {a}
  <2>1. InBody(j) /\ UNCHANGED <<row, fetch, call, job>>
    BY ZenonT(40), <1>1 DEF Visit, runtimeVars
  <2>2. job[j].arg \subseteq Grabs
    BY ZenonT(40), <2>1 DEF GInv, Batches, InBody, Refreshing
  <2>3. a \in job[j].arg /\ todo \subseteq job[j].arg
    <3>1. CASE visit = NoVisit
      BY ZenonT(40), <1>1, <3>1 DEF Visit
    <3>2. CASE visit # NoVisit
      <4>1. PICK i \in Jobs : InBody(i) /\ visit.todo \subseteq job[i].arg
        BY ZenonT(40), <3>2 DEF GInv, Visiting
      <4>2. i = j
        BY ZenonT(40), <2>1, <4>1, Pcs DEF IInv, JobInv, Serial, OneAtATime, InBody
      <4>. QED
        BY ZenonT(40), <1>1, <3>2, <4>1, <4>2 DEF Visit
    <3>. QED
      BY ZenonT(40), <3>1, <3>2
  <2>4. PICK pc \in {"list", "ask", "next"} :
          /\ visit' = [pc |-> pc, at |-> a, todo |-> todo]
          /\ pc = "list" => row[a].phase = "starting"
          /\ pc = "ask" => row[a].fetch # "none"
    <3> DEFINE next == IF row[a].phase = "starting" THEN "list"
                       ELSE IF row[a].fetch # "none" THEN "ask" ELSE "next"
    <3>1. visit' = [pc |-> next, at |-> a, todo |-> todo]
      BY Zenon, <1>1 DEF Visit
    <3>2. /\ next \in {"list", "ask", "next"}
          /\ next = "list" => row[a].phase = "starting"
          /\ next = "ask" => row[a].fetch # "none"
      BY ZenonT(40)
    <3> HIDE DEF next, todo
    <3>. QED
      BY ZenonT(40), <3>1, <3>2
  <2>5. visit' \in VisitType
    BY ZenonT(40), <2>2, <2>3, <2>4 DEF VisitType
  <2>6. Visiting'
    BY ZenonT(40), <2>1, <2>3, <2>4 DEF Visiting, InBody
  <2>. QED
    BY ZenonT(40), <2>1, <2>5, <2>6, VisitReads
<1>2. ASSUME NEW r \in RowType, visit.pc # "none", Saved(visit.at, r),
             r.fetch = row[visit.at].fetch, UNCHANGED <<fetch, call, job>>
      PROVE  Followed'
  <2>1. visit.at \in Grabs
    BY ZenonT(40), <1>0, <1>2, Visits
  <2>2. \A x \in Grabs : row'[x].fetch = row[x].fetch
    BY ZenonT(40), <1>0, <1>2, <2>1, SavedAt
  <2>. QED
    BY ZenonT(40), <1>0, <1>2, <2>2, NobodyFollows
<1>3. CASE Ask
  <2>1. /\ visit.pc = "ask" /\ UNCHANGED <<row, fetch, call, job>>
        /\ visit' = [pc |-> "apply", at |-> visit.at, todo |-> visit.todo,
                     phase |-> fetch[row[visit.at].fetch]]
    BY ZenonT(40), <1>3 DEF Ask, At, runtimeVars
  <2>2. visit # NoVisit /\ visit.at \in Grabs /\ visit.todo \in SUBSET Grabs
    BY ZenonT(40), <1>0, <2>1, Visits
  <2>3. fetch[row[visit.at].fetch] \in Fetching
    <3>1. row[visit.at].fetch # "none"
      BY ZenonT(40), <2>1, <2>2 DEF GInv, Visiting
    <3>2. row[visit.at].fetch \in Fetches
      BY ZenonT(40), <1>0, <2>2, <3>1 DEF RowType
    <3>. QED
      BY ZenonT(40), <1>0, <2>2, <3>1, <3>2 DEF GrabTypes, Followed, Follows
  <2>4. visit' \in VisitType
    BY ZenonT(40), <2>1, <2>2, <2>3 DEF VisitType
  <2>5. Visiting'
    BY ZenonT(40), <2>1, <2>2 DEF GInv, Visiting, InBody
  <2>. QED
    BY ZenonT(40), <2>1, <2>4, <2>5, VisitReads
<1>4. CASE BridgeFails
  <2>1. /\ visit.pc \in {"list", "ask"} /\ UNCHANGED <<fetch, call, job>>
        /\ Saved(visit.at, row[visit.at]) /\ Onto("next")
    BY ZenonT(40), <1>4 DEF BridgeFails, At, FaultOnly
  <2>2. visit # NoVisit /\ visit.at \in Grabs /\ row[visit.at] \in RowType
    BY ZenonT(40), <1>0, <2>1, Visits
  <2>3. row[visit.at].phase # "none"
    BY ZenonT(40), <2>2, VisitAt DEF Ripe
  <2>4. Followed'
    BY ZenonT(40), <1>2, <2>1, <2>2
  <2>. QED
    BY ZenonT(40), <1>0, <2>1, <2>2, <2>3, <2>4, OntoAt, VisitSaves
<1>5. CASE Apply
  <2> DEFINE r == [row[visit.at] EXCEPT !.phase = visit.phase]
  <2>1. /\ visit.pc = "apply" /\ UNCHANGED <<fetch, call, job>> /\ Saved(visit.at, r)
        /\ visit' = [pc |-> IF visit.phase = "completed" /\ ~row[visit.at].staged
                            THEN "stage" ELSE "next",
                     at |-> visit.at, todo |-> visit.todo]
    BY ZenonT(40), <1>5 DEF Apply, At, runtimeVars
  <2>2. /\ visit.at \in Grabs /\ visit.todo \in SUBSET Grabs /\ row[visit.at] \in RowType
        /\ visit.phase \in Fetching
    BY ZenonT(40), <1>0, <2>1, Visits
  <2>3. r \in RowType /\ r.phase = visit.phase /\ r.fetch = row[visit.at].fetch
    BY ZenonT(40), <2>2 DEF RowType, Phases, Fetching
  <2>4. Followed'
    BY Zenon, <1>2, <2>1, <2>3
  <2>5. r.phase # "none" /\ r.phase # "starting"
    BY ZenonT(40), <2>2, <2>3 DEF Fetching
  <2>6. /\ visit' \in VisitType /\ visit'.pc \notin {"list", "ask"}
        /\ visit'.at = visit.at /\ visit'.todo = visit.todo
    BY ZenonT(40), <2>1, <2>2 DEF VisitType
  <2> HIDE DEF r
  <2>. QED
    BY ZenonT(40), <2>1, <2>3, <2>4, <2>5, <2>6, VisitSaves
<1>6. CASE Stage
  <2>1. visit.pc = "stage" /\ UNCHANGED <<fetch, call, job>> /\ Onto("next")
    BY ZenonT(40), <1>6 DEF Stage, At, runtimeVars
  <2>2. visit # NoVisit /\ visit.at \in Grabs /\ row[visit.at] \in RowType
    BY ZenonT(40), <1>0, <2>1, Visits
  <2>3. PICK r \in RowType : /\ Saved(visit.at, r) /\ r.fetch = row[visit.at].fetch
                             /\ r.phase = row[visit.at].phase \/ r.phase = "error"
    <3> DEFINE q == row[visit.at]
               p == IF q.attempts + 1 >= MaxAttempts THEN "error" ELSE q.phase
    <3>1. CASE Saved(visit.at, [q EXCEPT !.staged = TRUE])
      <4>1. /\ [q EXCEPT !.staged = TRUE] \in RowType
            /\ [q EXCEPT !.staged = TRUE].fetch = q.fetch
            /\ [q EXCEPT !.staged = TRUE].phase = q.phase
        BY Zenon, <2>2 DEF RowType
      <4>. QED
        BY Zenon, <3>1, <4>1
    <3>2. CASE Saved(visit.at, [q EXCEPT !.attempts = q.attempts + 1, !.phase = p])
      <4> DEFINE n == q.attempts + 1
      <4>1. p \in Phases /\ (p = q.phase \/ p = "error") /\ n \in Nat /\ q \in RowType
        BY <2>2 DEF RowType, Phases
      <4>2. Saved(visit.at, [q EXCEPT !.attempts = n, !.phase = p])
        BY ZenonT(40), <3>2
      <4> HIDE DEF p, q, n
      <4>3. /\ [q EXCEPT !.attempts = n, !.phase = p] \in RowType
            /\ [q EXCEPT !.attempts = n, !.phase = p].fetch = q.fetch
            /\ [q EXCEPT !.attempts = n, !.phase = p].phase = p
        BY ZenonT(40), <4>1 DEF RowType
      <4>. QED
        BY Zenon, <4>1, <4>2, <4>3 DEF q
    <3>. QED
      BY ZenonT(40), <1>6, <2>2, <3>1, <3>2 DEF Stage, RowType
  <2>4. row[visit.at].phase # "none"
    BY ZenonT(40), <2>2, VisitAt DEF Ripe
  <2>5. Followed'
    BY ZenonT(40), <1>2, <2>1, <2>3
  <2>. QED
    BY ZenonT(40), <1>0, <2>1, <2>3, <2>4, <2>5, OntoAt, VisitSaves
<1>7. CASE Adopt
  <2>1. visit.pc = "list" /\ UNCHANGED <<fetch, call, job>>
    BY ZenonT(40), <1>7 DEF Adopt, At, runtimeVars
  <2>2. /\ visit # NoVisit /\ visit.at \in Grabs /\ row[visit.at] \in RowType
        /\ visit.todo \in SUBSET Grabs
    BY ZenonT(40), <1>0, <2>1, Visits
  <2>3. /\ row[visit.at].phase = "starting"
        /\ \A x \in Grabs : call[x].pc = "none"
    BY ZenonT(40), <2>1, <2>2, VisitAt DEF GInv, Visiting, Ripe
  <2>4. CASE Saved(visit.at, [row[visit.at] EXCEPT !.phase = "error"]) /\ Onto("next")
    <3> DEFINE r == [row[visit.at] EXCEPT !.phase = "error"]
    <3>1. r \in RowType /\ r.phase = "error" /\ r.fetch = row[visit.at].fetch
      BY ZenonT(40), <2>2 DEF RowType, Phases
    <3> HIDE DEF r
    <3>2. Saved(visit.at, r)
      BY ZenonT(40), <2>4 DEF r
    <3>3. Followed'
      BY ZenonT(40), <1>2, <2>1, <3>1, <3>2
    <3>. QED
      BY ZenonT(40), <1>0, <2>1, <2>4, <3>1, <3>2, <3>3, OntoAt, VisitSaves
  <2>5. ASSUME NEW b \in Adoptable,
               Saved(visit.at, [row[visit.at] EXCEPT !.fetch = b]),
               visit' = [pc |-> "apply", at |-> visit.at, todo |-> visit.todo,
                         phase |-> fetch[b]]
        PROVE  GInv'
    <3> DEFINE r == [row[visit.at] EXCEPT !.fetch = b]
    <3>1. /\ b \in Fetches /\ fetch[b] # "none"
          /\ \A x \in Grabs : row[x].fetch # "none" => row[x].fetch # b
      BY ZenonT(40), <2>5 DEF Adoptable, Tracked
    <3>2. r \in RowType /\ r.phase = "starting" /\ r.fetch = b
      BY ZenonT(40), <2>2, <2>3, <3>1 DEF RowType
    <3> HIDE DEF r
    <3>3. Saved(visit.at, r)
      BY ZenonT(40), <2>5 DEF r
    <3>4. row'[visit.at].fetch = b /\ \A x \in Grabs \ {visit.at} : row'[x] = row[x]
      BY Zenon, <1>0, <2>2, <3>2, <3>3, SavedAt
    <3>5. Followed'
      BY <1>0, <2>1, <2>2, <2>3, <3>1, <3>4, Adopted
    <3>6. /\ visit' \in VisitType /\ visit'.pc = "apply"
          /\ visit'.at = visit.at /\ visit'.todo = visit.todo
      BY ZenonT(40), <1>0, <2>2, <2>5, <3>1 DEF GrabTypes, VisitType
    <3>. QED
      BY ZenonT(40), <2>1, <2>3, <3>2, <3>3, <3>5, <3>6, VisitSaves
  <2>. QED
    BY Zenon, <1>7, <2>4, <2>5 DEF Adopt
<1>. QED
  BY ZenonT(40), <1>1, <1>3, <1>4, <1>5, <1>6, <1>7 DEF RefreshWorks

-------------------------------------------------------------------------------
(* The jobs. *)

\* A visit goes on while its job stays in its body.
VisitGoesOn ==
  \/ visit' = NoVisit
  \/ /\ visit' = visit
     /\ \A j \in Jobs : InBody(j) => InBody(j)' /\ job'[j].arg = job[j].arg

\* Jobs move; one that is new in Refreshing has rows that are due.
LEMMA JobsMove ==
  ASSUME GInv, UNCHANGED <<row, fetch, deploy>>,
         call' = call \/ call' = [a \in Grabs |-> [pc |-> "none"]],
         \A i \in Refreshing' : \/ i \in Refreshing /\ job'[i].arg = job[i].arg
                                \/ job'[i].arg \subseteq {a \in Grabs : row[a].due},
         VisitGoesOn
  PROVE  GInv'
<1>0. GrabTypes /\ Followed
  BY ZenonT(40) DEF GInv
<1>1. /\ call' \in [Grabs -> CallType]
      /\ \A a \in Grabs : call'[a] = call[a] \/ call'[a].pc = "none"
  BY <1>0 DEF GrabTypes, CallType
<1>2. GrabTypes'
  BY ZenonT(40), <1>0, <1>1 DEF GrabTypes, VisitGoesOn, VisitType
<1>3. Followed'
  BY ZenonT(40), <1>0, <1>1, NobodyFollows
<1>4. Requested'
  BY ZenonT(40), <1>1 DEF GInv, Requested
<1>5. \A x : Ripe(x) => Ripe(x)'
  BY ZenonT(40), <1>1 DEF Ripe
<1>6. Batches'
  BY ZenonT(40), <1>5 DEF GInv, Batches
<1>7. Visiting'
  BY ZenonT(40) DEF GInv, Visiting, VisitGoesOn
<1>. QED
  BY ZenonT(40), <1>2, <1>3, <1>4, <1>6, <1>7 DEF GInv

LEMMA BodyKeeps ==
  ASSUME JobInv, Run, NEW i \in Jobs, InBody(i), job'[i].pc = "body"
  PROVE  InBody(i)' /\ job'[i].arg = job[i].arg
<1>0. job[i].pc = "body" /\ job[i].kind = "refresh"
  BY ZenonT(40) DEF InBody
<1>1. CASE Rests \/ Gone \/ Fresh
  BY ZenonT(40), <1>0, <1>1 DEF Rests, Gone, Fresh, InBody
<1>2. ASSUME NEW j \in Jobs, Sent(j) \/ Dropped(j) \/ Taken(j) \/ Moved(j) \/ Registered(j) \/ Left(j)
      PROVE  job'[i].kind = job[i].kind /\ job'[i].arg = job[i].arg
  <2>1. Others(j) /\ (job[j].pc = "body" => Same(j))
    BY ZenonT(40), <1>2, HeadQueued DEF Sent, Dropped, Taken, Moved, Registered, Left
  <2>. QED
    BY ZenonT(40), <1>0, <2>1 DEF Others, Same
<1>. QED
  BY Zenon, <1>0, <1>1, <1>2 DEF Run, Inner, InBody

\* A step that submits no job, and leaves every job that is in its body there.
LEMMA RunKeeps ==
  ASSUME GInv, IInv, Run, Types', UNCHANGED <<row, fetch, call, deploy>>,
         \/ visit' = NoVisit
         \/ visit' = visit /\ \A j \in Jobs : InBody(j) => job'[j].pc = "body"
  PROVE  GInv'
<1>1. Shrinks
  BY ZenonT(40), MoveShrinks DEF IInv
<1>2. VisitGoesOn
  BY ZenonT(40), BodyKeeps DEF IInv, VisitGoesOn
<1>. QED
  BY ZenonT(40), <1>1, <1>2, JobsMove DEF Shrinks

LEMMA GrabInitHolds == Init => GInv
<1> SUFFICES ASSUME Init
             PROVE  GInv
  BY ZenonT(40)
<1>1. /\ \A j \in Jobs : job[j].pc = "none"
      /\ row = [a \in Grabs |-> NoRow] /\ fetch = [b \in Fetches |-> "none"]
      /\ call = [a \in Grabs |-> [pc |-> "none"]] /\ visit = NoVisit
  BY ZenonT(40) DEF Init, RuntimeInit, GrabInit, NoJob
<1>2. NoRow \in RowType /\ NoRow.fetch = "none" /\ NoRow.due = FALSE
  BY ZenonT(40) DEF NoRow, RowType, Phases
<1>3. GrabTypes
  BY ZenonT(40), <1>1, <1>2 DEF GrabTypes, CallType, VisitType
<1>4. Followed
  BY ZenonT(40), <1>1, <1>2 DEF Followed, Follows, Saving, TrackedOnce
<1>5. Requested /\ Batches /\ Visiting
  BY ZenonT(40), <1>1, <1>2 DEF Requested, Batches, Visiting, Refreshing, Waiting
<1>. QED
  BY ZenonT(40), <1>3, <1>4, <1>5 DEF GInv

LEMMA GrabsKept == IInv /\ GInv /\ [Next]_vars => GInv'
<1> SUFFICES ASSUME IInv, GInv, [Next]_vars
             PROVE  GInv'
  BY ZenonT(40)
<1>0. Types /\ JobInv
  BY ZenonT(40) DEF IInv, JobInv
<1>1. ASSUME Inner, Types', RefreshMeanwhile, UNCHANGED deploy
      PROVE  GInv'
  <2>1. /\ UNCHANGED <<row, fetch, call>>
        /\ \/ visit' = NoVisit
           \/ visit' = visit /\ \A j \in Jobs : InBody(j) => job'[j].pc = "body"
    BY ZenonT(40), <1>1 DEF RefreshMeanwhile, ReleaseClaims
  <2>. QED
    BY Zenon, <1>1, <2>1, RunKeeps DEF Run
<1>2. ASSUME deploy = "watch", UNCHANGED grabVars, UNCHANGED deploy,
             \A i \in Refreshing' : i \in Refreshing /\ job'[i].arg = job[i].arg
      PROVE  GInv'
  <2>1. visit' = NoVisit /\ UNCHANGED <<row, fetch, call>>
    BY ZenonT(40), <1>2 DEF grabVars, GInv, Visiting
  <2>. QED
    BY ZenonT(40), <1>2, <2>1, JobsMove DEF VisitGoesOn
<1>3. CASE Runtime
  <2>1. Types' /\ Inner
    BY ZenonT(40), <1>0, <1>3, RuntimeMoves DEF Runtime
  <2>2. CASE deploy = "watch"
    <3>1. Shrinks
      BY ZenonT(40), <1>0, <2>1, MoveShrinks DEF Run
    <3>. QED
      BY ZenonT(40), <1>2, <1>3, <2>2, <3>1 DEF Runtime, Meanwhile, Shrinks
  <2>3. CASE deploy # "watch"
    BY ZenonT(40), <1>1, <1>3, <2>1, <2>3 DEF Runtime, Meanwhile
  <2>. QED
    BY ZenonT(40), <2>2, <2>3
<1>4. CASE Acquires(RefreshEnds)
  <2>1. PICK j \in Jobs : RefreshReturns(j) \/ RefreshStops(j)
    BY ZenonT(40), <1>4 DEF Acquires, RefreshEnds
  <2>2. /\ job[j].pc = "body" /\ Goto(j, "closing")
        /\ UNCHANGED <<queue, tokens, executor, stop>>
    BY ZenonT(40), <2>1 DEF RefreshReturns, RefreshStops, BodyReturns, InBody
  <2>3. Types' /\ Moved(j)
    BY Zenon, <1>0, <2>2, InnerMoves DEF Open, UserCode, JobPcs
  <2>. QED
    BY ZenonT(40), <1>1, <1>4, <2>3 DEF Acquires, RefreshEnds, Inner
<1>5. CASE Watches(WatcherRuns) \/ Watches(Reconfigures) \/ Watches(\E r \in Roots : Touch(r))
  <2>1. deploy = "watch" /\ UNCHANGED grabVars /\ UNCHANGED deploy
    BY ZenonT(40), <1>5 DEF Watches
  <2>2. CASE job' = job
    <3>1. Refreshing' = Refreshing
      BY ZenonT(40), <2>2 DEF Refreshing
    <3>. QED
      BY ZenonT(40), <1>2, <2>1, <2>2, <3>1
  <2>3. ASSUME NEW r \in Roots, NEW j \in Jobs, SubmitScan(r, j)
        PROVE  GInv'
    <3>1. Submitted(j) /\ job'[j].kind = "scan"
      BY ZenonT(40), <1>0, <2>3, CountMoves DEF SubmitScan, Kinds
    <3>2. \A i \in Refreshing' : i \in Refreshing /\ job'[i].arg = job[i].arg
      BY ZenonT(40), <3>1 DEF Refreshing, Submitted, Others
    <3>. QED
      BY ZenonT(40), <1>2, <2>1, <3>2
  <2>4. ASSUME NEW j \in Jobs, ScanSubmitted(j) \/ ScanRefused(j)
        PROVE  GInv'
    <3>1. Send(j) \/ SendRefused(j)
      BY ZenonT(40), <2>4 DEF ScanSubmitted, ScanRefused
    <3>2. Types' /\ Run
      BY ZenonT(40), <1>0, <3>1, SendMoves DEF Run
    <3>3. Shrinks
      BY ZenonT(40), <1>0, <3>2, MoveShrinks
    <3>. QED
      BY ZenonT(40), <1>2, <2>1, <3>3 DEF Shrinks
  <2>5. \/ job' = job
        \/ \E r \in Roots, j \in Jobs : SubmitScan(r, j)
        \/ \E j \in Jobs : ScanSubmitted(j) \/ ScanRefused(j)
    BY Zenon, <1>5 DEF Watches, WatcherRuns, ListenerRuns, Reconfigures, HandleChangedFiles,
                FlushTaskWakes, HandleFlush, ReadRoots, FaultOnly, HandleAddWatcher,
                HandleRemoveWatcher, HandleStop, PatchTells, PatchCommits, Touch, runtimeVars
  <2>. QED
    BY ZenonT(40), <2>2, <2>3, <2>4, <2>5
<1>6. CASE Acquires(MaintenanceRuns)
  <2>1. UNCHANGED <<row, fetch, call, visit, deploy>>
    BY ZenonT(40), <1>6 DEF Acquires, MaintenanceRuns, Tick, QueryNothing, Dispatch, Query
  <2>2. CASE Tick \/ QueryNothing
    <3>1. job' = job
      BY ZenonT(40), <2>2 DEF Tick, QueryNothing, FaultOnly, runtimeVars
    <3>2. Refreshing' = Refreshing /\ VisitGoesOn
      BY ZenonT(40), <2>1, <3>1 DEF Refreshing, VisitGoesOn, InBody
    <3>. QED
      BY ZenonT(40), <2>1, <3>1, <3>2, JobsMove
  <2>3. ASSUME NEW j \in Jobs, Query(j)
        PROVE  GInv'
    <3>1. DueGrabIds \in (SUBSET Grabs) \cup Roots
      BY ZenonT(40) DEF DueGrabIds
    <3>2. Submitted(j) /\ job'[j].arg = DueGrabIds
      BY ZenonT(40), <1>0, <2>3, <3>1, CountMoves DEF Query, Kinds
    <3>3. \A i \in Refreshing' : \/ i \in Refreshing /\ job'[i].arg = job[i].arg
                                 \/ job'[i].arg \subseteq {a \in Grabs : row[a].due}
      BY ZenonT(40), <3>2 DEF Refreshing, Submitted, Others, DueGrabIds
    <3>4. VisitGoesOn
      BY ZenonT(40), <2>1, <3>2 DEF VisitGoesOn, InBody, Submitted, Others
    <3>. QED
      BY ZenonT(40), <2>1, <3>3, <3>4, JobsMove
  <2>4. CASE Dispatch
    <3>1. /\ maint.job \in Jobs /\ job[maint.job].pc = "counted"
          /\ Send(maint.job) \/ SendRefused(maint.job)
      BY ZenonT(40), <2>4 DEF Dispatch, IInv, Sending
    <3>2. Types' /\ Run /\ Others(maint.job)
      BY Zenon, <1>0, <3>1, SendMoves DEF Run, Sent, Dropped
    <3>. QED
      BY ZenonT(40), <2>1, <3>1, <3>2, RunKeeps DEF Others, InBody
  <2>. QED
    BY ZenonT(40), <1>6, <2>2, <2>3, <2>4 DEF Acquires, MaintenanceRuns
<1>7. ASSUME AbortLoop, UNCHANGED <<row, fetch, call, visit, deploy>>
      PROVE  GInv'
  <2>1. CASE job' = job
    <3>1. Refreshing' = Refreshing /\ VisitGoesOn
      BY ZenonT(40), <1>7, <2>1 DEF Refreshing, VisitGoesOn, InBody
    <3>. QED
      BY ZenonT(40), <1>7, <2>1, <3>1, JobsMove
  <2>2. CASE maint.pc = "send" /\ Goto(maint.job, "lost")
    <3>1. maint.job \in Jobs /\ job[maint.job].pc = "counted"
      BY ZenonT(40), <2>2 DEF IInv, Sending
    <3>2. job'[maint.job].pc = "lost" /\ Others(maint.job)
      BY ZenonT(40), <1>0, <2>2, <3>1, GotoAt DEF JobPcs
    <3>3. \A i \in Refreshing' : i \in Refreshing /\ job'[i].arg = job[i].arg
      BY ZenonT(40), <3>1, <3>2 DEF Refreshing, Waiting, Others
    <3>4. VisitGoesOn
      BY ZenonT(40), <1>7, <3>1, <3>2 DEF VisitGoesOn, InBody, Others
    <3>. QED
      BY ZenonT(40), <1>7, <3>3, <3>4, JobsMove
  <2>. QED
    BY ZenonT(40), <1>7, <2>1, <2>2 DEF AbortLoop
<1>8. CASE Acquires(Reload)
  BY ZenonT(40), <1>7, <1>8 DEF Acquires, Reload
<1>9. CASE Acquires(RefreshWorks) \/ Acquires(BridgeFails)
  BY ZenonT(40), <1>9, VisitSteps DEF Acquires
<1>10. CASE Acquires(RequestRuns)
  BY ZenonT(40), <1>10, RequestSteps DEF Acquires
<1>11. CASE \/ Acquires(\E a \in Grabs : CheckActive(a))
            \/ Acquires(\E a \in Grabs : ComesDue(a))
            \/ Acquires(\E b \in Fetches : BridgeMoves(b))
  BY ZenonT(40), <1>11, OtherSteps DEF Acquires
<1>12. CASE ShutdownBegins /\ UNCHANGED deploy
  <2>1. CASE deploy = "watch"
    <3>1. UNCHANGED <<row, fetch, call, visit, job>>
      BY ZenonT(40), <1>12, <2>1 DEF ShutdownBegins
    <3>2. Refreshing' = Refreshing /\ VisitGoesOn
      BY ZenonT(40), <3>1 DEF Refreshing, VisitGoesOn, InBody
    <3>. QED
      BY ZenonT(40), <1>12, <3>1, <3>2, JobsMove
  <2>2. CASE deploy # "watch"
    BY ZenonT(40), <1>7, <1>12, <2>2 DEF ShutdownBegins
  <2>. QED
    BY <2>1, <2>2
<1>13. CASE Restarts /\ UNCHANGED deploy
  <2>1. /\ UNCHANGED <<row, fetch>> /\ visit' = NoVisit
        /\ call' = [a \in Grabs |-> [pc |-> "none"]]
        /\ \A j \in Jobs : job'[j].pc = "none"
    BY ZenonT(40), <1>13 DEF Restarts, Restart, NoJob
  <2>2. Refreshing' = {}
    BY ZenonT(40), <2>1 DEF Refreshing, Waiting
  <2>. QED
    BY ZenonT(40), <1>13, <2>1, <2>2, JobsMove DEF VisitGoesOn
<1>14. CASE UNCHANGED vars
  <2>1. UNCHANGED <<row, fetch, call, visit, job, deploy>>
    BY ZenonT(40), <1>14 DEF vars, runtimeVars, grabVars
  <2>2. Refreshing' = Refreshing /\ VisitGoesOn
    BY ZenonT(40), <2>1 DEF Refreshing, VisitGoesOn, InBody
  <2>. QED
    BY ZenonT(40), <2>1, <2>2, JobsMove
<1>. QED
  BY ZenonT(40), <1>3, <1>4, <1>5, <1>6, <1>8, <1>9, <1>10, <1>11, <1>12, <1>13, <1>14 DEF Next

\* No two rows follow the same grab of the bridge, for any number of rows and
\* of the bridge's grabs, whichever requests, adoptions, errors and restarts
\* made them.
THEOREM FollowedOnce == Spec => []TrackedOnce
<1>1. Spec => [](IInv /\ GInv)
  BY InitHolds, GrabInitHolds, NextKeeps, GrabsKept, PTL DEF Spec
<1>2. GInv => TrackedOnce
  BY ZenonT(40) DEF GInv, Followed
<1>. QED
  BY <1>1, <1>2, PTL

-------------------------------------------------------------------------------
(* The attempts. *)

\* A row has an attempt left, or has spent the last one and is in error; rows
\* that are due, or that a refresh job has yet to deal with, have one left.
Able(a) == row[a].attempts < MaxAttempts
Spent(a) == row[a].attempts = MaxAttempts /\ row[a].phase = "error"

Attempts ==
  /\ \A a \in Grabs : Able(a) \/ Spent(a)
  /\ \A a \in Grabs : row[a].due => Able(a)
  /\ \A j \in Refreshing : (InBody(j) => visit = NoVisit) => \A a \in job[j].arg : Able(a)
  /\ visit # NoVisit => /\ \A a \in visit.todo : Able(a)
                        /\ visit.pc # "next" => Able(visit.at)

\* Rows change that nobody is visiting.
LEMMA RowsMove ==
  ASSUME GInv, Attempts, UNCHANGED <<job, visit>>,
         \A x \in Grabs : Able(x) => Able(x)',
         \A x \in Grabs : Able(x) \/ Spent(x)',
         \A x \in Grabs : row'[x].due => Able(x)
  PROVE  Attempts'
<1>1. Refreshing' = Refreshing /\ \A j \in Jobs : InBody(j)' = InBody(j)
  BY ZenonT(40) DEF Refreshing, InBody
<1>2. \A j \in Refreshing : j \in Jobs /\ job[j].arg \subseteq Grabs
  BY ZenonT(40) DEF GInv, Batches, Refreshing
<1>3. visit # NoVisit => visit.at \in Grabs /\ visit.todo \subseteq Grabs
  BY Zenon DEF GInv, GrabTypes, VisitType
<1>. QED
  BY ZenonT(40), <1>1, <1>2, <1>3 DEF Attempts

LEMMA AttemptsOfRequests ==
  ASSUME GInv, Attempts, RequestRuns
  PROVE  Attempts'
<1>0. GrabTypes /\ row \in [Grabs -> RowType]
  BY ZenonT(40) DEF GInv, GrabTypes
<1>1. ASSUME NEW a \in Grabs, NEW r \in RowType, Saved(a, r), UNCHANGED <<job, visit>>,
             r.attempts \in {0, row[a].attempts}, row[a].phase # "error"
      PROVE  Attempts'
  <2>1. r.attempts < MaxAttempts
    BY <1>1, GrabAssumption DEF Attempts, Spent, Able
  <2>2. /\ row'[a].attempts = r.attempts /\ row'[a].due = FALSE
        /\ \A x \in Grabs \ {a} : row'[x] = row[x]
    BY ZenonT(40), <1>0, <1>1, SavedAt
  <2>3. \A x \in Grabs : (Able(x) => Able(x)') /\ (row'[x].due => Able(x))
    BY ZenonT(40), <2>1, <2>2 DEF Able, Attempts
  <2>4. \A x \in Grabs : Able(x) \/ Spent(x)'
    <3>1. Able(a)
      BY ZenonT(40), <1>1 DEF Attempts, Spent
    <3>. QED
      BY ZenonT(40), <2>2, <3>1 DEF Attempts, Spent
  <2>. QED
    BY ZenonT(40), <1>1, <2>3, <2>4, RowsMove
<1>2. ASSUME UNCHANGED <<row, job, visit>>
      PROVE  Attempts'
  BY Zenon, <1>2, RowsMove DEF Attempts, Able, Spent
<1>3. ASSUME NEW a \in Grabs, InsertRow(a)
      PROVE  Attempts'
  <2>1. UNCHANGED <<visit, job>> /\ row[a].phase # "error"
    BY ZenonT(40), <1>3 DEF InsertRow, FaultOnly, runtimeVars, GInv, Requested
  <2>2. [NoRow EXCEPT !.phase = "starting"] \in RowType /\ [NoRow EXCEPT !.phase = "starting"].attempts = 0
    BY Zenon DEF NoRow, RowType, Phases
  <2>. QED
    BY Zenon, <1>1, <1>2, <1>3, <2>1, <2>2 DEF InsertRow
<1>4. ASSUME NEW a \in Grabs, Post(a)
      PROVE  Attempts'
  BY Zenon, <1>2, <1>4 DEF Post, FaultOnly, runtimeVars
<1>5. ASSUME NEW a \in Grabs, SaveGrab(a)
      PROVE  Attempts'
  <2>1. UNCHANGED <<visit, job>>
    BY ZenonT(40), <1>5 DEF SaveGrab, FaultOnly, runtimeVars
  <2>2. row[a].phase # "error" /\ row[a] \in RowType
    BY ZenonT(40), <1>0, <1>5 DEF SaveGrab, GInv, Requested
  <2>3. CASE call[a].pc = "save" /\ Saved(a, [row[a] EXCEPT !.phase = "downloading", !.fetch = call[a].fetch])
    <3> DEFINE f == call[a].fetch
    <3>1. f \in Fetches /\ Saved(a, [row[a] EXCEPT !.phase = "downloading", !.fetch = f])
      BY ZenonT(40), <1>0, <2>3 DEF GrabTypes, CallType
    <3> HIDE DEF f
    <3>2. /\ [row[a] EXCEPT !.phase = "downloading", !.fetch = f] \in RowType
          /\ [row[a] EXCEPT !.phase = "downloading", !.fetch = f].attempts = row[a].attempts
      BY Zenon, <2>2, <3>1 DEF RowType, Phases
    <3>. QED
      BY Zenon, <1>1, <2>1, <2>2, <3>1, <3>2
  <2>4. CASE Saved(a, [row[a] EXCEPT !.phase = "error"])
    <3>1. /\ [row[a] EXCEPT !.phase = "error"] \in RowType
          /\ [row[a] EXCEPT !.phase = "error"].attempts = row[a].attempts
      BY ZenonT(40), <2>2 DEF RowType, Phases
    <3>. QED
      BY Zenon, <1>1, <2>1, <2>2, <2>4, <3>1
  <2>5. CASE row' = row
    BY ZenonT(40), <1>2, <2>1, <2>5
  <2>. QED
    BY ZenonT(40), <1>5, <2>3, <2>4, <2>5 DEF SaveGrab
<1>. QED
  BY ZenonT(40), <1>3, <1>4, <1>5 DEF RequestRuns

LEMMA AttemptsElsewhere ==
  ASSUME GInv, Attempts,
         \/ \E a \in Grabs : CheckActive(a) \/ ComesDue(a)
         \/ \E b \in Fetches : BridgeMoves(b)
  PROVE  Attempts'
<1>1. CASE (\E a \in Grabs : CheckActive(a)) \/ \E b \in Fetches : BridgeMoves(b)
  <2>1. UNCHANGED <<row, job, visit>>
    BY Zenon, <1>1 DEF CheckActive, BridgeMoves, runtimeVars
  <2>. QED
    BY ZenonT(40), <2>1, RowsMove DEF Attempts, Able, Spent
<1>2. ASSUME NEW a \in Grabs, ComesDue(a)
      PROVE  Attempts'
  <2>1. /\ UNCHANGED <<job, visit>> /\ row' = [row EXCEPT ![a].due = TRUE]
        /\ row[a].phase # "error"
    BY ZenonT(40), <1>2 DEF ComesDue, runtimeVars
  <2>2. row \in [Grabs -> RowType]
    BY ZenonT(40) DEF GInv, GrabTypes
  <2>3. /\ \A x \in Grabs : row'[x].attempts = row[x].attempts /\ row'[x].phase = row[x].phase
        /\ \A x \in Grabs \ {a} : row'[x] = row[x]
    BY ZenonT(40), <2>1, <2>2 DEF RowType
  <2>4. Able(a)
    BY ZenonT(40), <2>1 DEF Attempts, Spent
  <2>. QED
    BY <2>1, <2>3, <2>4, RowsMove DEF Attempts, Able, Spent
<1>. QED
  BY ZenonT(40), <1>1, <1>2

\* Jobs move: one that stays in its body keeps its visit, and one that is new has
\* rows that are due.
LEMMA BatchesMove ==
  ASSUME GInv, Attempts, row' = row, visit' \in {visit, NoVisit},
         \A i \in Refreshing' :
           \/ /\ i \in Refreshing /\ job'[i].arg = job[i].arg
              /\ InBody(i) => InBody(i)' /\ visit' = visit
           \/ job'[i].arg \subseteq {a \in Grabs : row[a].due}
  PROVE  Attempts'
<1>1. \A a : Able(a)' = Able(a) /\ Spent(a)' = Spent(a)
  BY ZenonT(40) DEF Able, Spent
<1>2. ASSUME NEW i \in Refreshing', InBody(i)' => visit' = NoVisit
      PROVE  \A a \in job'[i].arg : Able(a)'
  <2>1. CASE job'[i].arg \subseteq {a \in Grabs : row[a].due}
    BY ZenonT(40), <1>1, <2>1 DEF Attempts
  <2>2. CASE /\ i \in Refreshing /\ job'[i].arg = job[i].arg
             /\ InBody(i) => InBody(i)' /\ visit' = visit
    BY ZenonT(40), <1>1, <1>2, <2>2 DEF Attempts
  <2>. QED
    BY ZenonT(40), <2>1, <2>2
<1>3. visit' # NoVisit => visit' = visit
  BY ZenonT(40)
<1>. QED
  BY ZenonT(40), <1>1, <1>2, <1>3 DEF Attempts

\* The row that is visited is saved.
LEMMA AttemptSaved ==
  ASSUME IInv, GInv, Attempts, visit.pc \notin {"none", "next"}, NEW r \in RowType,
         Saved(visit.at, r), job' = job,
         visit' # NoVisit, visit'.at = visit.at, visit'.todo = visit.todo,
         \/ r.attempts = row[visit.at].attempts
         \/ /\ r.attempts = row[visit.at].attempts + 1 /\ visit'.pc = "next"
            /\ r.attempts >= MaxAttempts => r.phase = "error"
  PROVE  Attempts'
<1>0. /\ GrabTypes /\ visit # NoVisit /\ visit.at \in Grabs /\ visit.todo \subseteq Grabs
      /\ visit.at \notin visit.todo /\ Able(visit.at) /\ row[visit.at].attempts \in Nat
  BY ZenonT(40), Visits DEF GInv, Visiting, Attempts, GrabTypes, RowType
<1>1. /\ row'[visit.at].attempts = r.attempts /\ row'[visit.at].due = FALSE
      /\ row'[visit.at].phase = r.phase
      /\ \A x \in Grabs \ {visit.at} : row'[x] = row[x]
  BY ZenonT(40), <1>0, SavedAt
<1>2. \A x \in Grabs \ {visit.at} : Able(x)' = Able(x) /\ Spent(x)' = Spent(x)
  BY ZenonT(40), <1>1 DEF Able, Spent
<1>3. /\ Able(visit.at)' \/ Spent(visit.at)'
      /\ visit'.pc # "next" => Able(visit.at)'
  BY <1>0, <1>1, GrabAssumption DEF Able, Spent
<1>4. PICK k \in Jobs : InBody(k) /\ visit.at \in job[k].arg
  BY Zenon, <1>0 DEF GInv, Visiting
<1>5. ASSUME NEW j \in Refreshing', InBody(j)' => visit' = NoVisit
      PROVE  \A a \in job'[j].arg : Able(a)'
  <2>1. j \in Refreshing /\ ~InBody(j)
    BY ZenonT(40), <1>5 DEF Refreshing, InBody
  <2>2. k \in Refreshing /\ k # j
    BY ZenonT(40), <1>4, <2>1 DEF Refreshing, InBody
  <2>3. visit.at \notin job[j].arg
    BY ZenonT(40), <1>4, <2>1, <2>2 DEF IInv, RefreshOwnsItsRows
  <2>4. job[j].arg \subseteq Grabs /\ \A a \in job[j].arg : Able(a)
    BY ZenonT(40), <2>1 DEF Attempts, GInv, Batches
  <2>. QED
    BY ZenonT(40), <1>2, <2>3, <2>4
<1>6. \A a \in visit'.todo : Able(a)'
  BY ZenonT(40), <1>0, <1>2 DEF Attempts
<1>7. \A a \in Grabs : Able(a)' \/ Spent(a)'
  BY ZenonT(40), <1>2, <1>3 DEF Attempts
<1>8. \A a \in Grabs : row'[a].due => Able(a)'
  BY ZenonT(40), <1>1, <1>2 DEF Attempts
<1>9. visit'.pc # "next" => Able(visit.at)'
  BY Zenon, <1>3 DEF Able
<1>. QED
  BY ZenonT(40), <1>5, <1>6, <1>7, <1>8, <1>9 DEF Attempts

LEMMA AttemptsOfVisits ==
  ASSUME IInv, GInv, Attempts, RefreshWorks \/ BridgeFails
  PROVE  Attempts'
<1>0. GrabTypes /\ row \in [Grabs -> RowType]
  BY ZenonT(40) DEF GInv, GrabTypes
<1>1. ASSUME NEW j \in Jobs, NEW a \in Grabs, Visit(j, a)
      PROVE  Attempts'
  <2> DEFINE todo == (IF visit = NoVisit THEN job[j].arg ELSE visit.todo) \ {a}
  <2>1. InBody(j) /\ UNCHANGED <<row, job>> /\ j \in Refreshing
    BY ZenonT(40), <1>1 DEF Visit, runtimeVars, InBody, Refreshing
  <2>2. visit'.at = a /\ visit'.todo = todo /\ visit' # NoVisit
    BY ZenonT(40), <1>1 DEF Visit, NoVisit
  <2>3. Able(a) /\ \A x \in todo : Able(x)
    BY ZenonT(40), <1>1, <2>1 DEF Visit, Attempts
  <2> HIDE DEF todo
  <2>4. \A x : Able(x)' = Able(x) /\ Spent(x)' = Spent(x)
    BY ZenonT(40), <2>1 DEF Able, Spent
  <2>5. ASSUME NEW i \in Refreshing', InBody(i)' => visit' = NoVisit
        PROVE  \A x \in job'[i].arg : Able(x)'
    <3>1. i \in Refreshing /\ ~InBody(i)
      BY ZenonT(40), <2>1, <2>2, <2>5 DEF Refreshing, InBody
    <3>. QED
      BY ZenonT(40), <2>1, <2>4, <3>1 DEF Attempts
  <2>6. visit'.pc # "next" => Able(visit.at)'
    BY ZenonT(40), <2>1, <2>2, <2>3 DEF Able
  <2>. QED
    BY ZenonT(40), <2>1, <2>2, <2>3, <2>4, <2>5, <2>6 DEF Attempts
<1>2. CASE Ask
  <2>1. /\ visit.pc = "ask" /\ UNCHANGED <<row, job>>
        /\ visit'.at = visit.at /\ visit'.todo = visit.todo /\ visit' # NoVisit
    BY Zenon, <1>2 DEF Ask, At, runtimeVars, NoVisit
  <2>2. visit # NoVisit
    BY <2>1 DEF NoVisit
  <2>3. \A x : Able(x)' = Able(x) /\ Spent(x)' = Spent(x)
    BY ZenonT(40), <2>1 DEF Able, Spent
  <2>4. ASSUME NEW i \in Refreshing', InBody(i)' => visit' = NoVisit
        PROVE  \A x \in job'[i].arg : Able(x)'
    <3>1. i \in Refreshing /\ ~InBody(i)
      BY ZenonT(40), <2>1, <2>4 DEF Refreshing, InBody
    <3>. QED
      BY ZenonT(40), <2>1, <2>3, <3>1 DEF Attempts
  <2>5. Able(visit.at)'
    BY ZenonT(40), <2>1, <2>2 DEF Able, Attempts
  <2>. QED
    BY ZenonT(40), <2>1, <2>2, <2>3, <2>4, <2>5 DEF Attempts
<1>3. CASE BridgeFails
  <2>1. /\ visit.pc \in {"list", "ask"} /\ job' = job
        /\ Saved(visit.at, row[visit.at]) /\ Onto("next")
    BY ZenonT(40), <1>3 DEF BridgeFails, At, FaultOnly
  <2>2. row[visit.at] \in RowType
    BY ZenonT(40), <1>0, <2>1, Visits
  <2>3. visit' # NoVisit /\ visit'.at = visit.at /\ visit'.todo = visit.todo
    BY <1>0, <2>1, OntoAt DEF NoVisit
  <2>. QED
    BY ZenonT(40), <2>1, <2>2, <2>3, AttemptSaved
<1>4. CASE Apply
  <2> DEFINE r == [row[visit.at] EXCEPT !.phase = visit.phase]
  <2>1. /\ visit.pc = "apply" /\ job' = job /\ Saved(visit.at, r)
        /\ visit'.at = visit.at /\ visit'.todo = visit.todo /\ visit' # NoVisit
    BY ZenonT(40), <1>4 DEF Apply, At, runtimeVars, NoVisit
  <2>2. row[visit.at] \in RowType /\ visit.phase \in Fetching
    BY ZenonT(40), <1>0, <2>1, Visits
  <2>3. r \in RowType /\ r.attempts = row[visit.at].attempts
    BY ZenonT(40), <2>2 DEF RowType, Phases, Fetching
  <2> HIDE DEF r
  <2>. QED
    BY Zenon, <2>1, <2>3, AttemptSaved
<1>5. CASE Adopt
  <2>1. visit.pc = "list" /\ job' = job
    BY ZenonT(40), <1>5 DEF Adopt, At, runtimeVars
  <2>2. row[visit.at] \in RowType
    BY ZenonT(40), <1>0, <2>1, Visits
  <2>3. CASE Saved(visit.at, [row[visit.at] EXCEPT !.phase = "error"]) /\ Onto("next")
    <3> DEFINE r == [row[visit.at] EXCEPT !.phase = "error"]
    <3>1. r \in RowType /\ r.attempts = row[visit.at].attempts
      BY ZenonT(40), <2>2 DEF RowType, Phases
    <3>2. visit' # NoVisit /\ visit'.at = visit.at /\ visit'.todo = visit.todo
      BY <1>0, <2>1, <2>3, OntoAt DEF NoVisit
    <3>3. Saved(visit.at, r)
      BY ZenonT(40), <2>3
    <3> HIDE DEF r
    <3>. QED
      BY ZenonT(40), <2>1, <3>1, <3>2, <3>3, AttemptSaved
  <2>4. ASSUME NEW b \in Adoptable,
               Saved(visit.at, [row[visit.at] EXCEPT !.fetch = b]),
               visit' = [pc |-> "apply", at |-> visit.at, todo |-> visit.todo,
                         phase |-> fetch[b]]
        PROVE  Attempts'
    <3> DEFINE r == [row[visit.at] EXCEPT !.fetch = b]
    <3>1. b \in Fetches
      BY ZenonT(40), <2>4 DEF Adoptable
    <3>2. r \in RowType /\ r.attempts = row[visit.at].attempts
      BY ZenonT(40), <2>2, <3>1 DEF RowType
    <3>3. visit' # NoVisit /\ visit'.at = visit.at /\ visit'.todo = visit.todo
      BY ZenonT(40), <2>4 DEF NoVisit
    <3>4. Saved(visit.at, r)
      BY ZenonT(40), <2>4
    <3> HIDE DEF r
    <3>. QED
      BY ZenonT(40), <2>1, <3>2, <3>3, <3>4, AttemptSaved
  <2>. QED
    BY ZenonT(40), <1>5, <2>3, <2>4 DEF Adopt
<1>6. CASE Stage
  <2> DEFINE q == row[visit.at]
             p == IF q.attempts + 1 >= MaxAttempts THEN "error" ELSE q.phase
             n == q.attempts + 1
  <2>1. visit.pc = "stage" /\ job' = job /\ Onto("next")
    BY ZenonT(40), <1>6 DEF Stage, At, runtimeVars
  <2>2. q \in RowType
    BY ZenonT(40), <1>0, <2>1, Visits
  <2>3. /\ visit' # NoVisit /\ visit'.at = visit.at /\ visit'.todo = visit.todo
        /\ visit'.pc = "next"
    BY <1>0, <2>1, OntoAt DEF NoVisit
  <2>4. CASE Saved(visit.at, [q EXCEPT !.staged = TRUE])
    <3>1. /\ [q EXCEPT !.staged = TRUE] \in RowType
          /\ [q EXCEPT !.staged = TRUE].attempts = q.attempts
      BY Zenon, <2>2 DEF RowType
    <3>. QED
      BY Zenon, <2>1, <2>3, <2>4, <3>1, AttemptSaved
  <2>5. CASE Saved(visit.at, [q EXCEPT !.attempts = q.attempts + 1, !.phase = p])
    <3>1. p \in Phases /\ (n >= MaxAttempts => p = "error") /\ n \in Nat /\ n = q.attempts + 1
      BY <2>2 DEF RowType, Phases
    <3>2. Saved(visit.at, [q EXCEPT !.attempts = n, !.phase = p])
      BY ZenonT(40), <2>5
    <3> HIDE DEF p, n, q
    <3>3. /\ [q EXCEPT !.attempts = n, !.phase = p] \in RowType
          /\ [q EXCEPT !.attempts = n, !.phase = p].attempts = n
          /\ [q EXCEPT !.attempts = n, !.phase = p].phase = p
      BY Zenon, <2>2, <3>1 DEF RowType
    <3>4. q = row[visit.at]
      BY ZenonT(40) DEF q
    <3>. QED
      BY ZenonT(40), <2>1, <2>3, <3>1, <3>2, <3>3, <3>4, AttemptSaved
  <2>. QED
    BY ZenonT(40), <1>6, <2>2, <2>4, <2>5 DEF Stage, RowType
<1>. QED
  BY ZenonT(40), <1>1, <1>2, <1>3, <1>4, <1>5, <1>6 DEF RefreshWorks

\* A step that submits no job.
LEMMA AttemptsOfRun ==
  ASSUME IInv, GInv, Attempts, Run, Types', row' = row,
         \/ visit' = visit
         \/ visit' = NoVisit /\ \E k \in Jobs : InBody(k) /\ job'[k].pc # "body"
  PROVE  Attempts'
<1>1. Shrinks
  BY ZenonT(40), MoveShrinks DEF IInv
<1>2. ASSUME NEW i \in Refreshing', InBody(i)
      PROVE  InBody(i)' /\ visit' = visit
  <2>1. job'[i].pc = "body" /\ i \in Jobs
    BY ZenonT(40), <1>1, <1>2 DEF Shrinks, InBody, Refreshing
  <2>2. InBody(i)'
    BY ZenonT(40), <1>2, <2>1, BodyKeeps DEF IInv
  <2>3. ASSUME NEW k \in Jobs, InBody(k), job'[k].pc # "body"
        PROVE  FALSE
    <3>1. k = i
      BY ZenonT(40), <1>2, <2>1, <2>3, Pcs DEF IInv, JobInv, Serial, OneAtATime, InBody
    <3>. QED
      BY ZenonT(40), <2>1, <2>3, <3>1
  <2>. QED
    BY ZenonT(40), <2>2, <2>3
<1>. QED
  BY ZenonT(40), <1>1, <1>2, BatchesMove DEF Shrinks

LEMMA AttemptsKept == IInv /\ GInv /\ Attempts /\ [Next]_vars => Attempts'
<1> SUFFICES ASSUME IInv, GInv, Attempts, [Next]_vars
             PROVE  Attempts'
  BY ZenonT(40)
<1>0. Types /\ JobInv
  BY ZenonT(40) DEF IInv, JobInv
<1>1. ASSUME Inner, Types', RefreshMeanwhile
      PROVE  Attempts'
  <2>1. /\ row' = row
        /\ \/ visit' = visit
           \/ visit' = NoVisit /\ \E k \in Jobs : InBody(k) /\ job'[k].pc # "body"
    BY ZenonT(40), <1>1 DEF RefreshMeanwhile, ReleaseClaims
  <2>. QED
    BY ZenonT(40), <1>1, <2>1, AttemptsOfRun DEF Run
<1>2. ASSUME UNCHANGED <<row, visit>>,
             \A i \in Refreshing' : \/ /\ i \in Refreshing /\ job'[i].arg = job[i].arg
                                       /\ InBody(i) => InBody(i)'
                                    \/ job'[i].arg \subseteq {a \in Grabs : row[a].due}
      PROVE  Attempts'
  BY ZenonT(40), <1>2, BatchesMove
<1>3. ASSUME UNCHANGED <<row, visit, job>>
      PROVE  Attempts'
  <2>1. Refreshing' = Refreshing /\ \A i : InBody(i)' = InBody(i)
    BY ZenonT(40), <1>3 DEF Refreshing, InBody
  <2>. QED
    BY ZenonT(40), <1>2, <1>3, <2>1
<1>4. ASSUME NEW j \in Jobs, Send(j) \/ SendRefused(j), UNCHANGED <<row, visit>>
      PROVE  Attempts'
  <2>1. Types' /\ Run
    BY ZenonT(40), <1>0, <1>4, SendMoves DEF Run
  <2>. QED
    BY ZenonT(40), <1>4, <2>1, AttemptsOfRun
<1>5. CASE Runtime
  <2>1. Types' /\ Inner
    BY ZenonT(40), <1>0, <1>5, RuntimeMoves DEF Runtime
  <2>2. CASE deploy = "watch"
    <3>1. UNCHANGED <<row, visit>>
      BY ZenonT(40), <1>5, <2>2 DEF Runtime, Meanwhile, grabVars
    <3>. QED
      BY ZenonT(40), <2>1, <3>1, AttemptsOfRun DEF Run
  <2>3. CASE deploy # "watch"
    BY ZenonT(40), <1>1, <1>5, <2>1, <2>3 DEF Runtime, Meanwhile
  <2>. QED
    BY ZenonT(40), <2>2, <2>3
<1>6. CASE Acquires(RefreshEnds)
  <2>1. PICK j \in Jobs : RefreshReturns(j) \/ RefreshStops(j)
    BY ZenonT(40), <1>6 DEF Acquires, RefreshEnds
  <2>2. /\ job[j].pc = "body" /\ Goto(j, "closing")
        /\ UNCHANGED <<queue, tokens, executor, stop>>
    BY ZenonT(40), <2>1 DEF RefreshReturns, RefreshStops, BodyReturns, InBody
  <2>3. Types' /\ Moved(j)
    BY ZenonT(40), <1>0, <2>2, InnerMoves DEF Open, UserCode, JobPcs
  <2>. QED
    BY ZenonT(40), <1>1, <1>6, <2>3 DEF Acquires, RefreshEnds, Inner
<1>7. CASE Watches(WatcherRuns) \/ Watches(Reconfigures) \/ Watches(\E r \in Roots : Touch(r))
  <2>1. UNCHANGED <<row, visit>>
    BY ZenonT(40), <1>7 DEF Watches, grabVars
  <2>2. ASSUME NEW r \in Roots, NEW j \in Jobs, SubmitScan(r, j)
        PROVE  Attempts'
    <3>1. Submitted(j) /\ job'[j].kind = "scan"
      BY ZenonT(40), <1>0, <2>2, CountMoves DEF SubmitScan, Kinds
    <3>2. \A i \in Refreshing' : /\ i \in Refreshing /\ job'[i].arg = job[i].arg
                                 /\ InBody(i) => InBody(i)'
      BY ZenonT(40), <3>1 DEF Refreshing, Submitted, Others, InBody
    <3>. QED
      BY ZenonT(40), <1>2, <2>1, <3>2
  <2>3. ASSUME NEW j \in Jobs, ScanSubmitted(j) \/ ScanRefused(j)
        PROVE  Attempts'
    BY ZenonT(40), <1>4, <2>1, <2>3 DEF ScanSubmitted, ScanRefused
  <2>4. \/ job' = job
        \/ \E r \in Roots, j \in Jobs : SubmitScan(r, j)
        \/ \E j \in Jobs : ScanSubmitted(j) \/ ScanRefused(j)
    BY Zenon, <1>7 DEF Watches, WatcherRuns, ListenerRuns, Reconfigures, HandleChangedFiles,
                FlushTaskWakes, HandleFlush, ReadRoots, FaultOnly, HandleAddWatcher,
                HandleRemoveWatcher, HandleStop, PatchTells, PatchCommits, Touch, runtimeVars
  <2>. QED
    BY ZenonT(40), <1>3, <2>1, <2>2, <2>3, <2>4
<1>8. CASE Acquires(MaintenanceRuns)
  <2>1. UNCHANGED <<row, visit>>
    BY ZenonT(40), <1>8 DEF Acquires, MaintenanceRuns, Tick, QueryNothing, Dispatch, Query
  <2>2. CASE Tick \/ QueryNothing
    BY ZenonT(40), <1>3, <2>1, <2>2 DEF Tick, QueryNothing, FaultOnly, runtimeVars
  <2>3. ASSUME NEW j \in Jobs, Query(j)
        PROVE  Attempts'
    <3>1. DueGrabIds \in (SUBSET Grabs) \cup Roots
      BY ZenonT(40) DEF DueGrabIds
    <3>2. Submitted(j) /\ job'[j].arg = DueGrabIds
      BY ZenonT(40), <1>0, <2>3, <3>1, CountMoves DEF Query, Kinds
    <3>3. \A i \in Refreshing' : \/ /\ i \in Refreshing /\ job'[i].arg = job[i].arg
                                    /\ InBody(i) => InBody(i)'
                                 \/ job'[i].arg \subseteq {a \in Grabs : row[a].due}
      BY Zenon, <3>2 DEF Refreshing, Submitted, Others, DueGrabIds, InBody
    <3>. QED
      BY ZenonT(40), <1>2, <2>1, <3>3
  <2>4. CASE Dispatch
    <3>1. maint.job \in Jobs /\ (Send(maint.job) \/ SendRefused(maint.job))
      BY ZenonT(40), <2>4 DEF Dispatch, IInv, Sending
    <3>. QED
      BY ZenonT(40), <1>4, <2>1, <3>1
  <2>. QED
    BY ZenonT(40), <1>8, <2>2, <2>3, <2>4 DEF Acquires, MaintenanceRuns
<1>9. ASSUME AbortLoop, UNCHANGED <<row, visit>>
      PROVE  Attempts'
  <2>1. CASE job' = job
    BY ZenonT(40), <1>3, <1>9, <2>1
  <2>2. CASE maint.pc = "send" /\ Goto(maint.job, "lost")
    <3>1. maint.job \in Jobs /\ job[maint.job].pc = "counted"
      BY ZenonT(40), <2>2 DEF IInv, Sending
    <3>2. job'[maint.job].pc = "lost" /\ Others(maint.job)
      BY ZenonT(40), <1>0, <2>2, <3>1, GotoAt DEF JobPcs
    <3>3. \A i \in Refreshing' : i \in Refreshing /\ job'[i] = job[i]
      BY ZenonT(40), <3>1, <3>2 DEF Refreshing, Waiting, Others
    <3>. QED
      BY ZenonT(40), <1>2, <1>9, <3>3 DEF InBody
  <2>. QED
    BY ZenonT(40), <1>9, <2>1, <2>2 DEF AbortLoop
<1>10. CASE Acquires(Reload)
  BY ZenonT(40), <1>9, <1>10 DEF Acquires, Reload
<1>11. CASE Acquires(RefreshWorks) \/ Acquires(BridgeFails)
  BY ZenonT(40), <1>11, AttemptsOfVisits DEF Acquires
<1>12. CASE Acquires(RequestRuns)
  BY ZenonT(40), <1>12, AttemptsOfRequests DEF Acquires
<1>13. CASE \/ Acquires(\E a \in Grabs : CheckActive(a))
            \/ Acquires(\E a \in Grabs : ComesDue(a))
            \/ Acquires(\E b \in Fetches : BridgeMoves(b))
  BY ZenonT(40), <1>13, AttemptsElsewhere DEF Acquires
<1>14. CASE ShutdownBegins /\ UNCHANGED deploy
  <2>1. CASE deploy = "watch"
    BY ZenonT(40), <1>3, <1>14, <2>1 DEF ShutdownBegins
  <2>2. CASE deploy # "watch"
    BY ZenonT(40), <1>9, <1>14, <2>2 DEF ShutdownBegins
  <2>. QED
    BY <2>1, <2>2
<1>15. CASE Restarts /\ UNCHANGED deploy
  <2>1. row' = row /\ visit' = NoVisit /\ \A j \in Jobs : job'[j].pc = "none"
    BY ZenonT(40), <1>15 DEF Restarts, Restart, NoJob
  <2>2. Refreshing' = {}
    BY ZenonT(40), <2>1 DEF Refreshing, Waiting
  <2>. QED
    BY ZenonT(40), <2>1, <2>2, BatchesMove
<1>16. CASE UNCHANGED vars
  BY ZenonT(40), <1>3, <1>16 DEF vars, runtimeVars, grabVars
<1>. QED
  BY Zenon, <1>5, <1>6, <1>7, <1>8, <1>10, <1>11, <1>12, <1>13, <1>14, <1>15, <1>16 DEF Next

LEMMA AttemptsHold == Spec => [](GInv /\ Attempts)
<1>1. Init => Attempts
  <2> SUFFICES ASSUME Init
               PROVE  Attempts
    OBVIOUS
  <2>1. /\ \A j \in Jobs : job[j].pc = "none"
        /\ row = [a \in Grabs |-> NoRow] /\ visit = NoVisit
    BY ZenonT(40) DEF Init, RuntimeInit, GrabInit, NoJob
  <2>2. NoRow.attempts = 0 /\ NoRow.due = FALSE
    BY ZenonT(40) DEF NoRow
  <2>3. Refreshing = {}
    BY ZenonT(40), <2>1 DEF Refreshing, Waiting
  <2>. QED
    BY <2>1, <2>2, <2>3, GrabAssumption DEF Attempts, Able
<1>. QED
  BY <1>1, InitHolds, GrabInitHolds, NextKeeps, GrabsKept, AttemptsKept, PTL DEF Spec

-------------------------------------------------------------------------------
(* Types. *)

\* The watcher's sets are sets of roots.
Rooted ==
  /\ pending \subseteq Roots /\ toScan \subseteq Roots /\ dirty \subseteq Roots
  /\ watched \subseteq Roots /\ enabled \subseteq Roots

LEMMA HeardRoot ==
  ASSUME WInv, NEW name \in {"ChangedFiles", "AddWatcher", "RemoveWatcher"}, Hears(name)
  PROVE  Head(channel).root \in Roots
<1>1. channel \in Seq(Commands) /\ channel # <<>> /\ Head(channel).name = name
  BY ZenonT(40), Given DEF Hears
<1>2. Head(channel) \in Commands
  BY <1>1
<1>. QED
  BY ZenonT(40), <1>1, <1>2 DEF Commands

LEMMA RootedByWatcher ==
  ASSUME WInv, Rooted, WatcherRuns \/ Reconfigures \/ \E r \in Roots : Touch(r)
  PROVE  Rooted'
<1>1. CASE HandleChangedFiles
  BY ZenonT(40), <1>1, HeardRoot DEF HandleChangedFiles, Rooted
<1>2. CASE FlushTaskWakes \/ HandleFlush \/ HandleRemoveWatcher \/ HandleStop
  BY ZenonT(40), <1>2 DEF FlushTaskWakes, HandleFlush, HandleRemoveWatcher, HandleStop, Rooted
<1>3. CASE ReadRoots
  BY ZenonT(40), <1>3 DEF ReadRoots, Rooted
<1>4. CASE HandleAddWatcher
  BY ZenonT(40), <1>4, HeardRoot DEF HandleAddWatcher, Rooted
<1>5. ASSUME NEW j \in Jobs, \/ \E r \in Roots : SubmitScan(r, j)
                             \/ ScanSubmitted(j) \/ ScanRefused(j)
      PROVE  Rooted'
  BY ZenonT(40), <1>5 DEF SubmitScan, ScanSubmitted, ScanRefused, Rooted
<1>6. CASE Reconfigures \/ \E r \in Roots : Touch(r)
  BY ZenonT(40), <1>6 DEF Reconfigures, PatchTells, PatchCommits, Touch, Rooted
<1>. QED
  BY ZenonT(40), <1>1, <1>2, <1>3, <1>4, <1>5, <1>6 DEF WatcherRuns, ListenerRuns

LEMMA RootedKept == WInv /\ Rooted /\ [Next]_vars => Rooted'
<1> SUFFICES ASSUME WInv, Rooted, [Next]_vars
             PROVE  Rooted'
  OBVIOUS
<1>1. CASE UNCHANGED watcherVars
  BY ZenonT(40), <1>1 DEF watcherVars, Rooted
<1>2. CASE Runtime
  BY ZenonT(40), <1>1, <1>2 DEF Runtime, Meanwhile, WatcherMeanwhile, Rooted
<1>3. CASE Watches(WatcherRuns) \/ Watches(Reconfigures) \/ Watches(\E r \in Roots : Touch(r))
  BY ZenonT(40), <1>3, RootedByWatcher DEF Watches
<1>4. CASE ShutdownBegins
  BY ZenonT(40), <1>4 DEF ShutdownBegins, Rooted
<1>5. CASE Restarts
  BY ZenonT(40), <1>5 DEF Restarts, WatcherRestarts, Rooted
<1>. QED
  BY Zenon, <1>1, <1>2, <1>3, <1>4, <1>5 DEF Next, Acquires, vars

\* The types of the variables, and the bounds the code keeps: the tasks of a
\* job, and HANDOFF_MAX_ATTEMPTS for the attempts of a row.
THEOREM TypesHold == Spec => []TypeOK
<1>1. Init => WInv /\ Rooted /\ Control /\ Held
  BY ZenonT(40), FreshWatcher, ControlInit, HeldInit DEF Init, WatcherInit, Rooted
<1>2. WInv /\ IInv /\ [Next]_vars => WInv'
  BY ZenonT(40), NextKeepsChanges
<1>3. Spec => [](WInv /\ Rooted /\ Control /\ Held)
  BY <1>1, <1>2, Invariant, LedgerHolds, RootedKept, ControlKept, HeldKept, PTL DEF Spec
<1>4. /\ IInv /\ Ledger /\ Numbers /\ Lefts
      /\ Rooted /\ Control /\ Held /\ GInv /\ Attempts
      => TypeOK
  <2> SUFFICES ASSUME IInv, Ledger, Numbers, Lefts, Rooted, Control, Held, GInv, Attempts
               PROVE  TypeOK
    BY ZenonT(40)
  <2>1. \A j \in Jobs : /\ job[j].pc \in JobPcs /\ job[j].kind \in Kinds
                        /\ job[j].left \in 0..MaxTasks
    BY ZenonT(40) DEF IInv, JobInv, Types, JobType, Lefts
  <2>2. \A k \in Kinds : queued[k] \in Nat /\ running[k] \in Nat
    BY ZenonT(40) DEF Numbers
  <2>3. \A a \in Grabs : row[a].attempts \in 0..MaxAttempts
    <3> TAKE a \in Grabs
    <3>1. row[a].attempts \in Nat
      BY DEF GInv, GrabTypes, RowType
    <3>. QED
      BY <3>1, GrabAssumption DEF Attempts, Able, Spent
  <2>. QED
    BY ZenonT(40), <2>1, <2>2, <2>3 DEF Control, Ledger, Rooted, Held, TypeOK
<1>. QED
  BY <1>3, <1>4, Invariant, LedgerHolds, NumbersHold, LeftsHold, AttemptsHold, PTL
=============================================================================
