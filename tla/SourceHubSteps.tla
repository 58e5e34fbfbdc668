---------------------------- MODULE SourceHubSteps ----------------------------
(* The inductive invariant of SourceHub, and what its steps do: every step is  *)
(* a step of each grant by itself, and keeps the types.  SourceHubProofs draws *)
(* the theorems.                                                               *)
EXTENDS SourceHub, TLAPS

USE SMTT(30)

-------------------------------------------------------------------------------
(* The inductive invariant. *)

\* The receiver is with the reader exactly while the reader receives, and only a
\* reader that is through has dropped it.
ReceiverHeld ==
  \A g \in Grants : /\ reader[g] = "recv" <=> rx[g] = "held"
                    /\ rx[g] = "dropped" => reader[g] \in Ended

\* The clock expires nothing before its time.
ExpiredIsLate == \A g \in Grants : pend[g].life = "expired" => g \in late

\* A reader that has not queued its grant yet.
Early == {"idle", "register", "send", "queue"}

\* A grant is queued once, on the socket its reader picked, and nobody serves it
\* before it has left that queue.
QueuedOnce ==
  /\ \A e \in Epochs : \A i \in 1..Len(out[e]) :
       /\ picked[out[e][i]] = e /\ reader[out[e][i]] \notin Early
       /\ work[out[e][i]] = "none"
  /\ \A e \in Epochs : \A i, j \in 1..Len(out[e]) : out[e][i] = out[e][j] => i = j
  /\ \A g \in Grants : reader[g] \in Early => work[g] = "none"

\* A grant has one tunnel, and the wire holds what was put on it.
TunnelOnce ==
  \A g \in Grants :
    /\ work[g] \in {"none", "granted", "opening"} =>
         tun[g] = "none" /\ wire[g] = 0 /\ put[g] = 0
    /\ work[g] = "streaming" => wire[g] <= put[g]
    /\ owner[g] # 0 => work[g] # "none"

\* Nobody holds an epoch that was not drawn.
EpochsDrawn ==
  /\ conn <= epochs /\ \A g \in Grants : picked[g] <= epochs
  /\ \A e \in Epochs : sock[e] # "new" => e <= epochs

\* A socket task that handles a frame has one.
FrameInHand == \A e \in Epochs : sock[e] = "handling" => up[e] # <<>>

Served == QueuedOnce /\ TunnelOnce /\ EpochsDrawn /\ FrameInHand

IInv ==
  /\ TypeOK /\ ReceiverHeld /\ Served
  /\ ExpiredIsLate /\ BytesAddUp /\ NoLostWakeup /\ EvictedIsOver

-------------------------------------------------------------------------------
(* What a step may do to one grant. *)

Announced(p, q) ==
  /\ ~IsTerminal(p) /\ ~p.seen
  /\ q.life = (IF p.life = "pending" THEN "ready" ELSE p.life)
  /\ q.seen /\ q.sent = p.sent

Consumed(p, q) ==
  p.life \in {"pending", "ready"} /\ q.life = "consumed" /\ q.seen = p.seen /\ q.sent = p.sent

Carried(p, q) ==
  /\ ~IsTerminal(p) /\ p.sent < Length
  /\ q.life = "consumed" /\ q.seen = p.seen /\ q.sent = p.sent + 1

Completed(p, q) ==
  /\ p.life = "consumed" /\ p.sent = Length
  /\ q.life = "completed" /\ q.seen = p.seen /\ q.sent = p.sent

HasFailed(p, q) ==
  ~IsTerminal(p) /\ q.life = "failed" /\ q.seen = p.seen /\ q.sent = p.sent

HasExpired(p, q) ==
  /\ p.life \in {"pending", "ready"} \/ (p.life = "consumed" /\ ~p.seen)
  /\ q.life = "expired" /\ q.seen = p.seen /\ q.sent = p.sent

Alike(p, q) == q.life = p.life /\ q.seen = p.seen /\ q.sent = p.sent

Moved(g) ==
  LET p == pend[g]
      q == pend'[g]
  IN  /\ q \in Transfer
      /\ \/ Alike(p, q) \/ Announced(p, q) \/ Consumed(p, q) \/ Carried(p, q)
         \/ Completed(p, q) \/ HasFailed(p, q) \/ (HasExpired(p, q) /\ g \in late)

\* A sleeping reader is told.
Told(g) ==
  reader'[g] = "sleep" /\ notify'[g] = "armed" =>
    \/ ~pend'[g].seen /\ ~IsTerminal(pend'[g])
    \/ /\ reader[g] = "sleep" /\ notify[g] = "armed" /\ pend'[g].seen = pend[g].seen
       /\ IsTerminal(pend'[g]) => IsTerminal(pend[g])

Exempt == {"idle", "register", "refused", "direct", "abandoned"}

\* A grant that leaves the registry is over.
Left(g) ==
  reader'[g] \notin Exempt /\ g \notin tracked' =>
    \/ IsTerminal(pend'[g])
    \/ g \notin tracked /\ reader[g] \notin Exempt

GrantStep(g) == Moved(g) /\ Told(g) /\ Left(g)

\* A step that carries no chunk.
SentStays(g) == pend'[g].sent = pend[g].sent

-------------------------------------------------------------------------------
(* The operators on a transfer. *)

LEMMA FailedIs ==
  ASSUME NEW p \in Transfer, NEW cause \in Causes
  PROVE  /\ Failed(p, cause) \in Transfer /\ IsTerminal(Failed(p, cause))
         /\ Alike(p, Failed(p, cause)) \/ HasFailed(p, Failed(p, cause))
         /\ Failed(p, cause).seen = p.seen /\ Failed(p, cause).sent = p.sent
BY ZenonT(40) DEF Transfer, Lives, Causes, Failed, Over, IsTerminal, Terminal, Alike, HasFailed

LEMMA ExpiredIs ==
  ASSUME NEW p \in Transfer
  PROVE  /\ Expired(p) \in Transfer
         /\ Alike(p, Expired(p)) \/ HasExpired(p, Expired(p))
         /\ Expired(p).seen = p.seen /\ Expired(p).sent = p.sent
         /\ Expirable(p) \/ p.life = "expired" => IsTerminal(Expired(p))
         /\ IsTerminal(p) => Expired(p) = p
BY ZenonT(40) DEF Transfer, Lives, Causes, Expired, Expirable, Over, IsTerminal, Terminal, Alike,
       HasExpired

LEMMA ClaimedIs ==
  ASSUME NEW p \in Transfer, Claimable(p)
  PROVE  /\ Claimed(p) \in Transfer /\ ~IsTerminal(p) /\ ~IsTerminal(Claimed(p))
         /\ Alike(p, Claimed(p)) \/ Consumed(p, Claimed(p))
         /\ Claimed(p).seen = p.seen /\ Claimed(p).sent = p.sent
BY ZenonT(40) DEF Transfer, Lives, Claimed, Claimable, IsTerminal, Terminal, Alike, Consumed

LEMMA WokenIs ==
  ASSUME notify \in [Grants -> {"off", "armed", "fired"}], NEW G
  PROVE  /\ Woken(G) \in [Grants -> {"off", "armed", "fired"}]
         /\ \A g \in Grants : Woken(G)[g] = "armed" => notify[g] = "armed" /\ g \notin G
BY ZenonT(40) DEF Woken

\* How a step of a grant is recognised.
LEMMA MakeStep ==
  ASSUME NEW g \in Grants, Moved(g),
         reader'[g] = "sleep" => reader[g] = "sleep",
         reader'[g] \notin Exempt => reader[g] \notin Exempt \/ g \in tracked',
         notify'[g] = "armed" /\ reader'[g] = "sleep" =>
           /\ notify[g] = "armed" /\ pend'[g].seen = pend[g].seen
           /\ IsTerminal(pend'[g]) => IsTerminal(pend[g]),
         g \in tracked /\ g \notin tracked' => IsTerminal(pend'[g]) \/ reader'[g] \in Exempt
  PROVE  GrantStep(g)
BY ZenonT(40) DEF GrantStep, Told, Left

LEMMA SameMoves ==
  ASSUME TypeOK, NEW g \in Grants, pend'[g] = pend[g]
  PROVE  Moved(g) /\ SentStays(g)
BY ZenonT(40) DEF TypeOK, Moved, Alike, SentStays

\* A step that touches neither the grants nor the registry.
LEMMA Calm ==
  ASSUME TypeOK, UNCHANGED <<pend, tracked>>,
         \A h \in Grants : /\ reader'[h] = "sleep" => reader[h] = "sleep" /\ notify'[h] = notify[h]
                           /\ reader'[h] \notin Exempt => reader[h] \notin Exempt
  PROVE  \A h \in Grants : GrantStep(h) /\ SentStays(h)
<1> SUFFICES ASSUME NEW h \in Grants
             PROVE  GrantStep(h) /\ SentStays(h)
  BY ZenonT(40)
<1>1. Moved(h) /\ SentStays(h)
  BY ZenonT(40), SameMoves
<1>. QED
  BY ZenonT(40), <1>1, MakeStep

\* A step that changes one grant and tells its reader, or has no sleeping reader
\* to tell.
LEMMA OneMoves ==
  ASSUME TypeOK, NEW g \in Grants, NEW q \in Transfer, pend' = [pend EXCEPT ![g] = q],
         \A h \in Grants \ {g} :
           /\ reader'[h] = reader[h]
           /\ h \in tracked => h \in tracked'
           /\ notify'[h] = "armed" => notify[h] = "armed",
         \/ Alike(pend[g], q) \/ Announced(pend[g], q) \/ Consumed(pend[g], q)
         \/ Carried(pend[g], q) \/ Completed(pend[g], q) \/ HasFailed(pend[g], q)
         \/ (HasExpired(pend[g], q) /\ g \in late),
         reader'[g] = "sleep" => reader[g] = "sleep",
         reader'[g] \notin Exempt => reader[g] \notin Exempt \/ g \in tracked',
         notify'[g] = "armed" /\ reader'[g] = "sleep" =>
           /\ notify[g] = "armed" /\ q.seen = pend[g].seen
           /\ IsTerminal(q) => IsTerminal(pend[g]),
         g \in tracked /\ g \notin tracked' => IsTerminal(q) \/ reader'[g] \in Exempt
  PROVE  /\ pend' \in [Grants -> Transfer]
         /\ \A h \in Grants : GrantStep(h)
         /\ q.sent = pend[g].sent => \A h \in Grants : SentStays(h)
<1>1. pend \in [Grants -> Transfer]
  BY ZenonT(40) DEF TypeOK
<1>2. /\ pend' \in [Grants -> Transfer] /\ pend'[g] = q
      /\ \A h \in Grants \ {g} : pend'[h] = pend[h]
  BY ZenonT(40), <1>1
<1>3. GrantStep(g)
  <2>1. Moved(g)
    BY ZenonT(40), <1>2 DEF Moved
  <2>. QED
    BY ZenonT(40), <1>2, <2>1, MakeStep
<1>4. ASSUME NEW h \in Grants \ {g}
      PROVE  GrantStep(h) /\ SentStays(h)
  <2>1. Moved(h) /\ SentStays(h)
    BY ZenonT(40), <1>2, SameMoves
  <2>. QED
    BY ZenonT(40), <1>2, <2>1, MakeStep
<1>. QED
  BY ZenonT(40), <1>2, <1>3, <1>4 DEF SentStays

\* Many grants at once: a sweep, or the end of a device's socket.
LEMMA ReapMoves ==
  ASSUME TypeOK, NEW idle \in SUBSET Unattended, Reap(idle)
  PROVE  /\ pend' \in [Grants -> Transfer]
         /\ notify' \in [Grants -> {"off", "armed", "fired"}]
         /\ \A h \in Grants :
              /\ Moved(h) /\ SentStays(h)
              /\ h \in Swept(idle) => IsTerminal(pend'[h])
              /\ notify'[h] = "armed" =>
                   /\ notify[h] = "armed" /\ pend'[h].seen = pend[h].seen
                   /\ IsTerminal(pend'[h]) => IsTerminal(pend[h])
<1>1. pend \in [Grants -> Transfer] /\ notify \in [Grants -> {"off", "armed", "fired"}]
  BY ZenonT(40) DEF TypeOK
<1>2. notify' \in [Grants -> {"off", "armed", "fired"}]
  BY ZenonT(40), <1>1, WokenIs DEF Reap
<1>3. ASSUME NEW h \in Grants
      PROVE  /\ pend'[h] \in Transfer /\ Moved(h) /\ SentStays(h)
             /\ h \in Swept(idle) => IsTerminal(pend'[h])
             /\ notify'[h] = "armed" =>
                  /\ notify[h] = "armed" /\ pend'[h].seen = pend[h].seen
                  /\ IsTerminal(pend'[h]) => IsTerminal(pend[h])
  <2>0. notify'[h] = "armed" =>
          notify[h] = "armed" /\ (h \notin Swept(idle) \/ IsTerminal(pend[h]))
    BY ZenonT(40), <1>1, WokenIs DEF Reap
  <2>1. CASE h \in tracked /\ Expires(h)
    <3>1. pend'[h] = Expired(pend[h]) /\ h \in late /\ h \in Swept(idle)
      BY ZenonT(40), <2>1 DEF Reap, Expires, Swept
    <3>2. IsTerminal(pend'[h])
      BY ZenonT(40), <1>1, <2>1, <3>1, ExpiredIs DEF Expires
    <3>. QED
      BY <1>1, <2>0, <3>1, <3>2, ExpiredIs DEF Moved, SentStays
  <2>2. CASE ~(h \in tracked /\ Expires(h)) /\ h \in idle
    <3>1. pend'[h] = Failed(pend[h], "stalled") /\ h \in Swept(idle) /\ "stalled" \in Causes
      BY ZenonT(40), <2>2 DEF Reap, Swept, Unattended, Causes
    <3>. QED
      BY <1>1, <2>0, <3>1, FailedIs DEF Moved, SentStays
  <2>3. CASE ~(h \in tracked /\ Expires(h)) /\ h \notin idle
    <3>1. pend'[h] = pend[h] /\ (h \in Swept(idle) => IsTerminal(pend[h]))
      BY ZenonT(40), <2>3 DEF Reap, Swept
    <3>. QED
      BY ZenonT(40), <1>1, <2>0, <3>1, SameMoves
  <2>. QED
    BY ZenonT(40), <2>1, <2>2, <2>3
<1>4. pend' \in [Grants -> Transfer]
  BY ZenonT(40), <1>3 DEF Reap
<1>. QED
  BY ZenonT(40), <1>2, <1>3, <1>4

LEMMA DeviceMoves ==
  ASSUME TypeOK, NEW cause \in Causes, FailDeviceGrants(cause), UNCHANGED <<reader, tracked>>
  PROVE  /\ pend' \in [Grants -> Transfer]
         /\ notify' \in [Grants -> {"off", "armed", "fired"}]
         /\ \A h \in Grants : GrantStep(h) /\ SentStays(h)
<1>1. pend \in [Grants -> Transfer] /\ notify \in [Grants -> {"off", "armed", "fired"}]
  BY ZenonT(40) DEF TypeOK
<1>2. notify' \in [Grants -> {"off", "armed", "fired"}]
  BY ZenonT(40), <1>1, WokenIs DEF FailDeviceGrants
<1>3. ASSUME NEW h \in Grants
      PROVE  pend'[h] \in Transfer /\ GrantStep(h) /\ SentStays(h)
  <2>0. notify'[h] = "armed" => notify[h] = "armed" /\ (h \notin tracked \/ IsTerminal(pend[h]))
    BY ZenonT(40), <1>1, WokenIs DEF FailDeviceGrants
  <2>1. CASE h \in tracked
    <3>1. pend'[h] = Failed(pend[h], cause)
      BY ZenonT(40), <2>1 DEF FailDeviceGrants
    <3>2. Moved(h) /\ SentStays(h) /\ pend'[h].seen = pend[h].seen
      BY <1>1, <3>1, FailedIs DEF Moved, SentStays
    <3>. QED
      BY ZenonT(40), <2>0, <2>1, <3>2, MakeStep DEF Moved
  <2>2. CASE h \notin tracked
    <3>1. pend'[h] = pend[h]
      BY <2>2 DEF FailDeviceGrants
    <3>. QED
      BY ZenonT(40), <1>1, <2>0, <3>1, SameMoves, MakeStep
  <2>. QED
    BY ZenonT(40), <2>1, <2>2
<1>4. pend' \in [Grants -> Transfer]
  BY ZenonT(40), <1>3 DEF FailDeviceGrants
<1>. QED
  BY ZenonT(40), <1>2, <1>3, <1>4

-------------------------------------------------------------------------------
(* Every step is a step of each grant, action by action. *)

Steps == pend' \in [Grants -> Transfer] /\ \A h \in Grants : GrantStep(h)

Steady == Steps /\ \A h \in Grants : SentStays(h)

LEMMA CalmIsSteady ==
  ASSUME TypeOK, UNCHANGED <<pend, tracked>>,
         \A h \in Grants : /\ reader'[h] = "sleep" => reader[h] = "sleep" /\ notify'[h] = notify[h]
                           /\ reader'[h] \notin Exempt => reader[h] \notin Exempt
  PROVE  Steady
BY ZenonT(40), Calm DEF TypeOK, Steady, Steps

\* The steps of the worker, of the socket and of the clock.
LEMMA ElsewhereIsSteady ==
  ASSUME TypeOK, UNCHANGED <<pend, tracked, reader, notify>>
  PROVE  Steady
BY ZenonT(40), CalmIsSteady

LEMMA ReaderIsCalm ==
  ASSUME TypeOK, NEW g \in Grants, Issue(g) \/ Lookup(g) \/ Arm(g) \/ Recv(g)
  PROVE  Steady
<1>1. UNCHANGED <<pend, tracked>>
  BY DEF Issue, Lookup, Arm, Recv, grantVars
<1>2. reader \in [Grants -> ReaderPcs] /\ notify \in [Grants -> {"off", "armed", "fired"}]
  BY ZenonT(40) DEF TypeOK
<1>3. ASSUME NEW h \in Grants
      PROVE  /\ reader'[h] = "sleep" => reader[h] = "sleep" /\ notify'[h] = notify[h]
             /\ reader'[h] \notin Exempt => reader[h] \notin Exempt
  BY ZenonT(40), <1>2 DEF Issue, Lookup, Arm, Recv, Goto, Exempt
<1>. QED
  BY ZenonT(40), <1>1, <1>3, CalmIsSteady

LEMMA RegisterIsSteady ==
  ASSUME TypeOK, NEW g \in Grants, Register(g)
  PROVE  Steady
<1>1. reader \in [Grants -> ReaderPcs]
  BY ZenonT(40) DEF TypeOK
<1>2. CASE Goto(g, "refused") /\ UNCHANGED <<tracked, pend, notify>>
  BY ZenonT(40), <1>1, <1>2, CalmIsSteady DEF Goto, Exempt
<1>3. CASE Goto(g, "send") /\ \E idle \in SUBSET Unattended :
             Reap(idle) /\ tracked' = (tracked \ Swept(idle)) \cup {g}
  <2>1. PICK idle \in SUBSET Unattended :
          Reap(idle) /\ tracked' = (tracked \ Swept(idle)) \cup {g}
    BY ZenonT(40), <1>3
  <2>2. ASSUME NEW h \in Grants
        PROVE  GrantStep(h)
    <3>1. /\ reader'[h] = "sleep" => reader[h] = "sleep"
          /\ reader'[h] \notin Exempt => reader[h] \notin Exempt \/ h \in tracked'
      BY ZenonT(40), <1>1, <1>3, <2>1 DEF Goto, Exempt
    <3>. QED
      BY ZenonT(40), <2>1, <3>1, ReapMoves, MakeStep
  <2>. QED
    BY ZenonT(40), <2>1, <2>2, ReapMoves DEF Steady, Steps
<1>. QED
  BY ZenonT(40), <1>2, <1>3 DEF Register

LEMMA RegisterOtherIsSteady ==
  ASSUME TypeOK, RegisterOther
  PROVE  Steady
<1>1. PICK idle \in SUBSET Unattended : Reap(idle) /\ tracked' = tracked \ Swept(idle)
  BY ZenonT(40) DEF RegisterOther
<1>2. UNCHANGED reader
  BY ZenonT(40) DEF RegisterOther
<1>3. ASSUME NEW h \in Grants
      PROVE  GrantStep(h)
  BY ZenonT(40), <1>1, <1>2, ReapMoves, MakeStep
<1>. QED
  BY ZenonT(40), <1>1, <1>3, ReapMoves DEF Steady, Steps

LEMMA FailPendingIsSteady ==
  ASSUME TypeOK, NEW g \in Grants, FailPending(g), UNCHANGED notify
  PROVE  Steady
<1> DEFINE q == IF g \in tracked THEN Failed(pend[g], "unsent") ELSE pend[g]
<1>1. pend[g] \in Transfer /\ reader \in [Grants -> ReaderPcs]
  BY ZenonT(40) DEF TypeOK
<1>2. /\ q \in Transfer /\ q.sent = pend[g].sent
      /\ Alike(pend[g], q) \/ HasFailed(pend[g], q)
  BY ZenonT(40), <1>1, FailedIs DEF Causes, Alike
<1>3. pend' = [pend EXCEPT ![g] = q]
  BY ZenonT(40) DEF FailPending
<1>4. /\ reader'[g] = "refused" /\ reader'[g] \in Exempt
      /\ \A h \in Grants \ {g} : reader'[h] = reader[h] /\ (h \in tracked => h \in tracked')
  BY ZenonT(40), <1>1 DEF FailPending, Goto, Exempt
<1> HIDE DEF q
<1>. QED
  BY Zenon, <1>2, <1>3, <1>4, OneMoves DEF Steady, Steps

LEMMA SendIsSteady ==
  ASSUME TypeOK, NEW g \in Grants, Pick(g) \/ Queue(g)
  PROVE  Steady
<1>1. CASE FailPending(g) /\ UNCHANGED notify
  BY ZenonT(40), <1>1, FailPendingIsSteady
<1>2. CASE /\ reader[g] \in {"send", "queue"} /\ (Goto(g, "queue") \/ Goto(g, "lookup"))
           /\ UNCHANGED <<tracked, pend, notify>>
  <2>1. reader \in [Grants -> ReaderPcs]
    BY ZenonT(40) DEF TypeOK
  <2>. QED
    BY ZenonT(40), <1>2, <2>1, CalmIsSteady DEF Goto, Exempt
<1>. QED
  BY ZenonT(40), <1>1, <1>2 DEF Pick, Queue

LEMMA LookIsSteady ==
  ASSUME TypeOK, ExpiredIsLate, NEW g \in Grants, Look(g)
  PROVE  Steady
<1> DEFINE q == IF Expires(g) THEN Expired(pend[g]) ELSE pend[g]
<1>1. /\ pend[g] \in Transfer /\ reader \in [Grants -> ReaderPcs]
      /\ notify \in [Grants -> {"off", "armed", "fired"}]
  BY ZenonT(40) DEF TypeOK
<1>2. /\ q \in Transfer /\ q.sent = pend[g].sent
      /\ Alike(pend[g], q) \/ (HasExpired(pend[g], q) /\ g \in late)
  BY ZenonT(40), <1>1, ExpiredIs DEF Expires, Alike
<1>3. pend' = [pend EXCEPT ![g] = q] /\ pend'[g] = q
  BY DEF Look, TypeOK
<1>4. /\ reader'[g] = Verdict(g) /\ reader[g] = "look"
      /\ \A h \in Grants \ {g} : /\ reader'[h] = reader[h] /\ (h \in tracked => h \in tracked')
                                  /\ notify'[h] = notify[h]
  BY ZenonT(40), <1>1 DEF Look, Goto
<1>5. Verdict(g) = "sleep" => q = pend[g] /\ ~q.seen /\ ~IsTerminal(q)
  <2>1. pend[g].life = "expired" => Expires(g)
    BY ZenonT(40) DEF ExpiredIsLate, Expires
  <2>. QED
    BY ZenonT(40), <1>1, <2>1 DEF Verdict, IsTerminal, Terminal
<1>6. g \in tracked /\ g \notin tracked' => IsTerminal(q)
  <2>1. Expires(g) => IsTerminal(q)
    BY ZenonT(40), <1>1, ExpiredIs DEF Expires
  <2>. QED
    BY ZenonT(40), <1>1, <2>1 DEF Look, Verdict, IsTerminal, Terminal
<1>7. reader[g] \notin Exempt
  BY ZenonT(40), <1>4 DEF Exempt
<1> HIDE DEF q
<1>8. GrantStep(g)
  <2>1. Moved(g)
    BY ZenonT(40), <1>2, <1>3 DEF Moved
  <2>2. Told(g)
    BY ZenonT(40), <1>3, <1>4, <1>5 DEF Told
  <2>3. Left(g)
    BY ZenonT(40), <1>3, <1>6, <1>7 DEF Left
  <2>. QED
    BY ZenonT(40), <2>1, <2>2, <2>3 DEF GrantStep
<1>9. ASSUME NEW h \in Grants \ {g}
      PROVE  GrantStep(h) /\ SentStays(h)
  <2>1. pend'[h] = pend[h]
    BY ZenonT(40), <1>3 DEF TypeOK
  <2>. QED
    BY ZenonT(40), <1>4, <2>1, SameMoves, MakeStep
<1>10. pend' \in [Grants -> Transfer] /\ SentStays(g)
  BY ZenonT(40), <1>2, <1>3 DEF TypeOK, SentStays
<1>. QED
  BY ZenonT(40), <1>8, <1>9, <1>10 DEF Steady, Steps

LEMMA WakeIsSteady ==
  ASSUME TypeOK, NEW g \in Grants, Wake(g)
  PROVE  Steady
<1>1. /\ pend \in [Grants -> Transfer] /\ reader \in [Grants -> ReaderPcs]
      /\ notify \in [Grants -> {"off", "armed", "fired"}]
  BY ZenonT(40) DEF TypeOK
<1>2. /\ reader'[g] = "arm" /\ reader[g] \notin Exempt /\ UNCHANGED tracked
      /\ \A h \in Grants \ {g} : reader'[h] = reader[h] /\ notify'[h] = notify[h]
  BY ZenonT(40), <1>1 DEF Wake, Goto, Exempt
<1>3. CASE UNCHANGED pend
  BY ZenonT(40), <1>2, <1>3, CalmIsSteady
<1>4. CASE g \in late /\ pend' = [pend EXCEPT ![g] = Expired(@)]
  <2> DEFINE q == Expired(pend[g])
  <2>1. /\ q \in Transfer /\ q.sent = pend[g].sent
        /\ Alike(pend[g], q) \/ (HasExpired(pend[g], q) /\ g \in late)
    BY <1>1, <1>4, ExpiredIs
  <2>2. pend' = [pend EXCEPT ![g] = q]
    BY <1>4
  <2> HIDE DEF q
  <2>. QED
    BY ZenonT(40), <1>2, <2>1, <2>2, OneMoves DEF Steady, Steps
<1>. QED
  BY ZenonT(40), <1>3, <1>4 DEF Wake

LEMMA RefuseClaimIsSteady ==
  ASSUME TypeOK, NEW g \in Grants, RefuseClaim(g), reader[g] = "claim", UNCHANGED notify
  PROVE  Steady
<1> DEFINE q == IF g \in tracked /\ Expires(g) THEN Expired(pend[g]) ELSE pend[g]
<1>1. pend[g] \in Transfer /\ reader \in [Grants -> ReaderPcs]
  BY DEF TypeOK
<1>2. /\ q \in Transfer /\ q.sent = pend[g].sent
      /\ Alike(pend[g], q) \/ (HasExpired(pend[g], q) /\ g \in late)
  BY ZenonT(40), <1>1, ExpiredIs DEF Expires, Alike
<1>3. pend' = [pend EXCEPT ![g] = q] /\ UNCHANGED tracked
  BY ZenonT(40) DEF RefuseClaim
<1>4. /\ reader'[g] # "sleep" /\ reader[g] \notin Exempt
      /\ \A h \in Grants \ {g} : reader'[h] = reader[h]
  BY ZenonT(40), <1>1 DEF RefuseClaim, Goto, ClaimRefusal, Exempt
<1> HIDE DEF q
<1>. QED
  BY Zenon, <1>2, <1>3, <1>4, OneMoves DEF Steady, Steps

LEMMA ClaimIsSteady ==
  ASSUME TypeOK, NEW g \in Grants, ClaimTunnel(g) \/ ConsumeDirect(g)
  PROVE  Steady
<1>1. pend \in [Grants -> Transfer] /\ reader \in [Grants -> ReaderPcs]
  BY ZenonT(40) DEF TypeOK
<1>2. CASE RefuseClaim(g)
  BY ZenonT(40), <1>2, RefuseClaimIsSteady DEF ClaimTunnel, ConsumeDirect
<1>3. CASE ClaimTunnel(g) /\ ~RefuseClaim(g)
  <2>1. /\ Claimable(pend[g]) /\ pend' = [pend EXCEPT ![g] = Claimed(@)]
        /\ Goto(g, "recv") /\ UNCHANGED <<tracked, notify>> /\ reader[g] = "claim"
    BY ZenonT(40), <1>3 DEF ClaimTunnel
  <2>2. /\ reader'[g] = "recv" /\ reader[g] \notin Exempt
        /\ \A h \in Grants \ {g} : reader'[h] = reader[h]
    BY ZenonT(40), <1>1, <2>1 DEF Goto, Exempt
  <2> DEFINE q == Claimed(pend[g])
  <2>3. /\ q \in Transfer /\ q.sent = pend[g].sent
        /\ Alike(pend[g], q) \/ Consumed(pend[g], q)
    BY ZenonT(40), <1>1, <2>1, ClaimedIs
  <2>4. pend' = [pend EXCEPT ![g] = q]
    BY ZenonT(40), <2>1
  <2> HIDE DEF q
  <2>. QED
    BY Zenon, <2>1, <2>2, <2>3, <2>4, OneMoves DEF Steady, Steps
<1>4. CASE ConsumeDirect(g) /\ ~RefuseClaim(g)
  <2> DEFINE q == [life |-> "consumed", cause |-> pend[g].cause, claimed |-> pend[g].claimed,
                   seen |-> pend[g].seen, sent |-> pend[g].sent, tx |-> pend[g].tx]
  <2>1. /\ pend[g].life = "ready" /\ pend' = [pend EXCEPT ![g] = q]
        /\ Goto(g, "direct") /\ tracked' = tracked \ {g} /\ UNCHANGED notify
    BY ZenonT(40), <1>4 DEF ConsumeDirect
  <2>2. /\ reader'[g] = "direct" /\ reader'[g] \in Exempt
        /\ \A h \in Grants \ {g} : reader'[h] = reader[h] /\ (h \in tracked => h \in tracked')
    BY ZenonT(40), <1>1, <2>1 DEF Goto, Exempt
  <2>3. q \in Transfer /\ Consumed(pend[g], q) /\ q.sent = pend[g].sent
    BY ZenonT(40), <1>1, <2>1 DEF Transfer, Lives, Consumed
  <2> HIDE DEF q
  <2>. QED
    BY ZenonT(40), <2>1, <2>2, <2>3, OneMoves DEF Steady, Steps
<1>. QED
  BY ZenonT(40), <1>2, <1>3, <1>4

\* The receiver is dropped by a reader that ends.
LEMMA DropIsSteady ==
  ASSUME TypeOK, NEW g \in Grants, EndOfStream(g) \/ Stall(g) \/ Abandon(g)
  PROVE  Steady
<1>1. /\ pend \in [Grants -> Transfer] /\ reader \in [Grants -> ReaderPcs]
      /\ notify \in [Grants -> {"off", "armed", "fired"}]
  BY ZenonT(40) DEF TypeOK
<1>2. /\ reader'[g] # "sleep" /\ (reader'[g] \in Exempt \/ reader[g] \notin Exempt)
      /\ \A h \in Grants \ {g} : reader'[h] = reader[h] /\ notify'[h] = notify[h]
  BY ZenonT(40), <1>1 DEF EndOfStream, Stall, Abandon, Goto, Exempt
<1>3. CASE UNCHANGED grantVars
  BY ZenonT(40), <1>2, <1>3, CalmIsSteady DEF grantVars
<1>4. CASE \E cause \in Causes : DropReceiver(g, cause)
  <2>1. PICK cause \in Causes : DropReceiver(g, cause)
    BY <1>4
  <2> DEFINE q == Failed(pend[g], cause)
  <2>2. /\ pend' = [pend EXCEPT ![g] = q]
        /\ \A h \in Grants \ {g} : h \in tracked => h \in tracked'
    BY <2>1 DEF DropReceiver
  <2>3. /\ q \in Transfer /\ q.sent = pend[g].sent /\ IsTerminal(q)
        /\ Alike(pend[g], q) \/ HasFailed(pend[g], q)
    BY ZenonT(40), <1>1, FailedIs
  <2> HIDE DEF q
  <2>. QED
    BY Zenon, <1>2, <2>2, <2>3, OneMoves DEF Steady, Steps
<1>. QED
  BY ZenonT(40), <1>3, <1>4 DEF EndOfStream, Stall, Abandon, Causes

LEMMA ReadReadyIsSteady ==
  ASSUME TypeOK, NEW g \in Grants, ReadReady(g), UNCHANGED <<reader, tracked>>
  PROVE  Steady
<1>1. pend \in [Grants -> Transfer] /\ notify \in [Grants -> {"off", "armed", "fired"}]
  BY ZenonT(40) DEF TypeOK
<1> DEFINE life == IF pend[g].life = "pending" THEN "ready" ELSE pend[g].life
           q == [life |-> life, cause |-> pend[g].cause, claimed |-> pend[g].claimed,
                 seen |-> TRUE, sent |-> pend[g].sent, tx |-> pend[g].tx]
<1>2. CASE /\ ~pend[g].seen /\ (pend[g].life = "ready" \/ Claimable(pend[g]))
           /\ pend' = [pend EXCEPT ![g] = q] /\ notify' = Woken({g})
  <2>1. q \in Transfer /\ Announced(pend[g], q) /\ q.sent = pend[g].sent
    BY ZenonT(40), <1>1, <1>2 DEF Transfer, Lives, Claimable, Announced, IsTerminal, Terminal
  <2> HIDE DEF q
  <2>. QED
    BY Zenon, <1>1, <1>2, <2>1, WokenIs, OneMoves DEF Steady, Steps
<1>3. CASE /\ Expires(g) /\ pend' = [pend EXCEPT ![g] = Expired(@)]
           /\ notify' = Woken(IF IsTerminal(pend[g]) THEN {} ELSE {g})
  <2> DEFINE x == Expired(pend[g])
  <2>1. /\ x \in Transfer /\ x.sent = pend[g].sent /\ x.seen = pend[g].seen
        /\ Alike(pend[g], x) \/ (HasExpired(pend[g], x) /\ g \in late)
    BY ZenonT(40), <1>1, <1>3, ExpiredIs DEF Expires
  <2>2. pend' = [pend EXCEPT ![g] = x]
    BY ZenonT(40), <1>3
  <2>3. /\ notify'[g] = "armed" => notify[g] = "armed" /\ IsTerminal(pend[g])
        /\ \A h \in Grants : notify'[h] = "armed" => notify[h] = "armed"
    BY ZenonT(40), <1>1, <1>3, WokenIs
  <2> HIDE DEF x
  <2>. QED
    BY Zenon, <2>1, <2>2, <2>3, OneMoves DEF Steady, Steps
<1>4. CASE UNCHANGED <<pend, notify>>
  BY ZenonT(40), <1>4, ElsewhereIsSteady
<1>. QED
  BY ZenonT(40), <1>2, <1>3, <1>4 DEF ReadReady

LEMMA ReadFailedIsSteady ==
  ASSUME TypeOK, NEW g \in Grants, ReadFailed(g), UNCHANGED <<reader, tracked>>
  PROVE  Steady
<1>1. pend \in [Grants -> Transfer] /\ notify \in [Grants -> {"off", "armed", "fired"}]
  BY ZenonT(40) DEF TypeOK
<1> DEFINE q == IF Expires(g) THEN Expired(pend[g]) ELSE Failed(pend[g], "worker")
<1>2. CASE /\ pend' = [pend EXCEPT ![g] = q]
           /\ notify' = Woken(IF IsTerminal(pend[g]) THEN {} ELSE {g})
  <2>1. /\ q \in Transfer /\ q.sent = pend[g].sent /\ q.seen = pend[g].seen
        /\ \/ Alike(pend[g], q) \/ HasFailed(pend[g], q)
           \/ (HasExpired(pend[g], q) /\ g \in late)
    BY <1>1, FailedIs, ExpiredIs DEF Expires, Causes
  <2> HIDE DEF q
  <2>. QED
    BY ZenonT(40), <1>1, <1>2, <2>1, WokenIs, OneMoves DEF Steady, Steps
<1>3. CASE UNCHANGED <<pend, notify>>
  BY <1>3, ElsewhereIsSteady
<1>. QED
  BY ZenonT(40), <1>2, <1>3 DEF ReadFailed

LEMMA HandleFrameIsSteady ==
  ASSUME TypeOK, FrameInHand, NEW e \in Epochs, HandleFrame(e)
  PROVE  Steady
<1>1. Head(up[e]) \in Frames /\ UNCHANGED <<reader, tracked>>
  BY DEF TypeOK, FrameInHand, HandleFrame
<1>2. Head(up[e])[2] \in Grants
  BY ZenonT(40), <1>1 DEF Frames
<1>. QED
  BY ZenonT(40), <1>1, <1>2, ReadReadyIsSteady, ReadFailedIsSteady DEF HandleFrame

LEMMA DeviceIsSteady ==
  ASSUME TypeOK, NEW e \in Epochs, Hello(e) \/ DetachFails(e)
  PROVE  Steady
<1>1. UNCHANGED <<reader, tracked>> /\ \E cause \in Causes : FailDeviceGrants(cause)
  BY DEF Hello, DetachFails, Causes
<1>. QED
  BY ZenonT(40), <1>1, DeviceMoves DEF Steady, Steps

LEMMA PushAccountsSteps ==
  ASSUME TypeOK, NEW g \in Grants, PushAccounts(g), UNCHANGED <<reader, tracked>>
  PROVE  /\ Steps /\ pend'[g].sent = pend[g].sent + 1
         /\ \A h \in Grants \ {g} : SentStays(h)
<1> DEFINE q == [life |-> "consumed", cause |-> pend[g].cause, claimed |-> TRUE,
                 seen |-> pend[g].seen, sent |-> pend[g].sent + 1, tx |-> pend[g].tx]
<1>1. pend \in [Grants -> Transfer] /\ Length \in Nat
  BY ZenonT(40), ConstantsAreSane DEF TypeOK
<1>2. /\ Claimable(pend[g]) /\ pend[g].sent < Length /\ UNCHANGED notify
      /\ pend' = [pend EXCEPT ![g] = q]
  BY ZenonT(40) DEF PushAccounts
<1>3. /\ q \in Transfer /\ Carried(pend[g], q) /\ ~IsTerminal(q)
      /\ q.seen = pend[g].seen /\ q.sent = pend[g].sent + 1
  BY <1>1, <1>2 DEF Transfer, Lives, Claimable, Carried, IsTerminal, Terminal
<1> HIDE DEF q
<1>4. Steps
  BY ZenonT(40), <1>2, <1>3, OneMoves DEF Steps
<1>. QED
  BY ZenonT(40), <1>1, <1>2, <1>3, <1>4 DEF SentStays

LEMMA PushRefusedIsSteady ==
  ASSUME TypeOK, NEW g \in Grants, PushRefused(g), UNCHANGED <<reader, tracked>>
  PROVE  Steady
<1> DEFINE expires == g \in tracked /\ Expires(g)
           excess == /\ g \in tracked /\ ~expires
                     /\ Claimable(pend[g]) /\ pend[g].sent = Length
           q == IF expires THEN Expired(pend[g])
                ELSE IF excess THEN Failed(Claimed(pend[g]), "budget") ELSE pend[g]
<1>1. pend \in [Grants -> Transfer] /\ notify \in [Grants -> {"off", "armed", "fired"}]
  BY DEF TypeOK
<1>2. /\ pend' = [pend EXCEPT ![g] = q]
      /\ notify' = Woken(IF (expires \/ excess) /\ ~IsTerminal(pend[g]) THEN {g} ELSE {})
  BY ZenonT(40) DEF PushRefused
<1>3. /\ q \in Transfer /\ q.sent = pend[g].sent /\ q.seen = pend[g].seen
      /\ \/ Alike(pend[g], q) \/ HasFailed(pend[g], q)
         \/ (HasExpired(pend[g], q) /\ g \in late)
      /\ expires \/ excess \/ q = pend[g]
  <2>1. CASE expires
    BY ZenonT(40), <1>1, <2>1, ExpiredIs DEF Expires
  <2>2. CASE ~expires /\ excess
    <3>1. /\ Claimed(pend[g]) \in Transfer /\ ~IsTerminal(pend[g])
          /\ ~IsTerminal(Claimed(pend[g])) /\ Claimed(pend[g]).seen = pend[g].seen
          /\ Claimed(pend[g]).sent = pend[g].sent
      BY ZenonT(40), <1>1, <2>2, ClaimedIs
    <3>2. "budget" \in Causes /\ q = Failed(Claimed(pend[g]), "budget")
      BY ZenonT(40), <2>2 DEF Causes
    <3>3. /\ q \in Transfer /\ HasFailed(Claimed(pend[g]), q)
          /\ q.seen = pend[g].seen /\ q.sent = pend[g].sent
      <4> HIDE DEF q
      <4>. QED
        BY ZenonT(40), <3>1, <3>2, FailedIs DEF Alike, HasFailed, IsTerminal
    <3> HIDE DEF q
    <3>. QED
      BY Zenon, <2>2, <3>1, <3>3 DEF HasFailed
  <2>3. CASE ~expires /\ ~excess
    BY ZenonT(40), <1>1, <2>3 DEF Alike
  <2>. QED
    BY ZenonT(40), <2>1, <2>2, <2>3
<1>4. notify'[g] = "armed" => notify[g] = "armed" /\ (IsTerminal(pend[g]) \/ q = pend[g])
  <2> HIDE DEF q
  <2>. QED
    BY ZenonT(40), <1>1, <1>2, <1>3, WokenIs
<1>5. \A h \in Grants : notify'[h] = "armed" => notify[h] = "armed"
  BY ZenonT(40), <1>1, <1>2, WokenIs
<1> HIDE DEF q
<1>. QED
  BY Zenon, <1>2, <1>3, <1>4, <1>5, OneMoves DEF Steady, Steps

LEMMA PushSendsIsSteady ==
  ASSUME TypeOK, NEW g \in Grants, PushSends(g)
  PROVE  Steady
<1>1. /\ pend \in [Grants -> Transfer] /\ notify \in [Grants -> {"off", "armed", "fired"}]
      /\ UNCHANGED <<reader, tracked>>
  BY ZenonT(40) DEF TypeOK, PushSends
<1>2. CASE UNCHANGED <<pend, notify>>
  BY ZenonT(40), <1>1, <1>2, ElsewhereIsSteady
<1>3. CASE /\ pend' = [pend EXCEPT ![g] = Failed(@, "dropped")]
           /\ notify' = Woken(IF IsTerminal(pend[g]) THEN {} ELSE {g})
  <2> DEFINE q == Failed(pend[g], "dropped")
  <2>1. /\ q \in Transfer /\ q.sent = pend[g].sent /\ q.seen = pend[g].seen
        /\ Alike(pend[g], q) \/ HasFailed(pend[g], q)
    BY ZenonT(40), <1>1, FailedIs DEF Causes
  <2>2. pend' = [pend EXCEPT ![g] = q]
    BY ZenonT(40), <1>3
  <2>3. /\ notify'[g] = "armed" => notify[g] = "armed" /\ IsTerminal(pend[g])
        /\ \A h \in Grants : notify'[h] = "armed" => notify[h] = "armed"
    BY ZenonT(40), <1>1, <1>3, WokenIs
  <2> HIDE DEF q
  <2>. QED
    BY Zenon, <1>1, <2>1, <2>2, <2>3, OneMoves DEF Steady, Steps
<1>. QED
  BY ZenonT(40), <1>2, <1>3 DEF PushSends

LEMMA FinishIsSteady ==
  ASSUME TypeOK, NEW g \in Grants, Finish(g)
  PROVE  Steady
<1> DEFINE expires == g \in tracked /\ Expires(g)
           ends == /\ g \in tracked /\ ~expires
                   /\ pend[g].claimed /\ pend[g].life = "consumed"
           q == IF expires THEN Expired(pend[g])
                ELSE IF ~ends THEN pend[g]
                ELSE IF pend[g].sent = Length THEN Over(pend[g], "completed", pend[g].cause)
                ELSE Over(pend[g], "failed", "length")
<1>1. pend \in [Grants -> Transfer] /\ notify \in [Grants -> {"off", "armed", "fired"}]
  BY ZenonT(40) DEF TypeOK
<1>2. /\ pend' = [pend EXCEPT ![g] = q]
      /\ notify' = Woken(IF (expires \/ ends) /\ ~IsTerminal(pend[g]) THEN {g} ELSE {})
      /\ tracked' = (IF ends THEN tracked \ {g} ELSE tracked) /\ UNCHANGED reader
  BY ZenonT(40) DEF Finish
<1>3. /\ q \in Transfer /\ q.sent = pend[g].sent /\ q.seen = pend[g].seen
      /\ \/ Alike(pend[g], q) \/ HasFailed(pend[g], q) \/ Completed(pend[g], q)
         \/ (HasExpired(pend[g], q) /\ g \in late)
      /\ expires \/ ends \/ q = pend[g]
      /\ ends => IsTerminal(q)
  <2>1. CASE expires
    BY ZenonT(40), <1>1, <2>1, ExpiredIs DEF Expires
  <2>2. CASE ~expires
    BY Zenon, <1>1, <2>2 DEF Transfer, Lives, Causes, Over, Alike, HasFailed, Completed, IsTerminal,
                      Terminal
  <2>. QED
    BY ZenonT(40), <2>1, <2>2
<1>4. notify'[g] = "armed" => notify[g] = "armed" /\ (IsTerminal(pend[g]) \/ q = pend[g])
  <2> HIDE DEF q
  <2>. QED
    BY ZenonT(40), <1>1, <1>2, <1>3, WokenIs
<1>5. /\ \A h \in Grants : notify'[h] = "armed" => notify[h] = "armed"
      /\ \A h \in Grants \ {g} : h \in tracked => h \in tracked'
      /\ g \in tracked /\ g \notin tracked' => ends
  BY ZenonT(40), <1>1, <1>2, WokenIs
<1> HIDE DEF q
<1>. QED
  BY ZenonT(40), <1>2, <1>3, <1>4, <1>5, OneMoves DEF Steady, Steps

\* Every step but the one that accounts for a chunk leaves bytes_sent alone.
LEMMA NextSteps ==
  ASSUME TypeOK, ExpiredIsLate, FrameInHand, [Next]_vars
  PROVE  /\ Steps
         /\ \A g \in Grants : SentStays(g) \/ (Push(g) /\ PushAccounts(g))
<1>1. ASSUME NEW g \in Grants, ReaderStep(g)
      PROVE  Steady
  BY ZenonT(40), <1>1, ReaderIsCalm, RegisterIsSteady, SendIsSteady, LookIsSteady, WakeIsSteady,
     ClaimIsSteady, DropIsSteady DEF ReaderStep
<1>2. ASSUME NEW g \in Grants, Expire(g) \/ WorkerStep(g)
      PROVE  Steady
  <2>1. UNCHANGED <<pend, tracked, reader, notify>>
    BY Zenon, <1>2 DEF Expire, WorkerStep, Refuse, Accept, OpenFails, Connect, Write, CloseTunnel,
                WriteFails, grantVars, readerVars
  <2>. QED
    BY ZenonT(40), <2>1, ElsewhereIsSteady
<1>3. ASSUME NEW e \in Epochs, SocketStep(e)
      PROVE  Steady
  <2>1. CASE Hello(e) \/ DetachFails(e) \/ HandleFrame(e)
    BY ZenonT(40), <2>1, DeviceIsSteady, HandleFrameIsSteady
  <2>2. CASE Install(e) \/ Deliver(e) \/ ReadFrame(e) \/ Leave(e) \/ Detach(e) \/ LinkDown(e)
    <3>1. UNCHANGED <<pend, tracked, reader, notify>>
      BY Zenon, <2>2 DEF Install, Deliver, ReadFrame, Leave, Detach, LinkDown, grantVars, readerVars
    <3>. QED
      BY ZenonT(40), <3>1, ElsewhereIsSteady
  <2>. QED
    BY ZenonT(40), <1>3, <2>1, <2>2 DEF SocketStep
<1>4. ASSUME NEW g \in Grants, TunnelStep(g)
      PROVE  Steady \/ (Push(g) /\ PushAccounts(g))
  <2>1. CASE Push(g)
    BY Zenon, <2>1, PushRefusedIsSteady DEF Push
  <2>2. CASE TunnelCloses(g) \/ TunnelRevoked(g)
    <3>1. UNCHANGED <<pend, tracked, reader, notify>>
      BY Zenon, <2>2 DEF TunnelCloses, TunnelRevoked, grantVars, readerVars
    <3>. QED
      BY ZenonT(40), <3>1, ElsewhereIsSteady
  <2>. QED
    BY ZenonT(40), <1>4, <2>1, <2>2, PushSendsIsSteady, FinishIsSteady DEF TunnelStep
<1>5. CASE UNCHANGED vars
  <2>1. UNCHANGED <<pend, tracked, reader, notify>>
    BY ZenonT(40), <1>5 DEF vars, grantVars, readerVars
  <2>. QED
    BY ZenonT(40), <2>1, ElsewhereIsSteady DEF Steady
<1>6. CASE \E g \in Grants : Push(g) /\ PushAccounts(g)
  BY ZenonT(40), <1>6, PushAccountsSteps DEF Push
<1>7. Steady \/ \E g \in Grants : Push(g) /\ PushAccounts(g)
  <2>1. CASE Next
    BY ZenonT(40), <1>1, <1>2, <1>3, <1>4, <2>1, RegisterOtherIsSteady DEF Next
  <2>2. CASE UNCHANGED vars
    <3>1. UNCHANGED <<pend, tracked, reader, notify>>
      BY ZenonT(40), <2>2 DEF vars, grantVars, readerVars
    <3>. QED
      BY ZenonT(40), <3>1, ElsewhereIsSteady
  <2>. QED
    BY ZenonT(40), <2>1, <2>2
<1>. QED
  BY ZenonT(40), <1>6, <1>7 DEF Steady

-------------------------------------------------------------------------------
(* What follows from the steps of the grants alone. *)

LEMMA TerminalStays ==
  ASSUME NEW g \in Grants, Moved(g), IsTerminal(pend[g])
  PROVE  /\ pend'[g].life = pend[g].life /\ pend'[g].seen = pend[g].seen
         /\ pend'[g].sent = pend[g].sent /\ IsTerminal(pend'[g])
BY ZenonT(40) DEF Moved, Alike, Announced, Consumed, Carried, Completed, HasFailed, HasExpired,
       IsTerminal, Terminal

LEMMA LateStays ==
  ASSUME [Next]_vars
  PROVE  late \subseteq late'
<1>1. CASE UNCHANGED late
  BY ZenonT(40), <1>1
<1>2. CASE \E g \in Grants : Expire(g)
  BY ZenonT(40), <1>2 DEF Expire
<1>3. ASSUME NEW g \in Grants, ReaderStep(g) \/ WorkerStep(g) \/ TunnelStep(g)
      PROVE  UNCHANGED late
  BY ZenonT(40), <1>3 DEF ReaderStep, Issue, Register, Pick, Queue, Lookup, Arm, Look, Wake,
     ClaimTunnel,
       ConsumeDirect, Recv, EndOfStream, Stall, Abandon, WorkerStep, Refuse, Accept, OpenFails,
       Connect, Write, CloseTunnel, WriteFails, TunnelStep, Push, PushSends, TunnelCloses,
       TunnelRevoked, Finish
<1>4. ASSUME NEW e \in Epochs, SocketStep(e)
      PROVE  UNCHANGED late
  BY ZenonT(40), <1>4 DEF SocketStep, Hello, Install, Deliver, ReadFrame, HandleFrame, Leave,
     Detach,
       DetachFails, LinkDown
<1>. QED
  BY ZenonT(40), <1>1, <1>2, <1>3, <1>4 DEF Next, RegisterOther, vars

LEMMA ExpiredStaysLate ==
  ASSUME ExpiredIsLate, Steps, late \subseteq late'
  PROVE  ExpiredIsLate'
<1> SUFFICES ASSUME NEW g \in Grants, pend'[g].life = "expired"
             PROVE  g \in late'
  BY DEF ExpiredIsLate
<1>1. Moved(g)
  BY ZenonT(40) DEF Steps, GrantStep
<1>. QED
  BY ZenonT(40), <1>1 DEF Moved, Alike, Announced, Consumed, Carried, Completed, HasFailed,
     ExpiredIsLate

LEMMA WakeupsKept ==
  ASSUME TypeOK, NoLostWakeup, Steps
  PROVE  NoLostWakeup'
<1> SUFFICES ASSUME NEW g \in Grants, reader'[g] = "sleep", notify'[g] = "armed"
             PROVE  ~pend'[g].seen /\ ~IsTerminal(pend'[g])
  BY ZenonT(40) DEF NoLostWakeup, IsTerminal
<1>1. Told(g)
  BY ZenonT(40) DEF Steps, GrantStep
<1>. QED
  BY ZenonT(40), <1>1 DEF Told, NoLostWakeup

LEMMA EvictionsKept ==
  ASSUME EvictedIsOver, Steps
  PROVE  EvictedIsOver'
<1> SUFFICES ASSUME NEW g \in Grants, reader'[g] \notin Exempt, g \notin tracked'
             PROVE  IsTerminal(pend'[g])
  BY DEF EvictedIsOver, Exempt, IsTerminal
<1>1. Left(g) /\ Moved(g)
  BY ZenonT(40) DEF Steps, GrantStep
<1>2. g \notin tracked /\ reader[g] \notin Exempt => IsTerminal(pend[g])
  BY ZenonT(40) DEF EvictedIsOver, Exempt
<1>. QED
  BY ZenonT(40), <1>1, <1>2, TerminalStays DEF Left

LEMMA CompletedKept ==
  ASSUME Steps, NEW g \in Grants, pend[g].life = "completed" => pend[g].sent = Length
  PROVE  pend'[g].life = "completed" => pend'[g].sent = Length
<1>1. Moved(g)
  BY DEF Steps, GrantStep
<1>. QED
  BY ZenonT(40), <1>1 DEF Moved, Alike, Announced, Consumed, Carried, Completed, HasFailed,
     HasExpired,
              IsTerminal, Terminal

\* Every step of the hub is a step of the one-use grants.
LEMMA GrantSimulation ==
  ASSUME Steps, TypeOK
  PROVE  Grant!Next
<1> SUFFICES ASSUME NEW g \in Grants
             PROVE  \/ Grant!Same(g) \/ Grant!Announce(g) \/ Grant!Consume(g)
                    \/ Grant!Carry(g) \/ Grant!Complete(g) \/ Grant!Fail(g)
                    \/ Grant!Expire(g)
  BY ZenonT(40) DEF Grant!Next
<1>1. Moved(g) /\ pend[g] \in Transfer /\ pend'[g] \in Transfer
  BY ZenonT(40) DEF Steps, GrantStep, TypeOK
<1>2. pend[g].life \in Lives /\ pend[g].seen \in BOOLEAN /\ pend'[g].seen \in BOOLEAN
  BY ZenonT(40), <1>1 DEF Transfer
<1>3. CASE Alike(pend[g], pend'[g])
  BY ZenonT(40), <1>3 DEF Alike, Grant!Same
<1>4. CASE Announced(pend[g], pend'[g])
  BY ZenonT(40), <1>2, <1>4 DEF Announced, IsTerminal, Terminal, Lives, Grant!Announce, Grant!Live
<1>5. CASE Consumed(pend[g], pend'[g])
  BY ZenonT(40), <1>5 DEF Consumed, Grant!Consume, Grant!Open
<1>6. CASE Carried(pend[g], pend'[g])
  BY ZenonT(40), <1>2, <1>6 DEF Carried, IsTerminal, Terminal, Lives, Grant!Carry, Grant!Live
<1>7. CASE Completed(pend[g], pend'[g])
  BY ZenonT(40), <1>7 DEF Completed, Grant!Complete
<1>8. CASE HasFailed(pend[g], pend'[g])
  BY ZenonT(40), <1>2, <1>8 DEF HasFailed, IsTerminal, Terminal, Lives, Grant!Fail, Grant!Live
<1>9. CASE HasExpired(pend[g], pend'[g])
  BY ZenonT(40), <1>9 DEF HasExpired, Grant!Expire, Grant!Open
<1>. QED
  BY Zenon, <1>1, <1>3, <1>4, <1>5, <1>6, <1>7, <1>8, <1>9 DEF Moved

-------------------------------------------------------------------------------
(* Types, and who is served where. *)

LEMMA Zero ==
  /\ 0 \in 0..TunnelCapacity /\ 0 \in 0..(Length + 1) /\ 0 \in 0..Length /\ 0 \in 0..MaxEpoch
BY ConstantsAreSane

\* A function with one value replaced, if it is replaced.
LEMMA PutTyped ==
  ASSUME NEW S, NEW T, NEW f \in [S -> T], NEW x, NEW v, x \in S => v \in T,
         NEW h, h = f \/ h = [f EXCEPT ![x] = v]
  PROVE  h \in [S -> T]
<1>1. CASE h = f
  BY ZenonT(40), <1>1
<1>2. CASE h = [f EXCEPT ![x] = v]
  BY Zenon, <1>2
<1>. QED
  BY ZenonT(40), <1>1, <1>2

LEMMA NotifyTyped ==
  ASSUME TypeOK, NEW g \in Grants,
         \/ \E idle : Reap(idle)
         \/ \E cause : FailDeviceGrants(cause)
         \/ ReadReady(g) \/ ReadFailed(g) \/ PushAccounts(g) \/ PushRefused(g)
  PROVE  notify' \in [Grants -> {"off", "armed", "fired"}]
<1>1. notify \in [Grants -> {"off", "armed", "fired"}]
  BY ZenonT(40) DEF TypeOK
<1>2. (\E G : notify' = Woken(G)) \/ notify' = notify
  BY Zenon DEF Reap, FailDeviceGrants, ReadReady, ReadFailed, PushAccounts, PushRefused
<1>. QED
  BY <1>1, <1>2, WokenIs

LEMMA RoomLeft ==
  ASSUME NEW s \in 0..Length, NEW a \in 0..Length, NEW b \in 0..TunnelCapacity,
         b > 0, s >= a + b
  PROVE  a + 1 \in 0..Length /\ b - 1 \in 0..TunnelCapacity
BY ConstantsAreSane

LEMMA ReaderTypes ==
  ASSUME TypeOK, ReceiverHeld, BytesAddUp, Steps, NEW g \in Grants, ReaderStep(g)
  PROVE  TypeOK'
<1> USE DEF TypeOK, Steps, Goto, ReaderPcs, Ended
<1>1. CASE Issue(g)
  BY ZenonT(40), <1>1 DEF Issue, sockVars, linkVars, grantVars, workVars
<1>2. CASE Register(g)
  <2>1. notify' \in [Grants -> {"off", "armed", "fired"}]
    BY Zenon, <1>2, NotifyTyped DEF Register
  <2>. QED
    BY Zenon, <1>2, <2>1 DEF Register, sockVars, linkVars, workVars
<1>3. CASE Pick(g)
  <2>1. /\ UNCHANGED picked \/ picked' = [picked EXCEPT ![g] = conn]
        /\ tracked' \subseteq Grants
        /\ \E pc \in ReaderPcs : reader' = [reader EXCEPT ![g] = pc]
    BY ZenonT(40), <1>3 DEF Pick, FailPending
  <2>2. picked' \in [Grants -> 0..MaxEpoch]
    <3>1. picked \in [Grants -> 0..MaxEpoch] /\ conn \in 0..MaxEpoch
      OBVIOUS
    <3> HIDE DEF TypeOK
    <3>. QED
      BY ZenonT(40), <2>1, <3>1, PutTyped
  <2>3. reader' \in [Grants -> ReaderPcs]
    <3>1. reader \in [Grants -> ReaderPcs]
      BY ZenonT(40)
    <3> HIDE DEF TypeOK, ReaderPcs
    <3>. QED
      BY ZenonT(40), <2>1, <3>1
  <2>. QED
    BY Zenon, <1>3, <2>1, <2>2, <2>3 DEF Pick, sockVars, linkVars, workVars
<1>4. CASE Queue(g)
  <2>1. reader' \in [Grants -> ReaderPcs] /\ tracked' \subseteq Grants
    BY Zenon, <1>4 DEF Queue, FailPending
  <2>2. out' \in [Epochs -> Seq(Grants)]
    <3>1. UNCHANGED out \/ out' = [out EXCEPT ![picked[g]] = Append(out[picked[g]], g)]
      BY ZenonT(40), <1>4 DEF Queue
    <3>2. \A e \in Epochs : Append(out[e], g) \in Seq(Grants)
      OBVIOUS
    <3>3. out \in [Epochs -> Seq(Grants)]
      BY ZenonT(40)
    <3> HIDE DEF TypeOK
    <3>. QED
      <4> DEFINE v == Append(out[picked[g]], g)
      <4>1. picked[g] \in Epochs => v \in Seq(Grants)
        BY ZenonT(40), <3>2
      <4>2. out' = out \/ out' = [out EXCEPT ![picked[g]] = v]
        BY ZenonT(40), <3>1
      <4> HIDE DEF v
      <4>. QED
        BY Zenon, <3>3, <4>1, <4>2
  <2>. QED
    BY Zenon, <1>4, <2>1, <2>2 DEF Queue, linkVars, workVars
<1>5. CASE Lookup(g)
  BY ZenonT(40), <1>5 DEF Lookup, sockVars, linkVars, grantVars, workVars
<1>6. CASE Arm(g)
  BY ZenonT(40), <1>6 DEF Arm, sockVars, linkVars, grantVars, workVars
<1>7. CASE Look(g)
  BY Zenon, <1>7 DEF Look, Verdict, sockVars, linkVars, workVars
<1>8. CASE Wake(g)
  BY ZenonT(40), <1>8 DEF Wake, sockVars, linkVars, workVars
<1>9. CASE ClaimTunnel(g)
  BY ZenonT(40), <1>9 DEF ClaimTunnel, RefuseClaim, ClaimRefusal, sockVars, linkVars, workVars
<1>10. CASE ConsumeDirect(g)
  BY Zenon, <1>10 DEF ConsumeDirect, RefuseClaim, ClaimRefusal, sockVars, linkVars, workVars
<1>11. CASE Recv(g)
  <2>1. got[g] + 1 \in 0..Length /\ buf[g] - 1 \in 0..TunnelCapacity
    <3>1. /\ pend[g].sent = got[g] + buf[g] + (IF tun[g] = "pushing" THEN 1 ELSE 0)
          /\ buf[g] > 0
      BY ZenonT(40), <1>11 DEF Recv, ReceiverHeld, BytesAddUp
    <3>2. pend[g].sent \in 0..Length /\ got[g] \in 0..Length /\ buf[g] \in 0..TunnelCapacity
      BY ZenonT(40) DEF Transfer
    <3>3. pend[g].sent >= got[g] + buf[g]
      <4>1. CASE tun[g] = "pushing"
        BY <3>1, <3>2, <4>1, ConstantsAreSane
      <4>2. CASE tun[g] # "pushing"
        BY <3>1, <3>2, <4>2, ConstantsAreSane
      <4>. QED
        BY ZenonT(40), <4>1, <4>2
    <3>4. buf[g] > 0
      BY ZenonT(40), <3>1
    <3> HIDE DEF TypeOK, Steps, ReaderPcs, Ended
    <3>. QED
      BY Zenon, <3>2, <3>3, <3>4, RoomLeft
  <2>. QED
    BY ZenonT(40), <1>11, <2>1 DEF Recv, sockVars, linkVars, workVars
<1>12. CASE EndOfStream(g)
  BY ZenonT(40), <1>12, ConstantsAreSane DEF EndOfStream, DropReceiver, sockVars, linkVars, workVars
<1>13. CASE Stall(g)
  BY Zenon, <1>13, ConstantsAreSane DEF Stall, DropReceiver, sockVars, linkVars, workVars
<1>14. CASE Abandon(g)
  <2>1. /\ tracked' \subseteq Grants /\ rx' \in [Grants -> {"slot", "held", "dropped"}]
        /\ buf' \in [Grants -> 0..TunnelCapacity]
    <3>1. CASE UNCHANGED grantVars
      BY ZenonT(40), <3>1 DEF grantVars
    <3>2. CASE DropReceiver(g, "dropped")
      BY ZenonT(40), <3>2, Zero DEF DropReceiver
    <3>. QED
      BY ZenonT(40), <1>14, <3>1, <3>2 DEF Abandon
  <2>. QED
    BY Zenon, <1>14, <2>1 DEF Abandon, sockVars, linkVars, workVars
<1>. QED
  BY ZenonT(40), <1>1, <1>2, <1>3, <1>4, <1>5, <1>6, <1>7, <1>8, <1>9, <1>10, <1>11, <1>12, <1>13,
     <1>14
     DEF ReaderStep

LEMMA WorkerTypes ==
  ASSUME TypeOK, TunnelOnce, Steps, NEW g \in Grants, Expire(g) \/ WorkerStep(g)
  PROVE  TypeOK'
<1> USE DEF TypeOK, Steps, WorkPcs, TunPcs
<1>0. ASSUME NEW kind \in {"ready", "failed"}, Says(g, kind)
      PROVE  up' \in [Epochs -> Seq(Frames)]
  <2>1. <<kind, g>> \in Frames
    BY ZenonT(40) DEF Frames
  <2>2. \A e \in Epochs : Append(up[e], <<kind, g>>) \in Seq(Frames)
    BY <2>1
  <2>3. up' = up \/ up' = [up EXCEPT ![owner[g]] = Append(up[owner[g]], <<kind, g>>)]
    BY ZenonT(40), <1>0 DEF Says
  <2>4. up \in [Epochs -> Seq(Frames)]
    BY ZenonT(40)
  <2> HIDE DEF TypeOK
  <2> DEFINE v == Append(up[owner[g]], <<kind, g>>)
  <2>5. owner[g] \in Epochs => v \in Seq(Frames)
    BY ZenonT(40), <2>2
  <2>6. up' = up \/ up' = [up EXCEPT ![owner[g]] = v]
    BY ZenonT(40), <2>3
  <2> HIDE DEF v
  <2>. QED
    BY ZenonT(40), <2>4, <2>5, <2>6
<1>7. ASSUME NEW G, WorkEnds(G)
      PROVE  /\ work' \in [Grants -> WorkPcs] /\ owner' \in [Grants -> 0..MaxEpoch]
             /\ put' \in [Grants -> 0..(Length + 1)]
  BY ZenonT(40), <1>7, Zero DEF WorkEnds
<1>1. CASE Expire(g)
  BY ZenonT(40), <1>1 DEF Expire, sockVars, linkVars, grantVars, readerVars, workVars
<1>2. CASE Refuse(g) \/ OpenFails(g) \/ WriteFails(g)
  BY ZenonT(40), <1>0, <1>2, <1>7 DEF Refuse, OpenFails, WriteFails, sockVars, grantVars, readerVars
<1>3. CASE Accept(g)
  <2>1. /\ work' \in [Grants -> WorkPcs] /\ owner' \in [Grants -> 0..MaxEpoch]
        /\ put' \in [Grants -> 0..(Length + 1)]
    BY Zenon, <1>3, <1>7 DEF Accept, WorkGoto
  <2>. QED
    BY Zenon, <1>0, <1>3, <2>1 DEF Accept, sockVars, grantVars, readerVars
<1>4. CASE Connect(g)
  BY ZenonT(40), <1>4 DEF Connect, WorkGoto, sockVars, linkVars, grantVars, readerVars
<1>5. CASE Write(g)
  <2>1. put[g] + 1 \in 0..(Length + 1) /\ wire[g] + 1 \in 0..(Length + 1)
    BY <1>5, ConstantsAreSane DEF Write, TunnelOnce
  <2>. QED
    BY ZenonT(40), <1>5, <2>1 DEF Write, sockVars, linkVars, grantVars, readerVars
<1>6. CASE CloseTunnel(g)
  BY ZenonT(40), <1>6, <1>7 DEF CloseTunnel, sockVars, linkVars, grantVars, readerVars
<1>. QED
  BY ZenonT(40), <1>1, <1>2, <1>3, <1>4, <1>5, <1>6 DEF WorkerStep

LEMMA TunnelTypes ==
  ASSUME TypeOK, Steps, NEW g \in Grants, TunnelStep(g)
  PROVE  TypeOK'
<1> USE DEF TypeOK, Steps, TunGoto, TunPcs
<1>1. CASE Push(g)
  <2>1. notify' \in [Grants -> {"off", "armed", "fired"}]
    BY ZenonT(40), <1>1, NotifyTyped DEF Push
  <2>2. tun' \in [Grants -> TunPcs]
    <3>1. \E pc \in TunPcs : tun' = [tun EXCEPT ![g] = pc]
      BY ZenonT(40), <1>1 DEF Push, PushAccounts, PushRefused
    <3>. QED
      BY <3>1, PutTyped
  <2>3. wire' \in [Grants -> 0..(Length + 1)]
    <3>1. wire[g] - 1 \in 0..(Length + 1)
      BY <1>1, ConstantsAreSane DEF Push
    <3>. QED
      BY ZenonT(40), <1>1, <3>1, Zero DEF Push
  <2>. QED
    BY ZenonT(40), <1>1, <2>1, <2>2, <2>3 DEF Push, sockVars, linkVars, workVars
<1>2. CASE PushSends(g)
  <2>1. notify' \in [Grants -> {"off", "armed", "fired"}]
    BY <1>2, WokenIs DEF PushSends
  <2>2. tun' \in [Grants -> TunPcs] /\ wire' \in [Grants -> 0..(Length + 1)]
    <3>1. /\ \E pc \in TunPcs : tun' = [tun EXCEPT ![g] = pc]
          /\ UNCHANGED wire \/ wire' = [wire EXCEPT ![g] = 0]
      BY ZenonT(40), <1>2 DEF PushSends
    <3>2. tun \in [Grants -> TunPcs] /\ wire \in [Grants -> 0..(Length + 1)]
      BY ZenonT(40)
    <3> HIDE DEF TypeOK, TunPcs
    <3>3. tun' \in [Grants -> TunPcs]
      BY ZenonT(40), <3>1, <3>2
    <3>4. wire' \in [Grants -> 0..(Length + 1)]
      BY <3>1, <3>2, Zero, PutTyped
    <3>. QED
      BY ZenonT(40), <3>3, <3>4
  <2>3. buf' \in [Grants -> 0..TunnelCapacity]
    <3>1. buf[g] < TunnelCapacity => buf[g] + 1 \in 0..TunnelCapacity
      BY ConstantsAreSane
    <3>. QED
      BY ZenonT(40), <1>2, <3>1 DEF PushSends
  <2>. QED
    BY ZenonT(40), <1>2, <2>1, <2>2, <2>3 DEF PushSends, sockVars, linkVars, workVars
<1>3. CASE TunnelCloses(g)
  BY ZenonT(40), <1>3 DEF TunnelCloses, sockVars, linkVars, grantVars, readerVars, workVars
<1>4. CASE TunnelRevoked(g)
  BY ZenonT(40), <1>4, Zero DEF TunnelRevoked, sockVars, linkVars, grantVars, readerVars, workVars
<1>5. CASE Finish(g)
  <2>1. notify' \in [Grants -> {"off", "armed", "fired"}]
    BY ZenonT(40), <1>5, WokenIs DEF Finish
  <2>. QED
    BY ZenonT(40), <1>5, <2>1 DEF Finish, sockVars, linkVars, workVars
<1>. QED
  BY Zenon, <1>1, <1>2, <1>3, <1>4, <1>5 DEF TunnelStep

LEMMA SocketTypes ==
  ASSUME TypeOK, FrameInHand, Steps, NEW e \in Epochs, SocketStep(e)
  PROVE  TypeOK'
<1> USE DEF TypeOK, Steps, SockGoto, SockPcs
<1>0. e \in 0..MaxEpoch /\ MaxEpoch \in Nat
  BY ConstantsAreSane DEF Epochs
<1>1. CASE Hello(e)
  <2>1. notify' \in [Grants -> {"off", "armed", "fired"}]
    BY ZenonT(40), <1>1, WokenIs DEF Hello, FailDeviceGrants
  <2>. QED
    BY ZenonT(40), <1>0, <1>1, <2>1 DEF Hello, workVars
<1>2. CASE Install(e)
  BY ZenonT(40), <1>0, <1>2 DEF Install, linkVars, grantVars, readerVars, workVars
<1>3. CASE Deliver(e)
  <2>1. Head(out[e]) \in Grants /\ Tail(out[e]) \in Seq(Grants)
    BY <1>3 DEF Deliver
  <2>2. /\ work' \in [Grants -> WorkPcs] /\ owner' \in [Grants -> 0..MaxEpoch]
        /\ out' \in [Epochs -> Seq(Grants)]
    <3>1. /\ UNCHANGED work \/ work' = [work EXCEPT ![Head(out[e])] = "granted"]
          /\ UNCHANGED owner \/ owner' = [owner EXCEPT ![Head(out[e])] = e]
          /\ out' = [out EXCEPT ![e] = Tail(out[e])] /\ "granted" \in WorkPcs
      BY Zenon, <1>3 DEF Deliver, WorkPcs
    <3>2. /\ work \in [Grants -> WorkPcs] /\ owner \in [Grants -> 0..MaxEpoch]
          /\ out \in [Epochs -> Seq(Grants)]
      BY ZenonT(40)
    <3> HIDE DEF TypeOK
    <3>3. work' \in [Grants -> WorkPcs]
      BY <3>1, <3>2, PutTyped
    <3>4. owner' \in [Grants -> 0..MaxEpoch]
      BY Zenon, <1>0, <3>1, <3>2
    <3>5. out' \in [Epochs -> Seq(Grants)]
      BY ZenonT(40), <2>1, <3>1, <3>2, PutTyped
    <3>. QED
      BY ZenonT(40), <3>3, <3>4, <3>5
  <2>. QED
    BY ZenonT(40), <1>3, <2>2 DEF Deliver, linkVars, grantVars, readerVars
<1>4. CASE ReadFrame(e) \/ Leave(e)
  BY Zenon, <1>4 DEF ReadFrame, Leave, linkVars, grantVars, readerVars, workVars
<1>5. CASE HandleFrame(e)
  <2>1. Head(up[e]) \in Frames /\ Tail(up[e]) \in Seq(Frames)
    BY <1>5 DEF HandleFrame, FrameInHand
  <2>2. Head(up[e])[2] \in Grants
    BY ZenonT(40), <2>1 DEF Frames
  <2>3. notify' \in [Grants -> {"off", "armed", "fired"}]
    BY ZenonT(40), <1>5, <2>2, NotifyTyped DEF HandleFrame
  <2>. QED
    BY ZenonT(40), <1>5, <2>1, <2>3 DEF HandleFrame, workVars
<1>6. CASE Detach(e)
  <2>1. /\ conn' \in 0..MaxEpoch /\ sock' \in [Epochs -> SockPcs]
        /\ out' \in [Epochs -> Seq(Grants)] /\ up' \in [Epochs -> Seq(Frames)]
    <3>1. /\ UNCHANGED out \/ out' = [out EXCEPT ![e] = <<>>]
          /\ UNCHANGED up \/ up' = [up EXCEPT ![e] = <<>>]
          /\ \E pc \in SockPcs : sock' = [sock EXCEPT ![e] = pc]
          /\ UNCHANGED conn \/ conn' = 0
      BY ZenonT(40), <1>6 DEF Detach, Gone
    <3>2. <<>> \in Seq(Grants) /\ <<>> \in Seq(Frames)
      OBVIOUS
    <3>3. /\ sock \in [Epochs -> SockPcs] /\ conn \in 0..MaxEpoch
          /\ out \in [Epochs -> Seq(Grants)] /\ up \in [Epochs -> Seq(Frames)]
      OBVIOUS
    <3> HIDE DEF TypeOK, SockPcs
    <3>4. out' \in [Epochs -> Seq(Grants)]
      BY Zenon, <3>1, <3>2, <3>3
    <3>5. up' \in [Epochs -> Seq(Frames)]
      BY ZenonT(40), <3>1, <3>2, <3>3
    <3>6. sock' \in [Epochs -> SockPcs] /\ conn' \in 0..MaxEpoch
      BY ZenonT(40), <3>1, <3>3, Zero
    <3>. QED
      BY ZenonT(40), <3>4, <3>5, <3>6
  <2>. QED
    BY Zenon, <1>6, <2>1 DEF Detach, grantVars, readerVars, workVars
<1>7. CASE DetachFails(e)
  <2>1. notify' \in [Grants -> {"off", "armed", "fired"}]
    BY ZenonT(40), <1>7, WokenIs DEF DetachFails, FailDeviceGrants
  <2>. QED
    BY <1>7, <2>1 DEF DetachFails, Gone, workVars
<1>8. CASE LinkDown(e)
  <2>1. /\ work' \in [Grants -> WorkPcs] /\ owner' \in [Grants -> 0..MaxEpoch]
        /\ put' \in [Grants -> 0..(Length + 1)]
    BY ZenonT(40), <1>8, Zero DEF LinkDown, WorkEnds, WorkPcs
  <2>. QED
    BY ZenonT(40), <1>8, <2>1 DEF LinkDown, sockVars, grantVars, readerVars
<1>. QED
  BY ZenonT(40), <1>1, <1>2, <1>3, <1>4, <1>5, <1>6, <1>7, <1>8 DEF SocketStep

===============================================================================
