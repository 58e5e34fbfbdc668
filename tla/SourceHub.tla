------------------------------ MODULE SourceHub ------------------------------
(***************************************************************************)
(* Reads through a source worker (crates/worker/src/source_hub.rs): the    *)
(* registry of one-use read grants, the control sockets that carry the     *)
(* grants to one source worker and its answers back, and the tunnels that  *)
(* carry the bytes.  Four kinds of process meet in the hub:                *)
(*                                                                         *)
(*   - a reader, the route that issues one grant and streams its bytes     *)
(*     (open_remote_body and hash_body in apps/server's source_workers.rs) *)
(*   - the serve_socket task of each control connection                    *)
(*   - the serve_tunnel task of a grant's data connection                  *)
(*   - the worker on the far side (source_client.rs, source_tunnel.rs)     *)
(*                                                                         *)
(* A step is what a task does between two awaits, or under one lock.       *)
(* There is one device: grants and connections of different devices never  *)
(* meet except in the sweep, which treats each grant on its own.  Bytes    *)
(* are counted in chunks.                                                  *)
(***************************************************************************)
EXTENDS Integers, Sequences

CONSTANTS
  Grants,             \* one grant, and one reader, per id
  Length,             \* chunks a grant asks for (grant.length)
  TunnelCapacity,     \* SOURCE_TUNNEL_CAPACITY
  WireCapacity,       \* bound: chunks the tunnel's socket buffers hold
  MaxEpoch            \* bound: control connections the worker ever opens

ASSUME ConstantsAreSane ==
  /\ Length \in Nat
  /\ TunnelCapacity \in Nat \ {0}
  /\ WireCapacity \in Nat \ {0}
  /\ MaxEpoch \in Nat

VARIABLES
  direct,     \* grants on a root the server reaches over HTTP (never changes)
  conn,       \* SourceHub.connections: epoch of the installed socket, or 0
  epochs,     \* SourceHub.epochs
  sock,       \* sock[e]: where the serve_socket task of epoch e is
  out,        \* out[e]: grants queued in the outbound channel
  link,       \* link[e]: the worker still holds its end of socket e
  up,         \* up[e]: frames the worker wrote that were not read yet
  tracked,    \* PendingRegistry: the grants in the map
  pend,       \* pend[g]: GrantMutable, and whether tunnel_tx is still there
  rx,         \* rx[g]: tunnel_rx is in its slot, held by the reader, dropped
  buf,        \* buf[g]: chunks in the tunnel channel
  late,       \* grants whose expires_at has passed
  reader,     \* reader[g]: where the route is, or how it ended
  notify,     \* notify[g]: the reader's Notified future: off, armed, fired
  picked,     \* picked[g]: epoch whose sender the reader cloned, or 0
  got,        \* got[g]: chunks the reader took out of the tunnel
  tun,        \* tun[g]: where the serve_tunnel task is
  work,       \* work[g]: what the worker does about g
  owner,      \* owner[g]: epoch on which the worker serves g, or 0
  put,        \* put[g]: chunks the worker's task wrote to the tunnel socket
  wire        \* wire[g]: those the server has not read yet

readerVars == <<reader, notify, picked, got>>
sockVars == <<conn, epochs, sock, out>>
linkVars == <<link, up>>
grantVars == <<tracked, pend, rx, buf>>
workVars == <<work, owner, put>>
vars == <<direct, sockVars, linkVars, grantVars, late, readerVars, tun,
          workVars, wire>>

Epochs == 1..MaxEpoch

(* GrantLifecycle, with the text of Failed reduced to who caused it. *)
Lives == {"pending", "ready", "consumed", "completed", "failed", "expired"}
Terminal == {"completed", "failed", "expired"}
Causes == {"none", "replaced", "disconnected", "worker", "stalled", "dropped",
           "length", "budget", "unsent"}

(* How open_remote_body and hash_body end. *)
Ended == {"ok", "direct", "short", "stalled", "failed", "expired", "notready",
          "notfound", "refused", "replay", "abandoned"}
ReaderPcs == {"idle", "register", "send", "queue", "lookup", "arm", "look",
              "sleep", "claim", "recv"} \cup Ended
SockPcs == {"new", "installing", "serving", "handling", "leaving", "failing",
            "gone"}
TunPcs == {"none", "serving", "pushing", "finish", "gone"}
WorkPcs == {"none", "granted", "opening", "streaming", "done"}
Frames == {"ready", "failed"} \X Grants

Transfer == [life : Lives, cause : Causes, claimed : BOOLEAN, seen : BOOLEAN,
             sent : 0..Length, tx : BOOLEAN]

Init ==
  /\ direct \in SUBSET Grants
  /\ conn = 0
  /\ epochs = 0
  /\ sock = [e \in Epochs |-> "new"]
  /\ out = [e \in Epochs |-> <<>>]
  /\ link = [e \in Epochs |-> FALSE]
  /\ up = [e \in Epochs |-> <<>>]
  /\ tracked = {}
  /\ pend = [g \in Grants |-> [life |-> "pending", cause |-> "none",
                               claimed |-> FALSE, seen |-> FALSE, sent |-> 0,
                               tx |-> TRUE]]
  /\ rx = [g \in Grants |-> "slot"]
  /\ buf = [g \in Grants |-> 0]
  /\ late = {}
  /\ reader = [g \in Grants |-> "idle"]
  /\ notify = [g \in Grants |-> "off"]
  /\ picked = [g \in Grants |-> 0]
  /\ got = [g \in Grants |-> 0]
  /\ tun = [g \in Grants |-> "none"]
  /\ work = [g \in Grants |-> "none"]
  /\ owner = [g \in Grants |-> 0]
  /\ put = [g \in Grants |-> 0]
  /\ wire = [g \in Grants |-> 0]

-----------------------------------------------------------------------------
(* What happens to one grant.  The operators on a transfer p below return  *)
(* the transfer afterwards; a terminal one has lost its tunnel sender.     *)

IsTerminal(p) == p.life \in Terminal

(* is_accepted_tunnel *)
Accepted(p) == p.life = "consumed" /\ p.claimed /\ p.seen

Over(p, life, cause) ==
  [life |-> life, cause |-> cause, claimed |-> p.claimed, seen |-> p.seen,
   sent |-> p.sent, tx |-> FALSE]

(* PendingTransfer::fail *)
Failed(p, cause) == IF IsTerminal(p) THEN p ELSE Over(p, "failed", cause)

(* A slip of Expirable: an accepted tunnel is expired by the clock. *)
Expirable_Accepted(p) ==
  \/ p.life \in {"pending", "ready"}
  \/ p.life = "consumed" /\ p.claimed

(* What expire_now expires: nothing accepted, nothing terminal. *)
Expirable(p) ==
  \/ p.life \in {"pending", "ready"}
  \/ p.life = "consumed" /\ p.claimed /\ ~p.seen

(* expire_if_needed returns true. *)
Expires(g) == g \in late /\ (Expirable(pend[g]) \/ pend[g].life = "expired")

Expired(p) == IF Expirable(p) THEN Over(p, "expired", p.cause) ELSE p

(* The claim a reader's take_pending_tunnel or the first chunk makes. *)
Claimed(p) ==
  [life |-> "consumed", cause |-> p.cause, claimed |-> TRUE, seen |-> p.seen,
   sent |-> p.sent, tx |-> p.tx]

Claimable(p) ==
  \/ p.life \in {"pending", "ready"}
  \/ p.life = "consumed" /\ p.claimed

(* notify_waiters: only a future that is already enabled hears it. *)
Woken(G) ==
  [g \in Grants |-> IF g \in G /\ notify[g] = "armed" THEN "fired"
                    ELSE notify[g]]

(* fail_device_grants *)
FailDeviceGrants(cause) ==
  /\ pend' = [g \in Grants |-> IF g \in tracked THEN Failed(pend[g], cause)
                               ELSE pend[g]]
  /\ notify' = Woken({g \in tracked : ~IsTerminal(pend[g])})

(* Drop of the TunnelReceiver: the grant is failed unless it is over, and  *)
(* leaves the registry; what was buffered is lost.                         *)
DropReceiver(g, cause) ==
  /\ pend' = [pend EXCEPT ![g] = Failed(@, cause)]
  /\ tracked' = tracked \ {g}
  /\ rx' = [rx EXCEPT ![g] = "dropped"]
  /\ buf' = [buf EXCEPT ![g] = 0]

-----------------------------------------------------------------------------
(* The reader: issue_grant, wait_ready, then the transfer. *)

Goto(g, pc) == reader' = [reader EXCEPT ![g] = pc]

(* issue_grant: the first validate_root_for_grant. *)
Issue(g) ==
  /\ reader[g] = "idle"
  /\ Goto(g, IF conn = 0 THEN "refused" ELSE "register")
  /\ UNCHANGED <<direct, sockVars, linkVars, grantVars, late, notify, picked,
                 got, tun, workVars, wire>>

(* PendingRegistry::reap removes what is past its window, what stalled and  *)
(* what is over.  Whether an accepted tunnel nobody holds has been idle for *)
(* SOURCE_TRANSFER_IDLE_TIMEOUT is only a matter of time.                   *)
Unattended == {h \in tracked : Accepted(pend[h]) /\ rx[h] = "slot"}

Swept(idle) ==
  {h \in tracked : Expires(h) \/ h \in idle \/ IsTerminal(pend[h])}

(* A slip of Reap: a stalled tunnel is dropped without being failed. *)
Reap_Silent(idle) ==
  /\ pend' = [h \in Grants |->
                IF h \in tracked /\ Expires(h) THEN Expired(pend[h])
                ELSE pend[h]]
  /\ notify' = Woken({h \in Swept(idle) : ~IsTerminal(pend[h])})

Reap(idle) ==
  /\ pend' = [h \in Grants |->
                IF h \in tracked /\ Expires(h) THEN Expired(pend[h])
                ELSE IF h \in idle THEN Failed(pend[h], "stalled")
                ELSE pend[h]]
  /\ notify' = Woken({h \in Swept(idle) : ~IsTerminal(pend[h])})

(* register_pending_read: expiry and root are checked again, the registry   *)
(* is swept and the grant enters it.                                        *)
Register(g) ==
  /\ reader[g] = "register"
  /\ \/ /\ conn = 0 \/ g \in late
        /\ Goto(g, "refused")
        /\ UNCHANGED <<tracked, pend, notify>>
     \/ /\ conn # 0 /\ g \notin late
        /\ Goto(g, "send")
        /\ \E idle \in SUBSET Unattended :
             /\ Reap(idle)
             /\ tracked' = (tracked \ Swept(idle)) \cup {g}
  /\ UNCHANGED <<direct, sockVars, linkVars, rx, buf, late, picked, got, tun,
                 workVars, wire>>

(* The registration of a grant that is none of Grants, for any device, runs *)
(* the same sweep.                                                          *)
RegisterOther ==
  /\ \E idle \in SUBSET Unattended :
       /\ Swept(idle) # {}
       /\ Reap(idle)
       /\ tracked' = tracked \ Swept(idle)
  /\ UNCHANGED <<direct, sockVars, linkVars, rx, buf, late, reader, picked,
                 got, tun, workVars, wire>>

(* fail_pending, when the command could not be queued. *)
FailPending(g) ==
  /\ pend' = [pend EXCEPT ![g] =
                IF g \in tracked THEN Failed(@, "unsent") ELSE @]
  /\ tracked' = tracked \ {g}
  /\ Goto(g, "refused")

(* send: clone the sender of the installed socket under the read lock ... *)
Pick(g) ==
  /\ reader[g] = "send"
  /\ \/ /\ conn = 0
        /\ FailPending(g)
        /\ UNCHANGED picked
     \/ /\ conn # 0
        /\ picked' = [picked EXCEPT ![g] = conn]
        /\ Goto(g, "queue")
        /\ UNCHANGED <<tracked, pend>>
  /\ UNCHANGED <<direct, sockVars, linkVars, rx, buf, late, notify, got, tun,
                 workVars, wire>>

(* ... and try_send outside it, to a socket that may have left since, or to *)
(* a channel that other commands have filled.                               *)
Queue(g) ==
  /\ reader[g] = "queue"
  /\ \/ /\ FailPending(g)
        /\ UNCHANGED out
     \/ /\ sock[picked[g]] # "gone"
        /\ out' = [out EXCEPT ![picked[g]] = Append(@, g)]
        /\ Goto(g, "lookup")
        /\ UNCHANGED <<tracked, pend>>
  /\ UNCHANGED <<direct, conn, epochs, sock, linkVars, rx, buf, late, notify,
                 picked, got, tun, workVars, wire>>

(* wait_ready finds the grant ... *)
Lookup(g) ==
  /\ reader[g] = "lookup"
  /\ Goto(g, IF g \in tracked THEN "arm" ELSE "notfound")
  /\ UNCHANGED <<direct, sockVars, linkVars, grantVars, late, notify, picked,
                 got, tun, workVars, wire>>

(* ... enables a wake-up before it reads the state ... *)
Arm(g) ==
  /\ reader[g] = "arm"
  /\ notify' = [notify EXCEPT ![g] = "armed"]
  /\ Goto(g, "look")
  /\ UNCHANGED <<direct, sockVars, linkVars, grantVars, late, picked, got,
                 tun, workVars, wire>>

(* ... and reads it.  A terminal state releases the grant. *)
Verdict(g) ==
  IF Expires(g) THEN "expired"
  ELSE IF pend[g].seen THEN "claim"
  ELSE IF pend[g].life = "failed" THEN "failed"
  ELSE IF pend[g].life = "completed" THEN "notready"
  ELSE "sleep"

Look(g) ==
  /\ reader[g] = "look"
  /\ Goto(g, Verdict(g))
  /\ pend' = [pend EXCEPT ![g] = IF Expires(g) THEN Expired(@) ELSE @]
  /\ tracked' = IF Verdict(g) \in {"claim", "sleep"} THEN tracked
                ELSE tracked \ {g}
  /\ notify' = [notify EXCEPT ![g] = IF Verdict(g) = "sleep" THEN @ ELSE "off"]
  /\ UNCHANGED <<direct, sockVars, linkVars, rx, buf, late, picked, got, tun,
                 workVars, wire>>

(* A slip of Wake: the wait is not bounded by the acceptance window. *)
Wake_Unbounded(g) ==
  /\ reader[g] = "sleep"
  /\ notify[g] = "fired"
  /\ notify' = [notify EXCEPT ![g] = "off"]
  /\ Goto(g, "arm")
  /\ UNCHANGED <<direct, sockVars, linkVars, tracked, pend, rx, buf, late,
                 picked, got, tun, workVars, wire>>

(* The wait ends with a wake-up, or at expires_at with expire_now. *)
Wake(g) ==
  /\ reader[g] = "sleep"
  /\ \/ /\ notify[g] = "fired"
        /\ UNCHANGED pend
     \/ /\ g \in late
        /\ pend' = [pend EXCEPT ![g] = Expired(@)]
  /\ notify' = [notify EXCEPT ![g] = "off"]
  /\ Goto(g, "arm")
  /\ UNCHANGED <<direct, sockVars, linkVars, tracked, rx, buf, late, picked,
                 got, tun, workVars, wire>>

(* How a claim is refused: by the lookup, the acceptance window, or the    *)
(* state the grant is in.                                                  *)
ClaimRefusal(g) ==
  IF g \notin tracked THEN "notfound"
  ELSE IF Expires(g) THEN "expired"
  ELSE IF pend[g].life = "failed" THEN "failed"
  ELSE "replay"

RefuseClaim(g) ==
  /\ Goto(g, ClaimRefusal(g))
  /\ pend' = [pend EXCEPT ![g] =
                IF g \in tracked /\ Expires(g) THEN Expired(@) ELSE @]
  /\ UNCHANGED <<tracked, rx>>

(* take_pending_tunnel *)
ClaimTunnel(g) ==
  /\ reader[g] = "claim" /\ g \notin direct
  /\ LET open == g \in tracked /\ ~Expires(g) /\ Claimable(pend[g])
     IN  \/ /\ open
            /\ pend' = [pend EXCEPT ![g] = Claimed(@)]
            /\ rx' = [rx EXCEPT ![g] = "held"]
            /\ Goto(g, "recv")
            /\ UNCHANGED tracked
         \/ ~open /\ RefuseClaim(g)
  /\ UNCHANGED <<direct, sockVars, linkVars, buf, late, notify, picked, got,
                 tun, workVars, wire>>

(* consume_direct; the HTTP transfer that follows does not touch the hub. *)
ConsumeDirect(g) ==
  /\ reader[g] = "claim" /\ g \in direct
  /\ LET open == g \in tracked /\ ~Expires(g) /\ pend[g].life = "ready"
         p == pend[g]
     IN  \/ /\ open
            /\ pend' = [pend EXCEPT ![g] =
                 [life |-> "consumed", cause |-> p.cause, claimed |-> p.claimed,
                  seen |-> p.seen, sent |-> p.sent, tx |-> p.tx]]
            /\ tracked' = tracked \ {g}
            /\ Goto(g, "direct")
            /\ UNCHANGED rx
         \/ ~open /\ RefuseClaim(g)
  /\ UNCHANGED <<direct, sockVars, linkVars, buf, late, notify, picked, got,
                 tun, workVars, wire>>

(* next_chunk yields a chunk. *)
Recv(g) ==
  /\ reader[g] = "recv"
  /\ buf[g] > 0
  /\ buf' = [buf EXCEPT ![g] = @ - 1]
  /\ got' = [got EXCEPT ![g] = @ + 1]
  /\ UNCHANGED <<direct, sockVars, linkVars, tracked, pend, rx, late, reader,
                 notify, picked, tun, workVars, wire>>

(* next_chunk yields the end of the stream: every sender is gone, the one a *)
(* push still holds included.  The reader compares the byte count.          *)
EndOfStream(g) ==
  /\ reader[g] = "recv"
  /\ buf[g] = 0 /\ ~pend[g].tx /\ tun[g] # "pushing"
  /\ DropReceiver(g, "dropped")
  /\ Goto(g, IF got[g] = Length THEN "ok" ELSE "short")
  /\ UNCHANGED <<direct, sockVars, linkVars, late, notify, picked, got, tun,
                 workVars, wire>>

(* next_chunk's timeout: nothing came for SOURCE_TRANSFER_IDLE_TIMEOUT. *)
Stall(g) ==
  /\ reader[g] = "recv"
  /\ buf[g] = 0
  /\ DropReceiver(g, "stalled")
  /\ Goto(g, "stalled")
  /\ UNCHANGED <<direct, sockVars, linkVars, late, notify, picked, got, tun,
                 workVars, wire>>

(* The client went away: the route's future is dropped at an await. *)
Abandon(g) ==
  /\ Goto(g, "abandoned")
  /\ notify' = [notify EXCEPT ![g] = "off"]
  /\ \/ /\ reader[g] \in {"register", "send", "sleep"}
        /\ UNCHANGED grantVars
     \/ /\ reader[g] = "recv"
        /\ DropReceiver(g, "dropped")
  /\ UNCHANGED <<direct, sockVars, linkVars, late, picked, got, tun,
                 workVars, wire>>

(* expires_at passes, while somebody can still tell. *)
Expire(g) ==
  /\ reader[g] # "idle" /\ g \notin late
  /\ g \in tracked \/ reader[g] \notin Ended
  /\ late' = late \cup {g}
  /\ UNCHANGED <<direct, sockVars, linkVars, grantVars, readerVars, tun,
                 workVars, wire>>

-----------------------------------------------------------------------------
(* The control socket: serve_socket. *)

SockGoto(e, pc) == sock' = [sock EXCEPT ![e] = pc]

(* The worker, whose earlier connection returned, connects and says hello; *)
(* the server may not know yet.  attach draws an epoch and fails the       *)
(* grants of the socket it is about to replace ...                         *)
Hello(e) ==
  /\ e = epochs + 1
  /\ \A d \in Epochs : ~link[d]
  /\ epochs' = e
  /\ link' = [link EXCEPT ![e] = TRUE]
  /\ SockGoto(e, "installing")
  /\ FailDeviceGrants("replaced")
  /\ UNCHANGED <<direct, conn, out, up, tracked, rx, buf, late, reader,
                 picked, got, tun, workVars, wire>>

(* A slip of Install: attach fails the grants after the insert. *)
Install_Fails(e) ==
  /\ sock[e] = "installing"
  /\ \/ conn # e /\ conn' = e /\ UNCHANGED <<sock, pend, notify>>
     \/ /\ conn = e /\ SockGoto(e, "serving") /\ UNCHANGED conn
        /\ FailDeviceGrants("replaced")
  /\ UNCHANGED <<direct, epochs, out, linkVars, tracked, rx, buf, late, reader,
                 picked, got, tun, workVars, wire>>

(* ... and installs the connection once it holds the write lock. *)
Install(e) ==
  /\ sock[e] = "installing"
  /\ conn' = e
  /\ SockGoto(e, "serving")
  /\ UNCHANGED <<direct, epochs, out, linkVars, grantVars, late, readerVars,
                 tun, workVars, wire>>

(* The loop writes a queued grant to the socket; the worker reads it, or   *)
(* has left and it is lost.                                                *)
Deliver(e) ==
  /\ sock[e] = "serving"
  /\ out[e] # <<>>
  /\ out' = [out EXCEPT ![e] = Tail(@)]
  /\ \/ /\ link[e]
        /\ work' = [work EXCEPT ![Head(out[e])] = "granted"]
        /\ owner' = [owner EXCEPT ![Head(out[e])] = e]
     \/ /\ ~link[e]
        /\ UNCHANGED <<work, owner>>
  /\ UNCHANGED <<direct, conn, epochs, sock, linkVars, grantVars, late,
                 readerVars, tun, put, wire>>

(* The loop reads a frame and asks whether its socket is the current one. *)
ReadFrame(e) ==
  /\ sock[e] = "serving"
  /\ up[e] # <<>>
  /\ SockGoto(e, IF conn = e THEN "handling" ELSE "leaving")
  /\ UNCHANGED <<direct, conn, epochs, out, linkVars, grantVars, late,
                 readerVars, tun, workVars, wire>>

(* A slip of ReadReady: readiness is recorded and nobody is notified. *)
ReadReady_Silent(g) ==
  /\ pend' = [pend EXCEPT ![g] =
       IF g \in tracked /\ ~Expires(g) /\ Claimable(@)
       THEN [life |-> IF @.life = "pending" THEN "ready" ELSE @.life,
             cause |-> @.cause, claimed |-> @.claimed, seen |-> TRUE,
             sent |-> @.sent, tx |-> @.tx]
       ELSE @]
  /\ UNCHANGED notify

(* read_ready: refused once the grant is ready, over or consumed directly. *)
ReadReady(g) ==
  LET p == pend[g]
      open == /\ g \in tracked /\ ~Expires(g) /\ ~p.seen
              /\ p.life = "ready" \/ Claimable(p)
      life == IF p.life = "pending" THEN "ready" ELSE p.life
  IN  \/ /\ open
         /\ pend' = [pend EXCEPT ![g] =
              [life |-> life, cause |-> p.cause, claimed |-> p.claimed,
               seen |-> TRUE, sent |-> p.sent, tx |-> p.tx]]
         /\ notify' = Woken({g})
      \/ /\ ~open /\ g \in tracked /\ Expires(g)
         /\ pend' = [pend EXCEPT ![g] = Expired(@)]
         /\ notify' = Woken(IF IsTerminal(p) THEN {} ELSE {g})
      \/ /\ ~open /\ (g \in tracked => ~Expires(g))
         /\ UNCHANGED <<pend, notify>>

(* read_failed: refused once the tunnel is accepted or the grant is over. *)
ReadFailed(g) ==
  LET p == pend[g]
  IN  \/ /\ g \in tracked
         /\ Expires(g) \/ Expirable(p)
         /\ pend' = [pend EXCEPT ![g] =
              IF Expires(g) THEN Expired(@) ELSE Failed(@, "worker")]
         /\ notify' = Woken(IF IsTerminal(p) THEN {} ELSE {g})
      \/ /\ g \in tracked => ~Expires(g) /\ ~Expirable(p)
         /\ UNCHANGED <<pend, notify>>

(* handle_frame, after the check. *)
HandleFrame(e) ==
  /\ sock[e] = "handling"
  /\ LET frame == Head(up[e])
     IN  \/ frame[1] = "ready" /\ ReadReady(frame[2])
         \/ frame[1] = "failed" /\ ReadFailed(frame[2])
  /\ up' = [up EXCEPT ![e] = Tail(@)]
  /\ SockGoto(e, "serving")
  /\ UNCHANGED <<direct, conn, epochs, out, link, tracked, rx, buf, late,
                 reader, picked, got, tun, workVars, wire>>

(* The loop breaks: end of the socket, a failed write, the outbound channel *)
(* closed by a replacement, or a credential that is no longer live.         *)
Leave(e) ==
  /\ sock[e] = "serving"
  /\ SockGoto(e, "leaving")
  /\ UNCHANGED <<direct, conn, epochs, out, linkVars, grantVars, late,
                 readerVars, tun, workVars, wire>>

(* The task has ended: what was queued either way is gone with its socket. *)
Gone(e) ==
  /\ SockGoto(e, "gone")
  /\ out' = [out EXCEPT ![e] = <<>>]
  /\ up' = [up EXCEPT ![e] = <<>>]

(* A slip of Detach: the epoch is not compared. *)
Detach_AnyEpoch(e) ==
  /\ sock[e] = "leaving"
  /\ conn' = 0
  /\ SockGoto(e, "failing")
  /\ UNCHANGED <<direct, epochs, out, linkVars, grantVars, late, readerVars, tun,
                 workVars, wire>>

(* detach: only the socket that is still installed removes itself ... *)
Detach(e) ==
  /\ sock[e] = "leaving"
  /\ \/ /\ conn = e
        /\ conn' = 0
        /\ SockGoto(e, "failing")
        /\ UNCHANGED <<out, up>>
     \/ /\ conn # e
        /\ Gone(e)
        /\ UNCHANGED conn
  /\ UNCHANGED <<direct, epochs, link, grantVars, late, readerVars, tun,
                 workVars, wire>>

(* ... and then, the lock released, fails the device's grants. *)
DetachFails(e) ==
  /\ sock[e] = "failing"
  /\ Gone(e)
  /\ FailDeviceGrants("disconnected")
  /\ UNCHANGED <<direct, conn, epochs, link, tracked, rx, buf, late, reader,
                 picked, got, tun, workVars, wire>>

-----------------------------------------------------------------------------
(* The worker: run_source_connection, dispatch_grant, handle_tunnel_grant. *)

(* A frame to a socket whose server side has ended reaches nobody. *)
Says(g, kind) ==
  up' = IF sock[owner[g]] = "gone" THEN up
        ELSE [up EXCEPT ![owner[g]] = Append(@, <<kind, g>>)]

WorkGoto(g, pc) == work' = [work EXCEPT ![g] = pc]

(* The worker is through with the grants in G, and its task with it. *)
WorkEnds(G) ==
  /\ work' = [g \in Grants |-> IF g \in G THEN "done" ELSE work[g]]
  /\ owner' = [g \in Grants |-> IF g \in G THEN 0 ELSE owner[g]]
  /\ put' = [g \in Grants |-> IF g \in G THEN 0 ELSE put[g]]

(* dispatch_grant refuses: the item changed, no tunnel permit, ... *)
Refuse(g) ==
  /\ work[g] = "granted"
  /\ Says(g, "failed")
  /\ WorkEnds({g})
  /\ UNCHANGED <<direct, sockVars, link, grantVars, late, readerVars, tun,
                 wire>>

(* dispatch_grant accepts: the grant is stored for the direct endpoint, or *)
(* a task that will open the tunnel is spawned.                            *)
Accept(g) ==
  /\ work[g] = "granted"
  /\ Says(g, "ready")
  /\ \/ g \in direct /\ WorkEnds({g})
     \/ g \notin direct /\ WorkGoto(g, "opening") /\ UNCHANGED <<owner, put>>
  /\ UNCHANGED <<direct, sockVars, link, grantVars, late, readerVars, tun,
                 wire>>

(* The file cannot be opened, or the tunnel socket not connected. *)
OpenFails(g) ==
  /\ work[g] = "opening"
  /\ Says(g, "failed")
  /\ WorkEnds({g})
  /\ UNCHANGED <<direct, sockVars, link, grantVars, late, readerVars, tun,
                 wire>>

(* The tunnel socket is up; the server runs serve_tunnel on it. *)
Connect(g) ==
  /\ work[g] = "opening"
  /\ WorkGoto(g, "streaming")
  /\ tun' = [tun EXCEPT ![g] = "serving"]
  /\ UNCHANGED <<direct, sockVars, linkVars, grantVars, late, readerVars,
                 owner, put, wire>>

(* One binary frame.  The hub does not trust the worker to stop at length:  *)
(* the model lets it write one chunk too many.                              *)
Write(g) ==
  /\ work[g] = "streaming"
  /\ put[g] <= Length /\ wire[g] < WireCapacity
  /\ tun[g] \in {"serving", "pushing"}
  /\ put' = [put EXCEPT ![g] = @ + 1]
  /\ wire' = [wire EXCEPT ![g] = @ + 1]
  /\ UNCHANGED <<direct, sockVars, linkVars, grantVars, late, readerVars,
                 tun, work, owner>>

(* Every byte written: the socket is closed. *)
CloseTunnel(g) ==
  /\ work[g] = "streaming"
  /\ put[g] >= Length
  /\ WorkEnds({g})
  /\ UNCHANGED <<direct, sockVars, linkVars, grantVars, late, readerVars,
                 tun, wire>>

(* The file is short or a write fails: closed, and reported. *)
WriteFails(g) ==
  /\ work[g] = "streaming"
  /\ Says(g, "failed")
  /\ WorkEnds({g})
  /\ UNCHANGED <<direct, sockVars, link, grantVars, late, readerVars, tun,
                 wire>>

(* The worker loses its control connection: the loop returns and aborts the *)
(* tunnel tasks it spawned.  Frames already written may still be read.      *)
LinkDown(e) ==
  /\ link[e]
  /\ link' = [link EXCEPT ![e] = FALSE]
  /\ WorkEnds({g \in Grants : owner[g] = e})
  /\ UNCHANGED <<direct, sockVars, up, grantVars, late, readerVars, tun,
                 wire>>

-----------------------------------------------------------------------------
(* The tunnel: serve_tunnel. *)

TunGoto(g, pc) == tun' = [tun EXCEPT ![g] = pc]

(* A slip of PushAccounts: the byte budget is off by one. *)
PushAccounts_OneMore(g) ==
  LET p == pend[g]
  IN  /\ g \in tracked /\ ~Expires(g) /\ Claimable(p) /\ p.sent <= Length
      /\ p.tx
      /\ pend' = [pend EXCEPT ![g] =
           [life |-> "consumed", cause |-> p.cause, claimed |-> TRUE,
            seen |-> p.seen, sent |-> p.sent + 1, tx |-> p.tx]]
      /\ TunGoto(g, "pushing")
      /\ UNCHANGED notify

(* push_tunnel_chunk up to the await: the chunk is accounted for under the *)
(* lock and the sender cloned, or the push is refused and the loop breaks. *)
PushAccounts(g) ==
  LET p == pend[g]
  IN  /\ g \in tracked /\ ~Expires(g) /\ Claimable(p) /\ p.sent < Length
      /\ p.tx
      /\ pend' = [pend EXCEPT ![g] =
           [life |-> "consumed", cause |-> p.cause, claimed |-> TRUE,
            seen |-> p.seen, sent |-> p.sent + 1, tx |-> p.tx]]
      /\ TunGoto(g, "pushing")
      /\ UNCHANGED notify

PushRefused(g) ==
  LET p == pend[g]
      expires == g \in tracked /\ Expires(g)
      excess == g \in tracked /\ ~expires /\ Claimable(p) /\ p.sent = Length
  IN  /\ g \notin tracked \/ expires \/ ~Claimable(p) \/ excess \/ ~p.tx
      /\ pend' = [pend EXCEPT ![g] =
           IF expires THEN Expired(@)
           ELSE IF excess THEN Failed(Claimed(@), "budget") ELSE @]
      /\ notify' = Woken(IF (expires \/ excess) /\ ~IsTerminal(p)
                         THEN {g} ELSE {})
      /\ TunGoto(g, "finish")

Push(g) ==
  /\ tun[g] = "serving"
  /\ wire[g] > 0
  /\ \/ PushAccounts(g) /\ wire' = [wire EXCEPT ![g] = @ - 1]
     \/ PushRefused(g) /\ wire' = [wire EXCEPT ![g] = 0]
  /\ UNCHANGED <<direct, sockVars, linkVars, tracked, rx, buf, late, reader,
                 picked, got, workVars>>

(* sender.send().await: waits for room; fails once the receiver is dropped. *)
PushSends(g) ==
  /\ tun[g] = "pushing"
  /\ \/ /\ rx[g] # "dropped" /\ buf[g] < TunnelCapacity
        /\ buf' = [buf EXCEPT ![g] = @ + 1]
        /\ TunGoto(g, "serving")
        /\ UNCHANGED <<pend, notify, wire>>
     \/ /\ rx[g] = "dropped"
        /\ pend' = [pend EXCEPT ![g] = Failed(@, "dropped")]
        /\ notify' = Woken(IF IsTerminal(pend[g]) THEN {} ELSE {g})
        /\ TunGoto(g, "finish")
        /\ wire' = [wire EXCEPT ![g] = 0]
        /\ UNCHANGED buf
  /\ UNCHANGED <<direct, sockVars, linkVars, tracked, rx, late, reader,
                 picked, got, workVars>>

(* The worker's end is closed and everything it wrote was read. *)
TunnelCloses(g) ==
  /\ tun[g] = "serving"
  /\ work[g] \notin {"opening", "streaming"} /\ wire[g] = 0
  /\ TunGoto(g, "finish")
  /\ UNCHANGED <<direct, sockVars, linkVars, grantVars, late, readerVars,
                 workVars, wire>>

(* The credential is no longer live: the loop ends without finish_tunnel. *)
TunnelRevoked(g) ==
  /\ tun[g] \in {"serving", "finish"}
  /\ TunGoto(g, "gone")
  /\ wire' = [wire EXCEPT ![g] = 0]
  /\ UNCHANGED <<direct, sockVars, linkVars, grantVars, late, readerVars,
                 workVars>>

(* A slip of Finish: a claimed tunnel that ends is complete. *)
Finish_AnyLength(g) ==
  /\ tun[g] = "finish"
  /\ TunGoto(g, "gone")
  /\ LET ends == g \in tracked /\ pend[g].claimed /\ pend[g].life = "consumed"
     IN  /\ pend' = [pend EXCEPT ![g] =
                       IF ends THEN Over(@, "completed", @.cause) ELSE @]
         /\ notify' = Woken(IF ends THEN {g} ELSE {})
         /\ tracked' = IF ends THEN tracked \ {g} ELSE tracked
  /\ UNCHANGED <<direct, sockVars, linkVars, rx, buf, late, reader, picked, got,
                 workVars, wire>>

(* finish_tunnel *)
Finish(g) ==
  /\ tun[g] = "finish"
  /\ TunGoto(g, "gone")
  /\ LET p == pend[g]
         expires == g \in tracked /\ Expires(g)
         ends == g \in tracked /\ ~expires /\ p.claimed /\ p.life = "consumed"
     IN  /\ pend' = [pend EXCEPT ![g] =
              IF expires THEN Expired(@)
              ELSE IF ~ends THEN @
              ELSE IF p.sent = Length THEN Over(@, "completed", p.cause)
              ELSE Over(@, "failed", "length")]
         /\ notify' = Woken(IF (expires \/ ends) /\ ~IsTerminal(p)
                            THEN {g} ELSE {})
         /\ tracked' = IF ends THEN tracked \ {g} ELSE tracked
  /\ UNCHANGED <<direct, sockVars, linkVars, rx, buf, late, reader, picked,
                 got, workVars, wire>>

-----------------------------------------------------------------------------
ReaderStep(g) ==
  \/ Issue(g) \/ Register(g) \/ Pick(g) \/ Queue(g) \/ Lookup(g) \/ Arm(g)
  \/ Look(g) \/ Wake(g) \/ ClaimTunnel(g) \/ ConsumeDirect(g) \/ Recv(g)
  \/ EndOfStream(g) \/ Stall(g) \/ Abandon(g)

SocketStep(e) ==
  \/ Hello(e) \/ Install(e) \/ Deliver(e) \/ ReadFrame(e) \/ HandleFrame(e)
  \/ Leave(e) \/ Detach(e) \/ DetachFails(e) \/ LinkDown(e)

WorkerStep(g) ==
  \/ Refuse(g) \/ Accept(g) \/ OpenFails(g) \/ Connect(g) \/ Write(g)
  \/ CloseTunnel(g) \/ WriteFails(g)

TunnelStep(g) ==
  \/ Push(g) \/ PushSends(g) \/ TunnelCloses(g) \/ TunnelRevoked(g)
  \/ Finish(g)

Next ==
  \/ \E g \in Grants : \/ ReaderStep(g) \/ Expire(g) \/ WorkerStep(g)
                       \/ TunnelStep(g)
  \/ \E e \in Epochs : SocketStep(e)
  \/ RegisterOther

Spec == Init /\ [][Next]_vars

(* Scheduling.  A spawned task runs until it awaits, and the timers of the  *)
(* reader fire: the sleep at expires_at, the idle timeout of next_chunk.    *)
(* Nothing is assumed of clients, of the worker or of the network.          *)
ReaderRuns(g) ==
  \/ Register(g) \/ Pick(g) \/ Queue(g) \/ Lookup(g) \/ Arm(g) \/ Look(g)
  \/ Wake(g) \/ ClaimTunnel(g) \/ ConsumeDirect(g) \/ Recv(g)
  \/ EndOfStream(g) \/ Stall(g)

TunnelRuns(g) == Push(g) \/ PushSends(g) \/ TunnelCloses(g) \/ Finish(g)

Fairness ==
  \A g \in Grants :
    /\ WF_vars(ReaderRuns(g)) /\ WF_vars(Expire(g)) /\ WF_vars(TunnelRuns(g))

(* The reader's side alone: what it promises, it promises whatever becomes  *)
(* of the tunnel's handler.                                                *)
ReaderSpec ==
  Spec /\ \A g \in Grants : WF_vars(ReaderRuns(g)) /\ WF_vars(Expire(g))

FairSpec == Spec /\ Fairness

-----------------------------------------------------------------------------
TypeOK ==
  /\ direct \subseteq Grants
  /\ conn \in 0..MaxEpoch /\ epochs \in 0..MaxEpoch
  /\ sock \in [Epochs -> SockPcs]
  /\ out \in [Epochs -> Seq(Grants)]
  /\ link \in [Epochs -> BOOLEAN]
  /\ up \in [Epochs -> Seq(Frames)]
  /\ tracked \subseteq Grants
  /\ pend \in [Grants -> Transfer]
  /\ rx \in [Grants -> {"slot", "held", "dropped"}]
  /\ buf \in [Grants -> 0..TunnelCapacity]
  /\ late \subseteq Grants
  /\ reader \in [Grants -> ReaderPcs]
  /\ notify \in [Grants -> {"off", "armed", "fired"}]
  /\ picked \in [Grants -> 0..MaxEpoch]
  /\ got \in [Grants -> 0..Length]
  /\ tun \in [Grants -> TunPcs]
  /\ work \in [Grants -> WorkPcs]
  /\ owner \in [Grants -> 0..MaxEpoch]
  /\ put \in [Grants -> 0..(Length + 1)]
  /\ wire \in [Grants -> 0..(Length + 1)]

(* While the receiver exists, every chunk push_tunnel_chunk accounted for in *)
(* bytes_sent is in the channel, in the hand of the one push that awaits     *)
(* room, or was yielded to the reader: the count finish_tunnel compares with *)
(* the grant's length is the count of bytes the reader gets, and a body that *)
(* ends well has exactly the length asked for.                               *)
BytesAddUp ==
  \A g \in Grants :
    /\ rx[g] # "dropped" =>
         pend[g].sent = got[g] + buf[g] + (IF tun[g] = "pushing" THEN 1 ELSE 0)
    /\ pend[g].life = "completed" => pend[g].sent = Length
    /\ reader[g] = "ok" => got[g] = Length /\ pend[g].sent = Length

(* wait_ready enables its wake-up before it reads the state, because         *)
(* notify_waiters only reaches enabled futures: a reader asleep without a    *)
(* pending wake-up has nothing to learn, neither readiness nor an end.       *)
NoLostWakeup ==
  \A g \in Grants :
    reader[g] = "sleep" /\ notify[g] = "armed" =>
      ~pend[g].seen /\ ~IsTerminal(pend[g])

(* A grant leaves the registry only once nobody can act on it: reap, the     *)
(* releases of wait_ready and of the receiver, finish_tunnel and             *)
(* consume_direct never evict a grant whose tunnel could still be pushed to. *)
EvictedIsOver ==
  \A g \in Grants :
    reader[g] \notin {"idle", "register", "refused"} /\ g \notin tracked =>
      \/ IsTerminal(pend[g])
      \/ reader[g] \in {"direct", "abandoned"}

(* attach fails the grants of the socket it replaces before it installs the  *)
(* new one, so that a request which already targets the new socket is never  *)
(* failed as replaced (the comment in attach).                               *)
AttachSparesItsOwn ==
  [][\A g \in Grants :
       pend'[g].cause = "replaced" /\ pend[g].cause # "replaced"
         => picked[g] = 0 \/ picked[g] # epochs']_vars

(* detach removes only the socket named by its epoch: the end of a replaced  *)
(* connection's task never takes the newer connection off the hub.           *)
DetachOnlyItself ==
  [][conn # 0 /\ conn' = 0 => sock[conn] = "leaving"]_vars

(* Every grant behaves like the one-use grant the hub documents. *)
Grant == INSTANCE SourceGrant WITH
           life <- [g \in Grants |-> pend[g].life],
           seen <- [g \in Grants |-> pend[g].seen],
           sent <- [g \in Grants |-> pend[g].sent]
ImplementsGrant == Grant!Spec

(* Every read ends, whatever the worker does: the acceptance window bounds   *)
(* the wait for readiness and the idle timeout bounds each chunk.            *)
ReadsEnd == \A g \in Grants : reader[g] # "idle" ~> reader[g] \in Ended

(* reap: "Drop everything nothing can act on any more".  Once a grant is     *)
(* over, the tunnel task that waits for room in its channel stops waiting.   *)
OverFreesTheTunnel ==
  \A g \in Grants :
    IsTerminal(pend[g]) /\ tun[g] = "pushing" ~> tun[g] # "pushing"

=============================================================================
