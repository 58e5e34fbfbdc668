---------------------------- MODULE SourceHubProofs ----------------------------
(* For any set of grants and any length, capacities and number of control    *)
(* connections: every grant behaves like the one-use grant of SourceGrant,   *)
(* the bytes accounted for are the bytes the reader gets, no wake-up is lost *)
(* and no grant leaves the registry while something can still act on it.     *)
EXTENDS SourceHubSteps

USE SMTT(30)

-------------------------------------------------------------------------------
(* The outbound queues, the tunnels and the epochs. *)

LEMMA AppendAt ==
  ASSUME NEW S, NEW s \in Seq(S), NEW x \in S
  PROVE  /\ Len(Append(s, x)) = Len(s) + 1
         /\ \A i \in 1..Len(s) : Append(s, x)[i] = s[i]
         /\ Append(s, x)[Len(s) + 1] = x
OBVIOUS

LEMMA TailAt ==
  ASSUME NEW S, NEW s \in Seq(S), s # <<>>
  PROVE  /\ Len(s) \in Nat \ {0} /\ Len(Tail(s)) = Len(s) - 1 /\ Head(s) = s[1]
         /\ \A i \in 1..(Len(s) - 1) : Tail(s)[i] = s[i + 1]
OBVIOUS

\* Most steps leave the outbound queues alone, or drop one whole.
LEMMA QueuesKept ==
  ASSUME TypeOK, QueuedOnce,
         \A e \in Epochs : out'[e] = out[e] \/ out'[e] = <<>>,
         \A h \in Grants : /\ reader'[h] \in Early => reader[h] \in Early
                           /\ reader[h] \notin Early => picked'[h] = picked[h]
                           /\ work[h] = "none" => work'[h] = "none"
  PROVE  QueuedOnce'
<1>1. \A e \in Epochs : out[e] \in Seq(Grants)
  BY ZenonT(40) DEF TypeOK
<1>2. \A e \in Epochs : \A i \in 1..Len(out'[e]) : out'[e] = out[e] /\ out[e][i] \in Grants
  BY <1>1
<1>3. \A e \in Epochs : \A i \in 1..Len(out'[e]) :
        /\ picked'[out'[e][i]] = e /\ reader'[out'[e][i]] \notin Early
        /\ work'[out'[e][i]] = "none"
  BY <1>2 DEF QueuedOnce
<1>4. \A e \in Epochs : \A i, j \in 1..Len(out'[e]) : out'[e][i] = out'[e][j] => i = j
  BY <1>2 DEF QueuedOnce
<1>5. \A g \in Grants : reader'[g] \in Early => work'[g] = "none"
  BY ZenonT(40) DEF QueuedOnce
<1>. QED
  BY ZenonT(40), <1>3, <1>4, <1>5 DEF QueuedOnce, Early

\* try_send: the grant was in no queue before.
LEMMA QueueQueues ==
  ASSUME TypeOK, QueuedOnce, NEW g \in Grants, reader[g] = "queue",
         out' = [out EXCEPT ![picked[g]] = Append(@, g)], Goto(g, "lookup"),
         UNCHANGED <<picked, work>>
  PROVE  QueuedOnce'
<1>1. /\ out \in [Epochs -> Seq(Grants)] /\ reader \in [Grants -> ReaderPcs]
      /\ \A e \in Epochs : out[e] \in Seq(Grants)
      /\ \A e \in Epochs : Len(out[e]) \in Nat
  BY DEF TypeOK
<1>2. reader[g] \in Early /\ work[g] = "none"
  BY ZenonT(40) DEF Early, QueuedOnce
<1>3. /\ reader'[g] \notin Early /\ \A h \in Grants \ {g} : reader'[h] = reader[h]
      /\ \A h \in Grants : reader'[h] \in Early => reader[h] \in Early
  BY ZenonT(40), <1>1 DEF Goto, Early
<1>4. \A e \in Epochs : \A i \in 1..Len(out[e]) :
        /\ out[e][i] \in Grants \ {g} /\ picked[out[e][i]] = e
        /\ reader[out[e][i]] \notin Early /\ work[out[e][i]] = "none"
  BY <1>1, <1>2 DEF QueuedOnce
<1>5. ASSUME NEW e \in Epochs
      PROVE  /\ \A i \in 1..Len(out'[e]) : /\ out'[e][i] \in Grants /\ picked[out'[e][i]] = e
                                           /\ reader'[out'[e][i]] \notin Early
                                           /\ work[out'[e][i]] = "none"
             /\ \A i, j \in 1..Len(out'[e]) : out'[e][i] = out'[e][j] => i = j
  <2>1. CASE picked[g] = e
    <3>1. out'[e] = Append(out[e], g)
      BY ZenonT(40), <1>1, <2>1
    <3>2. /\ Len(out'[e]) = Len(out[e]) + 1
          /\ \A i \in 1..Len(out[e]) : out'[e][i] = out[e][i]
          /\ out'[e][Len(out[e]) + 1] = g
      BY <1>1, <3>1, AppendAt
    <3>3. ASSUME NEW i \in 1..Len(out'[e])
          PROVE  (i \in 1..Len(out[e]) /\ out'[e][i] = out[e][i]) \/ (i = Len(out[e]) + 1 /\ out'[e][i] = g)
      BY <1>1, <3>2
    <3>4. \A i, j \in 1..Len(out[e]) : out[e][i] = out[e][j] => i = j
      BY ZenonT(40) DEF QueuedOnce
    <3>. QED
      BY <1>2, <1>3, <1>4, <2>1, <3>3, <3>4
  <2>2. CASE picked[g] # e
    <3>1. out'[e] = out[e]
      BY ZenonT(40), <1>1, <2>2
    <3>2. \A i, j \in 1..Len(out[e]) : out[e][i] = out[e][j] => i = j
      BY ZenonT(40) DEF QueuedOnce
    <3>3. ASSUME NEW i \in 1..Len(out[e])
          PROVE  /\ out[e][i] \in Grants /\ picked[out[e][i]] = e
                 /\ reader'[out[e][i]] \notin Early /\ work[out[e][i]] = "none"
      BY <1>3, <1>4
    <3>4. \A i \in 1..Len(out'[e]) : /\ out'[e][i] \in Grants /\ picked[out'[e][i]] = e
                                     /\ reader'[out'[e][i]] \notin Early
                                     /\ work[out'[e][i]] = "none"
      BY Zenon, <3>1, <3>3
    <3>5. \A i, j \in 1..Len(out'[e]) : out'[e][i] = out'[e][j] => i = j
      BY ZenonT(40), <3>1, <3>2
    <3>. QED
      BY ZenonT(40), <3>4, <3>5
  <2>. QED
    BY ZenonT(40), <2>1, <2>2
<1>6. \A h \in Grants : reader'[h] \in Early => work[h] = "none"
  BY ZenonT(40), <1>3 DEF QueuedOnce
<1>. QED
  BY <1>5, <1>6 DEF QueuedOnce, Early

\* The loop hands the first grant of its queue to the worker.
LEMMA DeliverQueues ==
  ASSUME TypeOK, QueuedOnce, NEW e \in Epochs, Deliver(e)
  PROVE  QueuedOnce' /\ Head(out[e]) \in Grants /\ work[Head(out[e])] = "none"
<1>1. /\ out \in [Epochs -> Seq(Grants)] /\ work \in [Grants -> WorkPcs]
      /\ \A d \in Epochs : out[d] \in Seq(Grants)
  BY ZenonT(40) DEF TypeOK
<1> DEFINE s == out[e]
           x == s[1]
<1>2. /\ Len(s) \in Nat \ {0} /\ Len(Tail(s)) = Len(s) - 1 /\ Head(s) = x
      /\ \A i \in 1..(Len(s) - 1) : Tail(s)[i] = s[i + 1]
  BY ZenonT(40), <1>1, TailAt DEF Deliver
<1>3. /\ out' = [out EXCEPT ![e] = Tail(s)] /\ UNCHANGED <<reader, picked>>
      /\ work' = [work EXCEPT ![Head(s)] = "granted"] \/ UNCHANGED work
  BY ZenonT(40) DEF Deliver, readerVars
<1>4. /\ \A d \in Epochs : \A i \in 1..Len(out[d]) :
           /\ out[d][i] \in Grants /\ picked[out[d][i]] = d /\ reader[out[d][i]] \notin Early
           /\ work[out[d][i]] = "none"
      /\ \A d \in Epochs : \A i, j \in 1..Len(out[d]) : out[d][i] = out[d][j] => i = j
  <2>1. \A d \in Epochs : \A i \in 1..Len(out[d]) : out[d][i] \in Grants
    BY <1>1
  <2>. QED
    BY ZenonT(40), <2>1 DEF QueuedOnce
<1>5. x \in Grants /\ picked[x] = e /\ reader[x] \notin Early /\ work[x] = "none"
  BY <1>2, <1>4
<1>6. \A h \in Grants \ {x} : work'[h] = work[h]
  BY ZenonT(40), <1>1, <1>2, <1>3
<1>7. ASSUME NEW d \in Epochs, NEW i \in 1..Len(out'[d])
      PROVE  /\ out'[d][i] \in Grants \ {x} /\ picked[out'[d][i]] = d
             /\ reader[out'[d][i]] \notin Early /\ work[out'[d][i]] = "none"
  <2>1. CASE d = e
    <3>1. out'[d] = Tail(s)
      BY ZenonT(40), <1>1, <1>3, <2>1
    <3>2. i \in 1..(Len(s) - 1) /\ out'[d][i] = s[i + 1] /\ i + 1 \in 1..Len(s) /\ i + 1 # 1
          /\ 1 \in 1..Len(s)
      BY <1>2, <3>1
    <3>3. s[i + 1] # x
      BY ZenonT(40), <1>4, <3>2
    <3>. QED
      BY <1>4, <2>1, <3>2, <3>3
  <2>2. CASE d # e
    <3>1. out'[d] = out[d]
      BY ZenonT(40), <1>1, <1>3, <2>2
    <3>. QED
      BY <1>4, <1>5, <2>2, <3>1
  <2>. QED
    BY ZenonT(40), <2>1, <2>2
<1>8. ASSUME NEW d \in Epochs, NEW i \in 1..Len(out'[d]), NEW j \in 1..Len(out'[d]),
             out'[d][i] = out'[d][j]
      PROVE  i = j
  <2>1. CASE d = e
    <3>1. out'[d] = Tail(s)
      BY ZenonT(40), <1>1, <1>3, <2>1
    <3>2. /\ i \in 1..(Len(s) - 1) /\ out'[d][i] = s[i + 1] /\ i + 1 \in 1..Len(s)
          /\ j \in 1..(Len(s) - 1) /\ out'[d][j] = s[j + 1] /\ j + 1 \in 1..Len(s)
      BY <1>2, <3>1
    <3>3. \A k, l \in 1..Len(s) : s[k] = s[l] => k = l
      BY Zenon, <1>1, <1>4
    <3>4. s[i + 1] = s[j + 1]
      BY Zenon, <1>8, <3>2
    <3>5. i + 1 = j + 1
      BY Zenon, <3>2, <3>3, <3>4
    <3>. QED
      BY <3>2, <3>5
  <2>2. CASE d # e
    <3>1. out'[d] = out[d]
      BY <1>1, <1>3, <2>2
    <3>. QED
      BY <1>4, <1>8, <3>1
  <2>. QED
    BY ZenonT(40), <2>1, <2>2
<1>9. \A h \in Grants : reader[h] \in Early => work'[h] = "none"
  BY <1>5, <1>6 DEF QueuedOnce
<1>10. QueuedOnce'
  <2>1. ASSUME NEW d \in Epochs, NEW i \in 1..Len(out'[d])
        PROVE  /\ picked'[out'[d][i]] = d /\ reader'[out'[d][i]] \notin Early
               /\ work'[out'[d][i]] = "none"
    <3> DEFINE y == out'[d][i]
    <3>1. /\ y \in Grants \ {x} /\ picked[y] = d /\ reader[y] \notin Early
          /\ work[y] = "none"
      BY <1>7
    <3> HIDE DEF y
    <3>2. picked'[y] = d /\ reader'[y] \notin Early /\ work'[y] = "none"
      BY <1>3, <1>6, <3>1
    <3>. QED
      BY <3>2 DEF y
  <2>2. \A d \in Epochs : \A i, j \in 1..Len(out'[d]) : out'[d][i] = out'[d][j] => i = j
    BY ZenonT(40), <1>8
  <2>3. \A h \in Grants : reader'[h] \in Early => work'[h] = "none"
    BY ZenonT(40), <1>3, <1>9
  <2>. QED
    BY <2>1, <2>2, <2>3 DEF QueuedOnce, Early
<1>. QED
  BY ZenonT(40), <1>2, <1>5, <1>10

LEMMA DrawnKept ==
  ASSUME TypeOK, EpochsDrawn, [Next]_vars
  PROVE  EpochsDrawn'
<1>0. /\ conn \in Nat /\ epochs \in Nat /\ MaxEpoch \in Nat /\ picked \in [Grants -> 0..MaxEpoch]
      /\ sock \in [Epochs -> SockPcs] /\ \A g \in Grants : picked[g] \in Nat
      /\ \A e \in Epochs : e \in Nat
  BY ConstantsAreSane DEF TypeOK, Epochs
<1>1. CASE UNCHANGED <<conn, epochs, picked, sock>>
  BY ZenonT(40), <1>1 DEF EpochsDrawn
<1>2. ASSUME NEW g \in Grants, Pick(g)
      PROVE  EpochsDrawn'
  <2>1. UNCHANGED <<conn, epochs, sock>> /\ (UNCHANGED picked \/ picked' = [picked EXCEPT ![g] = conn])
    BY ZenonT(40), <1>2 DEF Pick, sockVars
  <2>2. \A h \in Grants : picked'[h] = picked[h] \/ picked'[h] = conn
    BY ZenonT(40), <1>0, <2>1
  <2>. QED
    BY ZenonT(40), <2>1, <2>2 DEF EpochsDrawn
<1>3. ASSUME NEW e \in Epochs, Hello(e)
      PROVE  EpochsDrawn'
  <2>1. /\ epochs' = epochs + 1 /\ e = epochs + 1 /\ UNCHANGED <<conn, picked>>
        /\ sock' = [sock EXCEPT ![e] = "installing"]
    BY ZenonT(40), <1>3 DEF Hello, SockGoto
  <2>2. \A d \in Epochs : sock'[d] = sock[d] \/ d = e
    BY ZenonT(40), <1>0, <2>1
  <2>3. \A d \in Epochs : sock'[d] # "new" => d <= epochs + 1
    BY <1>0, <2>1, <2>2 DEF EpochsDrawn
  <2>4. conn <= epochs + 1 /\ \A g \in Grants : picked[g] <= epochs + 1
    BY <1>0 DEF EpochsDrawn
  <2>. QED
    BY ZenonT(40), <2>1, <2>3, <2>4 DEF EpochsDrawn
<1>4. ASSUME NEW e \in Epochs, SocketStep(e), ~Hello(e)
      PROVE  EpochsDrawn'
  <2>1. UNCHANGED <<epochs, picked>> /\ (conn' \in {conn, 0} \/ (conn' = e /\ sock[e] = "installing"))
    BY ZenonT(40), <1>4 DEF SocketStep, Install, Deliver, ReadFrame, HandleFrame, Leave, Detach,
       DetachFails,
                LinkDown, sockVars, readerVars
  <2>2. UNCHANGED sock \/ (sock[e] # "new" /\ \E pc : sock' = [sock EXCEPT ![e] = pc])
    BY ZenonT(40), <1>4 DEF SocketStep, Install, Deliver, ReadFrame, HandleFrame, Leave, Detach,
       DetachFails,
                LinkDown, SockGoto, Gone, sockVars
  <2>3. \A d \in Epochs : sock'[d] = sock[d] \/ (d = e /\ sock[e] # "new")
    BY ZenonT(40), <1>0, <2>2
  <2>4. conn' <= epochs
    BY <1>0, <2>1 DEF EpochsDrawn
  <2>. QED
    BY ZenonT(40), <2>1, <2>3, <2>4 DEF EpochsDrawn
<1>5. ASSUME NEW g \in Grants, ReaderStep(g), ~Pick(g)
      PROVE  UNCHANGED <<conn, epochs, picked, sock>>
  BY ZenonT(40), <1>5 DEF ReaderStep, Issue, Register, Queue, Lookup, Arm, Look, Wake, ClaimTunnel,
       ConsumeDirect, Recv, EndOfStream, Stall, Abandon, sockVars
<1>6. ASSUME NEW g \in Grants, Expire(g) \/ WorkerStep(g) \/ TunnelStep(g)
      PROVE  UNCHANGED <<conn, epochs, picked, sock>>
  BY Zenon, <1>6 DEF Expire, WorkerStep, Refuse, Accept, OpenFails, Connect, Write, CloseTunnel,
       WriteFails, TunnelStep, Push, PushSends, TunnelCloses, TunnelRevoked, Finish, sockVars,
       readerVars
<1>7. CASE RegisterOther \/ UNCHANGED vars
  <2>1. UNCHANGED <<conn, epochs, picked, sock>>
    BY ZenonT(40), <1>7 DEF RegisterOther, vars, sockVars, readerVars
  <2>. QED
    BY ZenonT(40), <1>1, <2>1
<1>. QED
  BY ZenonT(40), <1>1, <1>2, <1>3, <1>4, <1>5, <1>6, <1>7 DEF Next

LEMMA FramesKept ==
  ASSUME TypeOK, FrameInHand, [Next]_vars
  PROVE  FrameInHand'
<1>0. /\ sock \in [Epochs -> SockPcs] /\ up \in [Epochs -> Seq(Frames)]
      /\ \A e \in Epochs : up[e] \in Seq(Frames)
  BY ZenonT(40) DEF TypeOK
<1>1. CASE UNCHANGED <<sock, up>>
  BY ZenonT(40), <1>1 DEF FrameInHand
<1>2. ASSUME NEW g \in Grants, UNCHANGED sock, Says(g, "ready") \/ Says(g, "failed")
      PROVE  FrameInHand'
  <2>1. PICK f \in Frames : up' = up \/ up' = [up EXCEPT ![owner[g]] = Append(@, f)]
    <3>1. <<"ready", g>> \in Frames /\ <<"failed", g>> \in Frames
      BY ZenonT(40) DEF Frames
    <3>. QED
      BY ZenonT(40), <1>2, <3>1 DEF Says
  <2>2. \A e \in Epochs : Append(up[e], f) # <<>>
    BY <1>0
  <2>3. \A e \in Epochs : up'[e] = up[e] \/ up'[e] = Append(up[e], f)
    BY ZenonT(40), <1>0, <2>1
  <2>. QED
    BY ZenonT(40), <1>2, <2>2, <2>3 DEF FrameInHand
<1>3. ASSUME NEW e \in Epochs, SocketStep(e)
      PROVE  FrameInHand'
  <2>1. \/ UNCHANGED <<sock, up>>
        \/ UNCHANGED up /\ \E pc \in SockPcs : sock' = [sock EXCEPT ![e] = pc]
                           /\ (pc = "handling" => up[e] # <<>>)
        \/ /\ \E pc \in SockPcs \ {"handling"} : sock' = [sock EXCEPT ![e] = pc]
           /\ \E s : up' = [up EXCEPT ![e] = s]
    BY ZenonT(40), <1>3 DEF SocketStep, Hello, Install, Deliver, ReadFrame, HandleFrame, Leave,
       Detach,
                DetachFails, LinkDown, SockGoto, Gone, sockVars, linkVars, SockPcs
  <2>. QED
    BY ZenonT(40), <1>0, <2>1 DEF FrameInHand
<1>4. ASSUME NEW g \in Grants, ReaderStep(g) \/ Expire(g) \/ TunnelStep(g)
      PROVE  UNCHANGED <<sock, up>>
  BY Zenon, <1>4 DEF ReaderStep, Issue, Register, Pick, Queue, Lookup, Arm, Look, Wake, ClaimTunnel,
       ConsumeDirect, Recv, EndOfStream, Stall, Abandon, Expire, TunnelStep, Push, PushSends,
       TunnelCloses, TunnelRevoked, Finish, sockVars, linkVars
<1>5. ASSUME NEW g \in Grants, WorkerStep(g)
      PROVE  UNCHANGED sock /\ (UNCHANGED up \/ Says(g, "ready") \/ Says(g, "failed"))
  BY ZenonT(40), <1>5 DEF WorkerStep, Refuse, Accept, OpenFails, Connect, Write, CloseTunnel,
     WriteFails,
       sockVars, linkVars
<1>6. CASE RegisterOther \/ UNCHANGED vars
  <2>1. UNCHANGED <<sock, up>>
    BY ZenonT(40), <1>6 DEF RegisterOther, vars, sockVars, linkVars
  <2>. QED
    BY ZenonT(40), <1>1, <2>1
<1>. QED
  BY ZenonT(40), <1>1, <1>2, <1>3, <1>4, <1>5, <1>6 DEF Next

LEMMA QueuedKept ==
  ASSUME TypeOK, QueuedOnce, TunnelOnce, [Next]_vars
  PROVE  QueuedOnce'
<1>0. /\ reader \in [Grants -> ReaderPcs] /\ picked \in [Grants -> 0..MaxEpoch]
      /\ work \in [Grants -> WorkPcs] /\ out \in [Epochs -> Seq(Grants)]
  BY ZenonT(40) DEF TypeOK
<1>1. CASE UNCHANGED <<reader, picked, work, out>>
  BY ZenonT(40), <1>1, QueuesKept
<1>2. ASSUME NEW g \in Grants, ReaderStep(g)
      PROVE  QueuedOnce'
  <2>0. UNCHANGED work
    BY ZenonT(40), <1>2 DEF ReaderStep, Issue, Register, Pick, Queue, Lookup, Arm, Look, Wake,
       ClaimTunnel,
         ConsumeDirect, Recv, EndOfStream, Stall, Abandon, workVars
  <2>1. CASE Queue(g) /\ out' # out
    BY Zenon, <2>0, <2>1, QueueQueues DEF Queue
  <2>2. CASE UNCHANGED out
    <3>1. \A h \in Grants : reader'[h] \in Early => reader[h] \in Early
      <4>1. CASE Issue(g) \/ Register(g) \/ Pick(g)
        BY ZenonT(40), <1>0, <4>1 DEF Issue, Register, Pick, FailPending, Goto, Early
      <4>2. CASE ~(Issue(g) \/ Register(g) \/ Pick(g))
        <5>1. UNCHANGED reader \/ \E pc : pc \notin Early /\ reader' = [reader EXCEPT ![g] = pc]
          BY Zenon, <1>2, <4>2 DEF ReaderStep, Queue, Lookup, Arm, Look, Verdict, Wake, ClaimTunnel,
               ConsumeDirect, RefuseClaim, ClaimRefusal, Recv, EndOfStream, Stall, Abandon,
               FailPending, Goto, Early
        <5>. QED
          BY ZenonT(40), <1>0, <5>1
      <4>. QED
        BY ZenonT(40), <4>1, <4>2
    <3>2. \A h \in Grants : reader[h] \notin Early => picked'[h] = picked[h]
      <4>1. CASE Pick(g)
        BY ZenonT(40), <1>0, <4>1 DEF Pick, Early
      <4>2. CASE ~Pick(g)
        BY ZenonT(40), <1>2, <4>2 DEF ReaderStep, Issue, Register, Queue, Lookup, Arm, Look, Wake,
           ClaimTunnel,
             ConsumeDirect, Recv, EndOfStream, Stall, Abandon
      <4>. QED
        BY ZenonT(40), <4>1, <4>2
    <3>. QED
      BY ZenonT(40), <2>0, <2>2, <3>1, <3>2, QueuesKept
  <2>3. Queue(g) \/ UNCHANGED out
    BY Zenon, <1>2 DEF ReaderStep, Issue, Register, Pick, Lookup, Arm, Look, Wake, ClaimTunnel,
         ConsumeDirect, Recv, EndOfStream, Stall, Abandon, sockVars
  <2>. QED
    BY ZenonT(40), <2>1, <2>2, <2>3
<1>3. ASSUME UNCHANGED <<reader, picked>>,
             \A h \in Grants : work[h] = "none" => work'[h] = "none",
             \A e \in Epochs : out'[e] = out[e] \/ out'[e] = <<>>
      PROVE  QueuedOnce'
  BY ZenonT(40), <1>3, QueuesKept
<1>4. ASSUME NEW g \in Grants, WorkerStep(g)
      PROVE  QueuedOnce'
  <2>1. UNCHANGED <<reader, picked, out>> /\ work[g] # "none"
    BY ZenonT(40), <1>4 DEF WorkerStep, Refuse, Accept, OpenFails, Connect, Write, CloseTunnel,
       WriteFails,
         sockVars, readerVars
  <2>2. \A h \in Grants \ {g} : work'[h] = work[h]
    BY ZenonT(40), <1>0, <1>4 DEF WorkerStep, Refuse, Accept, OpenFails, Connect, Write,
       CloseTunnel,
         WriteFails, WorkEnds, WorkGoto
  <2>. QED
    BY ZenonT(40), <1>3, <2>1, <2>2
<1>5. ASSUME NEW e \in Epochs, SocketStep(e), ~Deliver(e)
      PROVE  QueuedOnce'
  <2>1. UNCHANGED <<reader, picked>> /\ (UNCHANGED out \/ out' = [out EXCEPT ![e] = <<>>])
    BY ZenonT(40), <1>5 DEF SocketStep, Hello, Install, ReadFrame, HandleFrame, Leave, Detach,
                DetachFails, LinkDown, Gone, sockVars, readerVars
  <2>2. \/ UNCHANGED work
        \/ work' = [h \in Grants |-> IF h \in {x \in Grants : owner[x] = e} THEN "done" ELSE work[h]]
    BY ZenonT(40), <1>5 DEF SocketStep, Hello, Install, ReadFrame, HandleFrame, Leave, Detach,
                DetachFails, LinkDown, WorkEnds, workVars
  <2>3. e # 0
    BY ConstantsAreSane DEF Epochs
  <2>4. \A h \in Grants : work[h] = "none" => work'[h] = "none"
    BY ZenonT(40), <2>2, <2>3 DEF TunnelOnce
  <2>5. \A d \in Epochs : out'[d] = out[d] \/ out'[d] = <<>>
    BY ZenonT(40), <1>0, <2>1
  <2>. QED
    BY ZenonT(40), <1>3, <2>1, <2>4, <2>5
<1>6. ASSUME NEW g \in Grants, Expire(g) \/ TunnelStep(g)
      PROVE  QueuedOnce'
  <2>1. UNCHANGED <<reader, picked, work, out>>
    BY Zenon, <1>6 DEF Expire, TunnelStep, Push, PushSends, TunnelCloses, TunnelRevoked, Finish,
         sockVars, readerVars, workVars
  <2>. QED
    BY ZenonT(40), <1>1, <2>1
<1>7. CASE RegisterOther \/ UNCHANGED vars
  <2>1. UNCHANGED <<reader, picked, work, out>>
    BY ZenonT(40), <1>7 DEF RegisterOther, vars, sockVars, readerVars, workVars
  <2>. QED
    BY ZenonT(40), <1>1, <2>1
<1>. QED
  BY ZenonT(40), <1>2, <1>4, <1>5, <1>6, <1>7, DeliverQueues DEF Next

LEMMA TunnelKept ==
  ASSUME TypeOK, QueuedOnce, TunnelOnce, [Next]_vars
  PROVE  TunnelOnce'
<1>0. /\ work \in [Grants -> WorkPcs] /\ tun \in [Grants -> TunPcs]
      /\ wire \in [Grants -> 0..(Length + 1)] /\ put \in [Grants -> 0..(Length + 1)]
      /\ owner \in [Grants -> 0..MaxEpoch] /\ Length \in Nat
      /\ \A g \in Grants : wire[g] \in Nat /\ put[g] \in Nat
  BY ConstantsAreSane DEF TypeOK
<1> DEFINE Unopened == {"none", "granted", "opening"}
<1>1. CASE UNCHANGED <<work, owner, tun, wire, put>>
  BY ZenonT(40), <1>1 DEF TunnelOnce
<1>2. ASSUME NEW G, WorkEnds(G), UNCHANGED <<tun, wire>>
      PROVE  TunnelOnce'
  BY ZenonT(40), <1>2 DEF WorkEnds, TunnelOnce
<1>3. ASSUME NEW g \in Grants, Connect(g) \/ (Accept(g) /\ WorkGoto(g, "opening") /\ UNCHANGED <<owner, put>>)
      PROVE  TunnelOnce'
  <2>1. /\ UNCHANGED <<owner, put, wire>> /\ work[g] \in {"granted", "opening"}
        /\ \A h \in Grants \ {g} : work'[h] = work[h] /\ tun'[h] = tun[h]
        /\ work'[g] = "streaming" \/ (work'[g] = "opening" /\ tun'[g] = tun[g])
    BY ZenonT(40), <1>0, <1>3 DEF Connect, Accept, WorkGoto
  <2>2. wire[g] = 0 /\ put[g] = 0 /\ tun[g] = "none"
    BY ZenonT(40), <2>1 DEF TunnelOnce
  <2>3. ASSUME NEW h \in Grants
        PROVE  /\ work'[h] \in Unopened => tun'[h] = "none" /\ wire'[h] = 0 /\ put'[h] = 0
               /\ work'[h] = "streaming" => wire'[h] <= put'[h]
               /\ owner'[h] # 0 => work'[h] # "none"
    BY <2>1, <2>2 DEF TunnelOnce
  <2>. QED
    BY ZenonT(40), <2>3 DEF TunnelOnce
<1>4. ASSUME NEW g \in Grants, Write(g)
      PROVE  TunnelOnce'
  <2>1. /\ UNCHANGED <<work, owner, tun>> /\ work[g] = "streaming"
        /\ put'[g] = put[g] + 1 /\ wire'[g] = wire[g] + 1
        /\ \A h \in Grants \ {g} : put'[h] = put[h] /\ wire'[h] = wire[h]
    BY ZenonT(40), <1>0, <1>4 DEF Write
  <2>2. wire'[g] <= put'[g]
    BY <1>0, <2>1 DEF TunnelOnce
  <2>. QED
    BY ZenonT(40), <2>1, <2>2 DEF TunnelOnce
<1>5. ASSUME NEW g \in Grants, WorkerStep(g)
      PROVE  TunnelOnce'
  <2>1. \/ Connect(g) \/ (Accept(g) /\ WorkGoto(g, "opening") /\ UNCHANGED <<owner, put>>)
        \/ Write(g) \/ (WorkEnds({g}) /\ UNCHANGED <<tun, wire>>)
    BY ZenonT(40), <1>5 DEF WorkerStep, Refuse, Accept, OpenFails, CloseTunnel, WriteFails
  <2>. QED
    BY ZenonT(40), <1>2, <1>3, <1>4, <2>1
<1>6. ASSUME NEW g \in Grants, TunnelStep(g)
      PROVE  TunnelOnce'
  <2>1. /\ UNCHANGED <<work, owner, put>> /\ tun[g] # "none"
        /\ \A h \in Grants \ {g} : tun'[h] = tun[h] /\ wire'[h] = wire[h]
    BY ZenonT(40), <1>0, <1>6 DEF TunnelStep, Push, PushAccounts, PushRefused, PushSends,
       TunnelCloses,
         TunnelRevoked, Finish, TunGoto, workVars
  <2>2. wire'[g] = wire[g] \/ wire'[g] = 0 \/ wire'[g] = wire[g] - 1
    BY ZenonT(40), <1>0, <1>6 DEF TunnelStep, Push, PushSends, TunnelCloses, TunnelRevoked, Finish
  <2>3. work[g] \notin Unopened /\ (work[g] = "streaming" => wire'[g] <= put[g])
    BY <1>0, <2>1, <2>2 DEF TunnelOnce
  <2>. QED
    BY ZenonT(40), <2>1, <2>3 DEF TunnelOnce
<1>7. ASSUME NEW e \in Epochs, Deliver(e)
      PROVE  TunnelOnce'
  <2> DEFINE x == Head(out[e])
  <2>1. x \in Grants /\ work[x] = "none"
    BY ZenonT(40), <1>7, DeliverQueues
  <2>2. /\ UNCHANGED <<tun, put, wire>>
        /\ UNCHANGED <<work, owner>>
           \/ (work' = [work EXCEPT ![x] = "granted"] /\ owner' = [owner EXCEPT ![x] = e])
    BY Zenon, <1>7 DEF Deliver
  <2> HIDE DEF x
  <2>3. /\ \A h \in Grants \ {x} : work'[h] = work[h] /\ owner'[h] = owner[h]
        /\ work'[x] = "granted" \/ (work'[x] = work[x] /\ owner'[x] = owner[x])
    BY ZenonT(40), <1>0, <2>1, <2>2
  <2>. QED
    BY ZenonT(40), <2>1, <2>2, <2>3 DEF TunnelOnce
<1>8. ASSUME NEW e \in Epochs, SocketStep(e), ~Deliver(e)
      PROVE  TunnelOnce'
  <2>1. /\ UNCHANGED <<tun, wire>>
        /\ UNCHANGED <<work, owner, put>> \/ WorkEnds({h \in Grants : owner[h] = e})
    BY ZenonT(40), <1>8 DEF SocketStep, Hello, Install, ReadFrame, HandleFrame, Leave, Detach,
                DetachFails, LinkDown, workVars
  <2>. QED
    BY ZenonT(40), <1>1, <1>2, <2>1
<1>9. ASSUME NEW g \in Grants, ReaderStep(g) \/ Expire(g)
      PROVE  UNCHANGED <<work, owner, tun, wire, put>>
  BY Zenon, <1>9 DEF Expire, ReaderStep, Issue, Register, Pick, Queue, Lookup, Arm, Look, Wake,
       ClaimTunnel, ConsumeDirect, Recv, EndOfStream, Stall, Abandon, workVars
<1>10. CASE RegisterOther \/ UNCHANGED vars
  <2>1. UNCHANGED <<work, owner, tun, wire, put>>
    BY ZenonT(40), <1>10 DEF RegisterOther, vars, workVars
  <2>. QED
    BY ZenonT(40), <1>1, <2>1
<1>. QED
  BY ZenonT(40), <1>1, <1>5, <1>6, <1>7, <1>8, <1>9, <1>10 DEF Next

-------------------------------------------------------------------------------
(* The receiver, and the bytes. *)

\* What a step does to the receivers and to the chunks on their way.
Carrying(g) == got[g] + buf[g] + (IF tun[g] = "pushing" THEN 1 ELSE 0)

\* The reader drops the receiver and ends.
Drops(g) == EndOfStream(g) \/ Stall(g) \/ (Abandon(g) /\ reader[g] = "recv")

LEMMA DropsEnd ==
  ASSUME NEW g \in Grants, Drops(g)
  PROVE  /\ reader[g] = "recv" /\ UNCHANGED <<got, tun>>
         /\ rx' = [rx EXCEPT ![g] = "dropped"] /\ buf' = [buf EXCEPT ![g] = 0]
         /\ \E pc \in Ended : reader' = [reader EXCEPT ![g] = pc]
BY ZenonT(40) DEF Drops, EndOfStream, Stall, Abandon, DropReceiver, Goto, Ended

LEMMA ReceiverKept ==
  ASSUME TypeOK, ReceiverHeld, [Next]_vars
  PROVE  ReceiverHeld'
<1>0. reader \in [Grants -> ReaderPcs] /\ rx \in [Grants -> {"slot", "held", "dropped"}]
  BY ZenonT(40) DEF TypeOK
<1>1. CASE UNCHANGED <<reader, rx>>
  BY ZenonT(40), <1>1 DEF ReceiverHeld
<1>2. ASSUME NEW g \in Grants, reader[g] \notin Ended \cup {"recv"}, UNCHANGED rx,
             NEW pc, pc # "recv", reader' = [reader EXCEPT ![g] = pc]
      PROVE  ReceiverHeld'
  BY ZenonT(40), <1>0, <1>2 DEF ReceiverHeld, Ended
<1>3. ASSUME NEW g \in Grants, ReaderStep(g)
      PROVE  ReceiverHeld'
  <2>1. CASE Recv(g)
    BY ZenonT(40), <1>1, <2>1 DEF Recv
  <2>2. CASE ClaimTunnel(g) /\ ~RefuseClaim(g)
    BY ZenonT(40), <1>0, <2>2 DEF ClaimTunnel, Goto, ReceiverHeld, Ended
  <2>3. CASE Drops(g)
    BY ZenonT(40), <1>0, <2>3, DropsEnd DEF ReceiverHeld, Ended
  <2>4. CASE ~Recv(g) /\ ~(ClaimTunnel(g) /\ ~RefuseClaim(g)) /\ ~Drops(g)
    <3>1. reader[g] \notin Ended \cup {"recv"} /\ UNCHANGED rx
      BY ZenonT(40), <1>3, <2>4 DEF Drops, Ended, ReaderStep, Issue, Register, Pick, Queue, Lookup,
         Arm, Look, Wake,
           ClaimTunnel, ConsumeDirect, RefuseClaim, EndOfStream, Stall, Abandon, grantVars
    <3>2. \E pc : pc # "recv" /\ reader' = [reader EXCEPT ![g] = pc]
      BY ZenonT(40), <1>3, <2>4 DEF Drops, ReaderStep, Issue, Register, Pick, Queue, Lookup, Arm,
         Look, Verdict,
           Wake, ClaimTunnel, ConsumeDirect, RefuseClaim, ClaimRefusal, EndOfStream, Stall,
           Abandon, FailPending, Goto
    <3>. QED
      BY Zenon, <1>2, <3>1, <3>2
  <2>. QED
    BY ZenonT(40), <2>1, <2>2, <2>3, <2>4
<1>4. ASSUME NEW g \in Grants, Expire(g) \/ WorkerStep(g) \/ TunnelStep(g)
      PROVE  UNCHANGED <<reader, rx>>
  BY ZenonT(40), <1>4 DEF Expire, WorkerStep, Refuse, Accept, OpenFails, Connect, Write,
     CloseTunnel,
       WriteFails, TunnelStep, Push, PushSends, TunnelCloses, TunnelRevoked, Finish, grantVars,
       readerVars
<1>5. ASSUME NEW e \in Epochs, SocketStep(e)
      PROVE  UNCHANGED <<reader, rx>>
  BY ZenonT(40), <1>5 DEF SocketStep, Hello, Install, Deliver, ReadFrame, HandleFrame, Leave,
     Detach,
       DetachFails, LinkDown, grantVars, readerVars
<1>6. RegisterOther \/ UNCHANGED vars => UNCHANGED <<reader, rx>>
  BY ZenonT(40) DEF RegisterOther, vars, grantVars, readerVars
<1>. QED
  BY ZenonT(40), <1>1, <1>3, <1>4, <1>5, <1>6 DEF Next

\* Most steps carry nothing.
LEMMA BytesKept ==
  ASSUME TypeOK, BytesAddUp, Steps,
         \A h \in Grants : SentStays(h),
         \A h \in Grants : rx'[h] # "dropped" => rx[h] # "dropped" /\ Carrying(h)' = Carrying(h),
         \A h \in Grants : reader'[h] = "ok" =>
           \/ reader[h] = "ok" /\ got'[h] = got[h]
           \/ got'[h] = Length /\ pend[h].sent = Length
  PROVE  BytesAddUp'
<1> SUFFICES ASSUME NEW g \in Grants
             PROVE  /\ rx'[g] # "dropped" => pend'[g].sent = Carrying(g)'
                    /\ pend'[g].life = "completed" => pend'[g].sent = Length
                    /\ reader'[g] = "ok" => got'[g] = Length /\ pend'[g].sent = Length
  BY ZenonT(40) DEF BytesAddUp, Carrying
<1>1. pend'[g].sent = pend[g].sent
  BY ZenonT(40) DEF SentStays
<1>2. rx[g] # "dropped" => pend[g].sent = Carrying(g)
  BY ZenonT(40) DEF BytesAddUp, Carrying
<1>3. pend'[g].life = "completed" => pend'[g].sent = Length
  BY ZenonT(40), CompletedKept DEF BytesAddUp
<1>. QED
  BY ZenonT(40), <1>1, <1>2, <1>3 DEF BytesAddUp

\* A step of somebody else than the reader's end and the tunnel.
LEMMA BytesAside ==
  ASSUME TypeOK, BytesAddUp, Steps, \A h \in Grants : SentStays(h),
         UNCHANGED <<got, buf, tun>>,
         \A h \in Grants : /\ rx'[h] # "dropped" => rx[h] # "dropped"
                           /\ reader'[h] = "ok" => reader[h] = "ok"
  PROVE  BytesAddUp'
BY ZenonT(40), BytesKept DEF Carrying

LEMMA ReaderBytes ==
  ASSUME TypeOK, ReceiverHeld, BytesAddUp, Steps, \A h \in Grants : SentStays(h),
         NEW g \in Grants, ReaderStep(g)
  PROVE  BytesAddUp'
<1>0. /\ reader \in [Grants -> ReaderPcs] /\ rx \in [Grants -> {"slot", "held", "dropped"}]
      /\ got \in [Grants -> 0..Length] /\ buf \in [Grants -> 0..TunnelCapacity]
      /\ \A h \in Grants : got[h] \in Int /\ buf[h] \in Int
  BY ConstantsAreSane DEF TypeOK
<1>1. CASE Recv(g)
  <2>1. /\ UNCHANGED <<rx, reader, tun>> /\ reader[g] = "recv"
        /\ got'[g] = got[g] + 1 /\ buf'[g] = buf[g] - 1
        /\ \A h \in Grants \ {g} : got'[h] = got[h] /\ buf'[h] = buf[h]
    BY ZenonT(40), <1>0, <1>1 DEF Recv
  <2>2. ASSUME NEW h \in Grants
        PROVE  Carrying(h)' = Carrying(h)
    BY <1>0, <2>1 DEF Carrying
  <2>3. ASSUME NEW h \in Grants, reader'[h] = "ok"
        PROVE  reader[h] = "ok" /\ got'[h] = got[h]
    BY ZenonT(40), <2>1, <2>3
  <2>. QED
    BY ZenonT(40), <2>1, <2>2, <2>3, BytesKept
<1>2. CASE Drops(g)
  <2>1. /\ rx'[g] = "dropped" /\ UNCHANGED <<got, tun>>
        /\ \A h \in Grants \ {g} : rx'[h] = rx[h] /\ buf'[h] = buf[h] /\ reader'[h] = reader[h]
    BY ZenonT(40), <1>0, <1>2, DropsEnd
  <2>2. reader'[g] = "ok" => reader[g] = "ok" \/ (got'[g] = Length /\ pend[g].sent = Length)
    <3>1. CASE EndOfStream(g)
      <4>1. /\ rx[g] # "dropped" /\ buf[g] = 0 /\ tun[g] # "pushing" /\ got'[g] = got[g]
            /\ reader'[g] = "ok" => got[g] = Length
        BY ZenonT(40), <1>0, <3>1 DEF EndOfStream, ReceiverHeld, Goto
      <4>2. pend[g].sent = got[g]
        BY <1>0, <4>1 DEF BytesAddUp
      <4>. QED
        BY ZenonT(40), <4>1, <4>2
    <3>2. CASE ~EndOfStream(g)
      BY ZenonT(40), <1>0, <1>2, <3>2 DEF Drops, Stall, Abandon, Goto
    <3>. QED
      BY ZenonT(40), <3>1, <3>2
  <2>3. ASSUME NEW h \in Grants, rx'[h] # "dropped"
        PROVE  rx[h] # "dropped" /\ Carrying(h)' = Carrying(h)
    BY Zenon, <2>1, <2>3 DEF Carrying
  <2>. QED
    BY ZenonT(40), <2>1, <2>2, <2>3, BytesKept
<1>3. CASE ~Recv(g) /\ ~Drops(g)
  <2>1. UNCHANGED <<got, buf, tun>>
    BY ZenonT(40), <1>3 DEF Drops, ReaderStep, Issue, Register, Pick, Queue, Lookup, Arm, Look,
       Wake,
         ClaimTunnel, ConsumeDirect, EndOfStream, Stall, Abandon, grantVars
  <2>2. /\ \E pc : pc # "ok" /\ reader' = [reader EXCEPT ![g] = pc]
        /\ UNCHANGED rx \/ (rx' = [rx EXCEPT ![g] = "held"] /\ reader[g] = "claim")
    BY Zenon, <1>3 DEF Drops, ReaderStep, Issue, Register, Pick, Queue, Lookup, Arm, Look, Verdict,
         Wake, ClaimTunnel, ConsumeDirect, RefuseClaim, ClaimRefusal, EndOfStream, Stall, Abandon,
         FailPending, Goto, grantVars
  <2>3. \A h \in Grants : rx'[h] # "dropped" => rx[h] # "dropped"
    BY ZenonT(40), <1>0, <2>2 DEF ReceiverHeld, Ended
  <2>4. \A h \in Grants : reader'[h] = "ok" => reader[h] = "ok"
    BY ZenonT(40), <1>0, <2>2
  <2>. QED
    BY ZenonT(40), <2>1, <2>3, <2>4, BytesAside
<1>. QED
  BY ZenonT(40), <1>1, <1>2, <1>3

LEMMA TunnelBytes ==
  ASSUME TypeOK, BytesAddUp, Steps, NEW g \in Grants, TunnelStep(g),
         (\A h \in Grants : SentStays(h)) \/ (Push(g) /\ PushAccounts(g))
  PROVE  BytesAddUp'
<1>0. /\ tun \in [Grants -> TunPcs] /\ buf \in [Grants -> 0..TunnelCapacity]
      /\ pend \in [Grants -> Transfer] /\ Length \in Nat
      /\ \A h \in Grants : got[h] \in Int /\ buf[h] \in Int /\ pend[h].sent \in Int
  BY ConstantsAreSane DEF TypeOK, Transfer
<1>1. UNCHANGED <<rx, got, reader>>
  BY ZenonT(40) DEF TunnelStep, Push, PushSends, TunnelCloses, TunnelRevoked, Finish, grantVars,
     readerVars
<1>2. CASE Push(g) /\ PushAccounts(g)
  <2>1. /\ UNCHANGED <<tracked, buf>> /\ tun[g] = "serving" /\ tun' = [tun EXCEPT ![g] = "pushing"]
        /\ pend[g].sent < Length
    BY ZenonT(40), <1>2 DEF Push, PushAccounts, TunGoto
  <2>2. pend'[g].sent = pend[g].sent + 1 /\ \A h \in Grants \ {g} : SentStays(h)
    BY Zenon, <1>1, <1>2, <2>1, PushAccountsSteps
  <2>3. tun'[g] = "pushing" /\ \A h \in Grants \ {g} : tun'[h] = tun[h]
    BY ZenonT(40), <1>0, <2>1
  <2>4. ASSUME NEW h \in Grants
        PROVE  /\ rx'[h] # "dropped" => pend'[h].sent = Carrying(h)'
               /\ pend'[h].life = "completed" => pend'[h].sent = Length
               /\ reader'[h] = "ok" => got'[h] = Length /\ pend'[h].sent = Length
    <3>1. rx[h] # "dropped" => pend[h].sent = Carrying(h)
      BY ZenonT(40) DEF BytesAddUp, Carrying
    <3>2. pend'[h].life = "completed" => pend'[h].sent = Length
      BY ZenonT(40), CompletedKept DEF BytesAddUp
    <3>3. CASE h = g
      <4>1. rx'[g] # "dropped" => pend'[g].sent = Carrying(g)'
        BY <1>0, <1>1, <2>1, <2>2, <2>3, <3>1, <3>3 DEF Carrying
      <4>2. reader'[g] # "ok"
        BY <1>0, <1>1, <2>1 DEF BytesAddUp
      <4>. QED
        BY ZenonT(40), <3>2, <3>3, <4>1, <4>2
    <3>4. CASE h # g
      <4>1. Carrying(h)' = Carrying(h) /\ pend'[h].sent = pend[h].sent
        BY Zenon, <1>1, <2>1, <2>2, <2>3, <3>4 DEF Carrying, SentStays
      <4>. QED
        BY ZenonT(40), <1>1, <3>1, <3>2, <4>1 DEF BytesAddUp
    <3>. QED
      BY ZenonT(40), <3>3, <3>4
  <2>. QED
    BY ZenonT(40), <2>4 DEF BytesAddUp, Carrying
<1>3. CASE \A h \in Grants : SentStays(h)
  <2>1. CASE PushSends(g) /\ rx[g] # "dropped"
    <3>1. /\ buf' = [buf EXCEPT ![g] = @ + 1] /\ tun' = [tun EXCEPT ![g] = "serving"]
          /\ tun[g] = "pushing"
      BY ZenonT(40), <2>1 DEF PushSends, TunGoto
    <3>2. /\ buf'[g] = buf[g] + 1 /\ tun'[g] # "pushing" /\ tun[g] = "pushing"
          /\ \A h \in Grants \ {g} : buf'[h] = buf[h] /\ tun'[h] = tun[h]
      BY ZenonT(40), <1>0, <3>1
    <3>3. ASSUME NEW h \in Grants
          PROVE  Carrying(h)' = Carrying(h)
      BY <1>0, <1>1, <3>2 DEF Carrying
    <3>. QED
      BY ZenonT(40), <1>1, <1>3, <3>3, BytesKept
  <2>2. CASE PushSends(g) /\ rx[g] = "dropped"
    <3>1. UNCHANGED buf /\ \A h \in Grants \ {g} : tun'[h] = tun[h]
      BY ZenonT(40), <1>0, <2>2 DEF PushSends, TunGoto
    <3>2. ASSUME NEW h \in Grants, rx'[h] # "dropped"
          PROVE  rx[h] # "dropped" /\ Carrying(h)' = Carrying(h)
      BY ZenonT(40), <1>1, <2>2, <3>1, <3>2 DEF Carrying
    <3>. QED
      BY ZenonT(40), <1>1, <1>3, <3>2, BytesKept
  <2>3. CASE ~PushSends(g) /\ ~(Push(g) /\ PushAccounts(g))
    <3>1. UNCHANGED buf /\ tun[g] # "pushing" /\ \E pc : pc # "pushing" /\ tun' = [tun EXCEPT ![g] = pc]
      BY Zenon, <2>3 DEF TunnelStep, Push, PushRefused, TunnelCloses, TunnelRevoked, Finish,
         TunGoto, grantVars
    <3>2. \A h \in Grants : tun'[h] = "pushing" <=> tun[h] = "pushing"
      BY ZenonT(40), <1>0, <3>1
    <3>3. ASSUME NEW h \in Grants
          PROVE  Carrying(h)' = Carrying(h)
      BY ZenonT(40), <1>1, <3>1, <3>2 DEF Carrying
    <3>. QED
      BY ZenonT(40), <1>1, <1>3, <3>3, BytesKept
  <2>. QED
    BY ZenonT(40), <1>2, <2>1, <2>2, <2>3
<1>. QED
  BY ZenonT(40), <1>2, <1>3

LEMMA PushIsSeen ==
  ASSUME TypeOK, NEW h \in Grants, Push(h), PushAccounts(h)
  PROVE  tun[h] = "serving" /\ tun'[h] = "pushing"
<1>1. tun \in [Grants -> TunPcs]
  BY ZenonT(40) DEF TypeOK
<1>2. tun[h] = "serving" /\ tun' = [tun EXCEPT ![h] = "pushing"]
  BY ZenonT(40) DEF Push, PushAccounts, TunGoto
<1>. QED
  BY ZenonT(40), <1>1, <1>2

LEMMA BytesHold ==
  ASSUME TypeOK, ReceiverHeld, TunnelOnce, BytesAddUp, Steps, [Next]_vars,
         \A g \in Grants : SentStays(g) \/ (Push(g) /\ PushAccounts(g))
  PROVE  BytesAddUp'
<1>1. ASSUME NEW g \in Grants, ReaderStep(g)
      PROVE  BytesAddUp'
  <2>1. tun' = tun
    BY Zenon, <1>1 DEF ReaderStep, Issue, Register, Pick, Queue, Lookup, Arm, Look, Wake,
       ClaimTunnel,
         ConsumeDirect, Recv, EndOfStream, Stall, Abandon
  <2>2. \A h \in Grants : ~(Push(h) /\ PushAccounts(h))
    BY ZenonT(40), <2>1, PushIsSeen
  <2>. QED
    BY ZenonT(40), <1>1, <2>2, ReaderBytes
<1>2. ASSUME UNCHANGED <<got, buf, rx, reader, tun>>
      PROVE  BytesAddUp'
  <2>1. \A h \in Grants : ~(Push(h) /\ PushAccounts(h))
    BY ZenonT(40), <1>2, PushIsSeen
  <2>. QED
    BY ZenonT(40), <1>2, <2>1, BytesAside
<1>3. ASSUME NEW g \in Grants, Connect(g)
      PROVE  BytesAddUp'
  <2>1. /\ tun[g] = "none" /\ tun' = [tun EXCEPT ![g] = "serving"]
        /\ UNCHANGED <<got, buf, rx, reader, pend>>
    BY ZenonT(40), <1>3 DEF Connect, TunnelOnce, grantVars, readerVars
  <2>2. \A h \in Grants : tun'[h] = "pushing" <=> tun[h] = "pushing"
    BY ZenonT(40), <2>1 DEF TypeOK
  <2>3. ASSUME NEW h \in Grants
        PROVE  SentStays(h) /\ Carrying(h)' = Carrying(h)
    BY ZenonT(40), <2>1, <2>2 DEF Carrying, SentStays
  <2>. QED
    BY ZenonT(40), <2>1, <2>3, BytesKept
<1>4. ASSUME NEW g \in Grants, Expire(g) \/ (WorkerStep(g) /\ ~Connect(g))
      PROVE  UNCHANGED <<got, buf, rx, reader, tun>>
  BY ZenonT(40), <1>4 DEF Expire, WorkerStep, Refuse, Accept, OpenFails, Write, CloseTunnel,
     WriteFails,
       grantVars, readerVars
<1>5. ASSUME NEW e \in Epochs, SocketStep(e)
      PROVE  UNCHANGED <<got, buf, rx, reader, tun>>
  BY Zenon, <1>5 DEF SocketStep, Hello, Install, Deliver, ReadFrame, HandleFrame, Leave, Detach,
       DetachFails, LinkDown, grantVars, readerVars
<1>6. RegisterOther \/ UNCHANGED vars => UNCHANGED <<got, buf, rx, reader, tun>>
  BY ZenonT(40) DEF RegisterOther, vars, grantVars, readerVars
<1>7. ASSUME NEW g \in Grants, TunnelStep(g)
      PROVE  BytesAddUp'
  <2>1. CASE \E h \in Grants \ {g} : Push(h) /\ PushAccounts(h)
    <3>1. PICK h \in Grants \ {g} : Push(h) /\ PushAccounts(h)
      BY ZenonT(40), <2>1
    <3>2. tun'[h] = "pushing" /\ tun[h] = "serving"
      BY ZenonT(40), <3>1, PushIsSeen
    <3>3. \E pc : tun' = [tun EXCEPT ![g] = pc]
      BY ZenonT(40), <1>7 DEF TunnelStep, Push, PushAccounts, PushRefused, PushSends, TunnelCloses,
           TunnelRevoked, Finish, TunGoto
    <3>4. tun'[h] = tun[h]
      BY ZenonT(40), <3>3 DEF TypeOK
    <3>. QED
      BY ZenonT(40), <3>2, <3>4
  <2>2. CASE ~\E h \in Grants \ {g} : Push(h) /\ PushAccounts(h)
    BY ZenonT(40), <1>7, <2>2, TunnelBytes
  <2>. QED
    BY ZenonT(40), <2>1, <2>2
<1>. QED
  BY ZenonT(40), <1>1, <1>2, <1>3, <1>4, <1>5, <1>6, <1>7 DEF Next

-------------------------------------------------------------------------------
(* The invariant. *)

LEMMA InitInv == Init => IInv
<1> SUFFICES ASSUME Init PROVE IInv
  BY ZenonT(40)
<1>1. TypeOK
  BY ConstantsAreSane DEF Init, TypeOK, SockPcs, ReaderPcs, TunPcs, WorkPcs, Transfer, Lives, Causes
<1>2. ReceiverHeld /\ ExpiredIsLate /\ NoLostWakeup /\ EvictedIsOver
  BY ZenonT(40) DEF Init, ReceiverHeld, ExpiredIsLate, NoLostWakeup, EvictedIsOver
<1>3. Served
  <2>1. \A e \in Epochs : out[e] = <<>> /\ Len(out[e]) = 0
    BY ZenonT(40) DEF Init
  <2>2. QueuedOnce
    BY <2>1 DEF Init, QueuedOnce, Early
  <2>3. TunnelOnce /\ EpochsDrawn /\ FrameInHand
    BY DEF Init, TunnelOnce, EpochsDrawn, FrameInHand
  <2>. QED
    BY ZenonT(40), <2>2, <2>3 DEF Served
<1>4. BytesAddUp
  <2>1. ASSUME NEW g \in Grants
        PROVE  /\ pend[g] = [life |-> "pending", cause |-> "none", claimed |-> FALSE,
                             seen |-> FALSE, sent |-> 0, tx |-> TRUE]
               /\ got[g] = 0 /\ buf[g] = 0 /\ tun[g] = "none" /\ reader[g] = "idle"
    BY Zenon DEF Init
  <2>2. ASSUME NEW g \in Grants
        PROVE  /\ pend[g].sent = 0 /\ pend[g].life = "pending"
               /\ got[g] + buf[g] + (IF tun[g] = "pushing" THEN 1 ELSE 0) = 0
    BY <2>1
  <2>. QED
    BY Zenon, <2>1, <2>2 DEF BytesAddUp
<1>. QED
  BY ZenonT(40), <1>1, <1>2, <1>3, <1>4 DEF IInv

LEMMA StepInv == IInv /\ [Next]_vars => IInv'
<1> SUFFICES ASSUME IInv, [Next]_vars
             PROVE  IInv'
  BY ZenonT(40)
<1>0. /\ TypeOK /\ ReceiverHeld /\ QueuedOnce /\ TunnelOnce /\ EpochsDrawn /\ FrameInHand
      /\ ExpiredIsLate /\ BytesAddUp /\ NoLostWakeup /\ EvictedIsOver
  BY ZenonT(40) DEF IInv, Served
<1>1. Steps /\ \A g \in Grants : SentStays(g) \/ (Push(g) /\ PushAccounts(g))
  BY ZenonT(40), <1>0, NextSteps
<1>2. TypeOK'
  <2>1. CASE UNCHANGED vars
    BY ZenonT(40), <1>0, <2>1 DEF TypeOK, vars, sockVars, linkVars, grantVars, readerVars, workVars
  <2>2. CASE RegisterOther
    <3>1. notify' \in [Grants -> {"off", "armed", "fired"}]
      BY ZenonT(40), <1>0, <2>2, ReapMoves DEF RegisterOther
    <3>2. tracked' \subseteq Grants /\ pend' \in [Grants -> Transfer]
      BY ZenonT(40), <1>0, <1>1, <2>2 DEF RegisterOther, TypeOK, Steps
    <3>. QED
      BY ZenonT(40), <1>0, <2>2, <3>1, <3>2 DEF RegisterOther, TypeOK, sockVars, linkVars, workVars
  <2>. QED
    BY ZenonT(40), <1>0, <1>1, <2>1, <2>2, ReaderTypes, WorkerTypes, TunnelTypes, SocketTypes
       DEF Next
<1>3. ReceiverHeld'
  BY ZenonT(40), <1>0, ReceiverKept
<1>4. QueuedOnce' /\ TunnelOnce' /\ EpochsDrawn' /\ FrameInHand'
  BY ZenonT(40), <1>0, QueuedKept, TunnelKept, DrawnKept, FramesKept
<1>5. ExpiredIsLate'
  BY ZenonT(40), <1>0, <1>1, LateStays, ExpiredStaysLate
<1>6. NoLostWakeup' /\ EvictedIsOver'
  BY ZenonT(40), <1>0, <1>1, WakeupsKept, EvictionsKept
<1>7. BytesAddUp'
  BY ZenonT(40), <1>0, <1>1, BytesHold
<1>. QED
  BY ZenonT(40), <1>2, <1>3, <1>4, <1>5, <1>6, <1>7 DEF IInv, Served

LEMMA Invariant == Spec => []IInv
<1>. QED
  BY InitInv, StepInv, PTL DEF Spec

-------------------------------------------------------------------------------
(* Who blames a replaced socket, and who takes a socket off the hub. *)

\* A step by which no grant comes to be failed as replaced.
NoBlame == \A g \in Grants : pend'[g].cause = "replaced" => pend[g].cause = "replaced"

LEMMA CausesKept ==
  ASSUME NEW p \in Transfer
  PROVE  /\ \A cause : Failed(p, cause).cause \in {p.cause, cause}
         /\ Expired(p).cause = p.cause /\ Claimed(p).cause = p.cause
         /\ \A cause : Failed(Claimed(p), cause).cause \in {p.cause, cause}
BY ZenonT(40) DEF Failed, Expired, Over, Claimed

LEMMA OneBlames ==
  ASSUME NEW g \in Grants, pend' = [pend EXCEPT ![g] = pend'[g]], pend \in [Grants -> Transfer],
         pend'[g].cause \in {pend[g].cause, "unsent", "dropped", "stalled", "worker", "budget",
                             "length"}
  PROVE  NoBlame
<1>1. \A h \in Grants \ {g} : pend'[h] = pend[h]
  BY ZenonT(40)
<1>. QED
  BY ZenonT(40), <1>1 DEF NoBlame

LEMMA SweepBlames ==
  ASSUME TypeOK, NEW idle, Reap(idle)
  PROVE  NoBlame
<1> SUFFICES ASSUME NEW h \in Grants
             PROVE  pend'[h].cause = "replaced" => pend[h].cause = "replaced"
  BY ZenonT(40) DEF NoBlame
<1>1. pend[h] \in Transfer
  BY ZenonT(40) DEF TypeOK
<1>2. pend'[h] \in {pend[h], Expired(pend[h]), Failed(pend[h], "stalled")}
  BY ZenonT(40) DEF Reap
<1>3. /\ Expired(pend[h]).cause = pend[h].cause
      /\ Failed(pend[h], "stalled").cause \in {pend[h].cause, "stalled"}
  BY ZenonT(40), <1>1, CausesKept
<1>. QED
  BY ZenonT(40), <1>2, <1>3

LEMMA ReaderBlames ==
  ASSUME TypeOK, NEW g \in Grants, ReaderStep(g)
  PROVE  NoBlame
<1>0. pend \in [Grants -> Transfer] /\ pend[g] \in Transfer
  BY ZenonT(40) DEF TypeOK
<1>1. CASE UNCHANGED pend
  BY ZenonT(40), <1>1 DEF NoBlame
<1>2. CASE \E idle : Reap(idle)
  BY ZenonT(40), <1>2, SweepBlames
<1>3. CASE /\ pend' = [pend EXCEPT ![g] = pend'[g]]
           /\ \/ pend'[g].cause = pend[g].cause
              \/ pend'[g] \in {Expired(pend[g]), Claimed(pend[g]), Failed(pend[g], "unsent"),
                               Failed(pend[g], "dropped"), Failed(pend[g], "stalled")}
  <2>1. /\ Expired(pend[g]).cause = pend[g].cause /\ Claimed(pend[g]).cause = pend[g].cause
        /\ Failed(pend[g], "unsent").cause \in {pend[g].cause, "unsent"}
        /\ Failed(pend[g], "dropped").cause \in {pend[g].cause, "dropped"}
        /\ Failed(pend[g], "stalled").cause \in {pend[g].cause, "stalled"}
    BY ZenonT(40), <1>0, CausesKept
  <2>2. pend'[g].cause \in {pend[g].cause, "unsent", "dropped", "stalled"}
    BY ZenonT(40), <1>3, <2>1
  <2>. QED
    BY ZenonT(40), <1>0, <1>3, <2>2, OneBlames
<1>4. CASE Pick(g) \/ Queue(g)
  BY ZenonT(40), <1>0, <1>1, <1>3, <1>4 DEF Pick, Queue, FailPending
<1>5. CASE Look(g) \/ Wake(g)
  BY ZenonT(40), <1>0, <1>1, <1>3, <1>5 DEF Look, Wake
<1>6. CASE RefuseClaim(g)
  BY ZenonT(40), <1>0, <1>3, <1>6 DEF RefuseClaim
<1>7. CASE ClaimTunnel(g) /\ ~RefuseClaim(g)
  BY ZenonT(40), <1>0, <1>3, <1>7 DEF ClaimTunnel
<1>8. CASE ConsumeDirect(g) /\ ~RefuseClaim(g)
  BY <1>0, <1>3, <1>8 DEF ConsumeDirect
<1>9. CASE EndOfStream(g) \/ Stall(g) \/ Abandon(g)
  BY ZenonT(40), <1>0, <1>1, <1>3, <1>9 DEF EndOfStream, Stall, Abandon, DropReceiver, grantVars
<1>. QED
  BY ZenonT(40), <1>1, <1>2, <1>4, <1>5, <1>6, <1>7, <1>8, <1>9
     DEF ReaderStep, Issue, Register, Lookup, Arm, Recv, grantVars

LEMMA TunnelBlames ==
  ASSUME TypeOK, NEW g \in Grants, TunnelStep(g)
  PROVE  NoBlame
<1>0. pend \in [Grants -> Transfer] /\ pend[g] \in Transfer
  BY DEF TypeOK
<1>1. CASE UNCHANGED pend
  BY <1>1 DEF NoBlame
<1>2. CASE /\ pend' = [pend EXCEPT ![g] = pend'[g]]
           /\ \/ pend'[g].cause \in {pend[g].cause, "length"}
              \/ pend'[g] \in {Expired(pend[g]), Failed(Claimed(pend[g]), "budget"),
                               Failed(pend[g], "dropped")}
  <2>1. /\ Expired(pend[g]).cause = pend[g].cause
        /\ Failed(Claimed(pend[g]), "budget").cause \in {pend[g].cause, "budget"}
        /\ Failed(pend[g], "dropped").cause \in {pend[g].cause, "dropped"}
    BY ZenonT(40), <1>0, CausesKept
  <2>2. pend'[g].cause \in {pend[g].cause, "budget", "dropped", "length"}
    BY ZenonT(40), <1>2, <2>1
  <2>. QED
    BY ZenonT(40), <1>0, <1>2, <2>2, OneBlames
<1>3. CASE PushAccounts(g)
  BY ZenonT(40), <1>0, <1>2, <1>3 DEF PushAccounts
<1>4. CASE PushRefused(g)
  BY ZenonT(40), <1>0, <1>2, <1>4 DEF PushRefused
<1>5. CASE PushSends(g)
  BY ZenonT(40), <1>0, <1>1, <1>2, <1>5 DEF PushSends
<1>6. CASE Finish(g)
  BY ZenonT(40), <1>0, <1>2, <1>6 DEF Finish, Over
<1>. QED
  BY ZenonT(40), <1>1, <1>3, <1>4, <1>5, <1>6 DEF TunnelStep, Push, TunnelCloses, TunnelRevoked,
     grantVars

LEMMA SocketBlames ==
  ASSUME TypeOK, FrameInHand, NEW e \in Epochs, SocketStep(e), ~Hello(e)
  PROVE  NoBlame
<1>0. pend \in [Grants -> Transfer] /\ \A h \in Grants : pend[h] \in Transfer
  BY ZenonT(40) DEF TypeOK
<1>1. CASE UNCHANGED pend
  BY ZenonT(40), <1>1 DEF NoBlame
<1>2. ASSUME NEW g \in Grants, ReadReady(g) \/ ReadFailed(g)
      PROVE  NoBlame
  <2>1. CASE /\ pend' = [pend EXCEPT ![g] = pend'[g]]
             /\ \/ pend'[g].cause = pend[g].cause
                \/ pend'[g] \in {Expired(pend[g]), Failed(pend[g], "worker")}
    <3>1. /\ Expired(pend[g]).cause = pend[g].cause
          /\ Failed(pend[g], "worker").cause \in {pend[g].cause, "worker"}
      BY ZenonT(40), <1>0, CausesKept
    <3>2. pend'[g].cause \in {pend[g].cause, "worker"}
      BY ZenonT(40), <2>1, <3>1
    <3>. QED
      BY ZenonT(40), <1>0, <2>1, <3>2, OneBlames
  <2>2. CASE ReadReady(g)
    BY <1>0, <1>1, <2>1, <2>2 DEF ReadReady
  <2>3. CASE ReadFailed(g)
    BY ZenonT(40), <1>0, <1>1, <2>1, <2>3 DEF ReadFailed
  <2>. QED
    BY ZenonT(40), <1>2, <2>2, <2>3
<1>3. CASE HandleFrame(e)
  <2>1. Head(up[e]) \in Frames
    BY <1>3 DEF HandleFrame, FrameInHand, TypeOK
  <2>2. Head(up[e])[2] \in Grants
    BY ZenonT(40), <2>1 DEF Frames
  <2>. QED
    BY ZenonT(40), <1>2, <1>3, <2>2 DEF HandleFrame
<1>4. CASE DetachFails(e)
  <2> SUFFICES ASSUME NEW h \in Grants
               PROVE  pend'[h].cause = "replaced" => pend[h].cause = "replaced"
    BY ZenonT(40) DEF NoBlame
  <2>1. pend'[h] \in {pend[h], Failed(pend[h], "disconnected")}
    BY ZenonT(40), <1>4 DEF DetachFails, FailDeviceGrants
  <2>2. Failed(pend[h], "disconnected").cause \in {pend[h].cause, "disconnected"}
    BY ZenonT(40), <1>0, CausesKept
  <2>. QED
    BY ZenonT(40), <2>1, <2>2
<1>. QED
  BY ZenonT(40), <1>1, <1>3, <1>4
     DEF SocketStep, Install, Deliver, ReadFrame, Leave, Detach, LinkDown, grantVars

\* Only the connection that replaces a socket blames it.
LEMMA OnlyHelloBlames ==
  ASSUME TypeOK, FrameInHand, [Next]_vars, \A e \in Epochs : ~Hello(e)
  PROVE  NoBlame
<1>1. CASE UNCHANGED pend
  BY ZenonT(40), <1>1 DEF NoBlame
<1>2. CASE RegisterOther
  BY ZenonT(40), <1>2, SweepBlames DEF RegisterOther
<1>3. ASSUME NEW g \in Grants, Expire(g) \/ WorkerStep(g)
      PROVE  UNCHANGED pend
  BY Zenon, <1>3 DEF Expire, WorkerStep, Refuse, Accept, OpenFails, Connect, Write, CloseTunnel,
       WriteFails, grantVars
<1>4. CASE UNCHANGED vars
  BY ZenonT(40), <1>1, <1>4 DEF vars, grantVars
<1>. QED
  BY ZenonT(40), <1>1, <1>2, <1>3, <1>4, ReaderBlames, TunnelBlames, SocketBlames DEF Next

LEMMA OnlyDetachRemoves ==
  ASSUME [Next]_vars, conn # 0, conn' = 0
  PROVE  \E e \in Epochs : Detach(e) /\ conn = e
<1>1. conn' # conn
  BY ZenonT(40)
<1>2. ASSUME NEW g \in Grants, ReaderStep(g) \/ Expire(g) \/ WorkerStep(g) \/ TunnelStep(g)
      PROVE  FALSE
  BY ZenonT(40), <1>1, <1>2 DEF ReaderStep, Issue, Register, Pick, Queue, Lookup, Arm, Look, Wake,
       ClaimTunnel, ConsumeDirect, Recv, EndOfStream, Stall, Abandon, Expire, WorkerStep, Refuse,
       Accept, OpenFails, Connect, Write, CloseTunnel, WriteFails, TunnelStep, Push, PushSends,
       TunnelCloses, TunnelRevoked, Finish, sockVars
<1>3. ASSUME NEW e \in Epochs, SocketStep(e)
      PROVE  Detach(e) /\ conn = e
  <2>1. e # 0
    BY ConstantsAreSane DEF Epochs
  <2>. QED
    BY Zenon, <1>1, <1>3, <2>1 DEF SocketStep, Hello, Install, Deliver, ReadFrame, HandleFrame,
       Leave,
         Detach, DetachFails, LinkDown, sockVars
<1>. QED
  BY ZenonT(40), <1>1, <1>2, <1>3 DEF Next, RegisterOther, vars, sockVars

-------------------------------------------------------------------------------
(* The theorems. *)

\* Every variable of the hub, of its readers, sockets, tunnels and of the worker
\* keeps its type: bytes_sent never exceeds the length of the grant, the tunnel
\* channel never exceeds SOURCE_TUNNEL_CAPACITY, and no reader gets more chunks
\* than the grant authorises.
THEOREM WellTyped == Spec => []TypeOK
<1>1. IInv => TypeOK
  BY ZenonT(40) DEF IInv
<1>. QED
  BY <1>1, Invariant, PTL

\* While the receiver exists, every chunk push_tunnel_chunk accounted for is in
\* the channel, in the hand of the push that awaits room, or with the reader; a
\* completed grant carried its whole length, and a body that ended well has it.
THEOREM BytesAccounted == Spec => []BytesAddUp
<1>1. IInv => BytesAddUp
  BY ZenonT(40) DEF IInv
<1>. QED
  BY <1>1, Invariant, PTL

\* A reader asleep in wait_ready without a pending wake-up has nothing to learn:
\* neither readiness nor an end reached the grant unannounced.
THEOREM WakeupsReach == Spec => []NoLostWakeup
<1>1. IInv => NoLostWakeup
  BY ZenonT(40) DEF IInv
<1>. QED
  BY <1>1, Invariant, PTL

\* No grant leaves the registry while its tunnel could still be pushed to.
THEOREM EvictionIsFinal == Spec => []EvictedIsOver
<1>1. IInv => EvictedIsOver
  BY ZenonT(40) DEF IInv
<1>. QED
  BY <1>1, Invariant, PTL

\* attach never fails, as replaced, a grant that was sent to the socket it is
\* about to install.
THEOREM AttachSpares == Spec => AttachSparesItsOwn
<1>1. ASSUME IInv, [Next]_vars, NEW g \in Grants,
             pend'[g].cause = "replaced", pend[g].cause # "replaced"
      PROVE  picked[g] = 0 \/ picked[g] # epochs'
  <2>1. TypeOK /\ FrameInHand /\ EpochsDrawn
    BY ZenonT(40), <1>1 DEF IInv, Served
  <2>2. PICK e \in Epochs : Hello(e)
    BY ZenonT(40), <1>1, <2>1, OnlyHelloBlames DEF NoBlame
  <2>3. epochs' = epochs + 1 /\ picked[g] <= epochs
    BY ZenonT(40), <2>1, <2>2 DEF Hello, EpochsDrawn
  <2>4. epochs \in Int /\ picked[g] \in Int
    BY <2>1, ConstantsAreSane DEF TypeOK
  <2>. QED
    BY <2>3, <2>4
<1>2. IInv /\ [Next]_vars =>
        [\A g \in Grants :
           pend'[g].cause = "replaced" /\ pend[g].cause # "replaced"
             => picked[g] = 0 \/ picked[g] # epochs']_vars
  BY ZenonT(40), <1>1
<1>. QED
  BY <1>2, Invariant, PTL DEF Spec, AttachSparesItsOwn

\* The end of a replaced connection's task never takes the newer connection off
\* the hub: only the task of the installed socket removes it, and it is leaving.
THEOREM DetachRemovesItself == Spec => DetachOnlyItself
<1>1. [Next]_vars => [conn # 0 /\ conn' = 0 => sock[conn] = "leaving"]_vars
  BY ZenonT(40), OnlyDetachRemoves DEF Detach
<1>. QED
  BY <1>1, PTL DEF Spec, DetachOnlyItself

\* The registry implements the one-use grant of SourceGrant: announced at most
\* once, consumed at most once, never carried beyond its length, complete only at
\* its length, not expired once its tunnel is accepted, and final once over.
THEOREM GrantsAreOneUse == Spec => ImplementsGrant
<1>1. Init => Grant!Init
  BY DEF Init, Grant!Init
<1>2. IInv /\ [Next]_vars =>
        [Grant!Next]_<<[g \in Grants |-> pend[g].life], [g \in Grants |-> pend[g].seen],
                       [g \in Grants |-> pend[g].sent]>>
  <2> SUFFICES ASSUME IInv, [Next]_vars
               PROVE  Grant!Next
    OBVIOUS
  <2>. QED
    BY ZenonT(40), NextSteps, GrantSimulation DEF IInv, Served
<1>. QED
  BY <1>1, <1>2, Invariant, PTL DEF Spec, ImplementsGrant, Grant!Spec
===============================================================================
