----------------------------- MODULE SourceGrant -----------------------------
(***************************************************************************)
(* What the source hub promises about a one-use read grant, with no        *)
(* reader, socket, worker or clock in sight (the head of source_hub.rs):   *)
(* it is announced ready at most once and consumed at most once; its       *)
(* chunks never exceed the length it authorises; it is complete only when  *)
(* they reach it; expiry bounds its acceptance and never an accepted       *)
(* stream; and once over it stays as it ended.                             *)
(***************************************************************************)
EXTENDS Integers

CONSTANTS Grants, Length

VARIABLES
  life,    \* GrantLifecycle
  seen,    \* ready_seen
  sent     \* bytes_sent, in chunks

Open == {"pending", "ready"}
Live == {"pending", "ready", "consumed"}

Same(g) == life'[g] = life[g] /\ seen'[g] = seen[g] /\ sent'[g] = sent[g]

Announce(g) ==
  /\ life[g] \in Live /\ ~seen[g]
  /\ life'[g] = IF life[g] = "pending" THEN "ready" ELSE life[g]
  /\ seen'[g] /\ sent'[g] = sent[g]

Consume(g) ==
  /\ life[g] \in Open
  /\ life'[g] = "consumed" /\ seen'[g] = seen[g] /\ sent'[g] = sent[g]

Carry(g) ==
  /\ life[g] \in Live /\ sent[g] < Length
  /\ life'[g] = "consumed" /\ seen'[g] = seen[g] /\ sent'[g] = sent[g] + 1

Complete(g) ==
  /\ life[g] = "consumed" /\ sent[g] = Length
  /\ life'[g] = "completed" /\ seen'[g] = seen[g] /\ sent'[g] = sent[g]

Fail(g) ==
  /\ life[g] \in Live
  /\ life'[g] = "failed" /\ seen'[g] = seen[g] /\ sent'[g] = sent[g]

Expire(g) ==
  /\ life[g] \in Open \/ (life[g] = "consumed" /\ ~seen[g])
  /\ life'[g] = "expired" /\ seen'[g] = seen[g] /\ sent'[g] = sent[g]

Init ==
  /\ life = [g \in Grants |-> "pending"]
  /\ seen = [g \in Grants |-> FALSE]
  /\ sent = [g \in Grants |-> 0]

(* Grants are independent; a sweep or a disconnect moves several at once. *)
Next ==
  \A g \in Grants :
    \/ Same(g) \/ Announce(g) \/ Consume(g) \/ Carry(g) \/ Complete(g)
    \/ Fail(g) \/ Expire(g)

Spec == Init /\ [][Next]_<<life, seen, sent>>
=============================================================================
