--------------------------- MODULE CountsProofs ---------------------------
(***************************************************************************)
(* JobQueueCounts, for any number of jobs: the counts are the sizes of the *)
(* sets of jobs they count.                                                *)
(***************************************************************************)
EXTENDS BackgroundJobsProofs, FiniteSetTheorems

USE SMTT(30)

QueuedOf(k) == {j \in Jobs : job[j].kind = k /\ job[j].pc \in Waiting \cup {"lost"}}
RunningOf(k) == {j \in Jobs : job[j].kind = k /\ job[j].pc \in Open}

(* The counts. *)

\* The count of each kind is the number of jobs in its set.
Tally(count, S) ==
  /\ count \in [Kinds -> Nat]
  /\ \A k \in Kinds : IsFiniteSet(S[k]) /\ count[k] = Cardinality(S[k])

Waiters == [k \in Kinds |-> QueuedOf(k)]
Runners == [k \in Kinds |-> RunningOf(k)]

Counts == Tally(queued, Waiters) /\ Tally(running, Runners)

LEMMA TallySame ==
  ASSUME NEW count, NEW S, NEW T, Tally(count, S), \A x \in Kinds : T[x] = S[x]
  PROVE  Tally(count, T)
BY ZenonT(40) DEF Tally

LEMMA TallyJoins ==
  ASSUME NEW count, NEW S, NEW T, NEW k \in Kinds, NEW j, Tally(count, S),
         j \notin S[k], T[k] = S[k] \cup {j}, \A x \in Kinds \ {k} : T[x] = S[x]
  PROVE  Tally(Increment(count, k), T)
<1>1. IsFiniteSet(T[k]) /\ Cardinality(T[k]) = Cardinality(S[k]) + 1
  BY FS_AddElement DEF Tally
<1>. QED
  BY <1>1 DEF Tally, Increment

LEMMA TallyLeaves ==
  ASSUME NEW count, NEW S, NEW T, NEW k \in Kinds, NEW j, Tally(count, S),
         j \in S[k], T[k] = S[k] \ {j}, \A x \in Kinds \ {k} : T[x] = S[x]
  PROVE  Tally(Decrement(count, k), T)
<1>1. IsFiniteSet(T[k]) /\ Cardinality(T[k]) = Cardinality(S[k]) - 1
  BY FS_RemoveElement DEF Tally
<1>2. Cardinality(T[k]) \in Nat /\ count[k] = Cardinality(S[k]) /\ count[k] \in Nat
  BY ZenonT(40), <1>1, FS_CardinalityType DEF Tally
<1>3. Decrement(count, k)[k] = Cardinality(T[k]) /\ Decrement(count, k) \in [Kinds -> Nat]
  BY <1>1, <1>2 DEF Tally, Decrement
<1>. QED
  BY Zenon, <1>1, <1>3 DEF Tally, Decrement

LEMMA WaitingApart ==
  /\ \A pc : pc \in Waiting \cup {"lost"} => pc \notin Open
  /\ "none" \notin Waiting \cup {"lost"} /\ "none" \notin Open
  /\ "counted" \in Waiting /\ "opening" \in Waiting /\ "starting" \in Waiting
  /\ "queued" \in Waiting
BY ZenonT(40) DEF Waiting, Open, UserCode

\* The counts follow one job.
LEMMA CountsFollow ==
  ASSUME Types, Counts, NEW j \in Jobs, Submits(j) \/ Waits(j) \/ Opens(j) \/ Works(j) \/ Ends(j)
  PROVE  Counts'
<1>0. job[j].kind \in Kinds
  BY ZenonT(40) DEF Types, JobType
<1>1. ASSUME (job'[j].pc \in Waiting \cup {"lost"}) <=> (job[j].pc \in Waiting \cup {"lost"}),
             job[j].pc \in Waiting \cup {"lost"} => job'[j].kind = job[j].kind,
             Others(j), queued' = queued
      PROVE  Tally(queued, Waiters)'
  <2>1. \A x \in Kinds : Waiters'[x] = Waiters[x]
    BY <1>1 DEF Waiters, QueuedOf, Others
  <2>. QED
    BY ZenonT(40), <1>1, <2>1, TallySame DEF Counts
<1>2. ASSUME (job'[j].pc \in Open) <=> (job[j].pc \in Open),
             job[j].pc \in Open => job'[j].kind = job[j].kind,
             Others(j), running' = running
      PROVE  Tally(running, Runners)'
  <2>1. \A x \in Kinds : Runners'[x] = Runners[x]
    BY <1>2 DEF Runners, RunningOf, Others
  <2>. QED
    BY ZenonT(40), <1>2, <2>1, TallySame DEF Counts
<1>3. ASSUME job[j].pc \in Waiting \cup {"lost"}, job'[j].pc \notin Waiting \cup {"lost"},
             Others(j), queued' = Decrement(queued, job[j].kind)
      PROVE  Tally(queued, Waiters)'
  <2>1. /\ j \in Waiters[job[j].kind]
        /\ Waiters'[job[j].kind] = Waiters[job[j].kind] \ {j}
        /\ \A x \in Kinds \ {job[j].kind} : Waiters'[x] = Waiters[x]
    BY <1>0, <1>3 DEF Waiters, QueuedOf, Others
  <2>. QED
    <3>1. Tally(Decrement(queued, job[j].kind), Waiters')
      BY <1>0, <2>1, TallyLeaves DEF Counts
    <3>. QED
      BY ZenonT(40), <1>3, <3>1
<1>4. CASE Submits(j)
  <2>1. Tally(running, Runners)'
    BY ZenonT(40), <1>2, <1>4, WaitingApart DEF Submits
  <2>2. /\ job'[j].kind \in Kinds /\ j \notin Waiters[job'[j].kind]
        /\ Waiters'[job'[j].kind] = Waiters[job'[j].kind] \cup {j}
        /\ \A x \in Kinds \ {job'[j].kind} : Waiters'[x] = Waiters[x]
    <3>1. /\ job[j].pc \notin Waiting \cup {"lost"} /\ job'[j].pc \in Waiting
          /\ job'[j].kind \in Kinds /\ Others(j)
      BY ZenonT(40), <1>4, WaitingApart DEF Submits
    <3>2. \A x \in Kinds : x # job'[j].kind => Waiters'[x] = Waiters[x]
      BY <3>1 DEF Waiters, QueuedOf, Others
    <3>3. Waiters'[job'[j].kind] = Waiters[job'[j].kind] \cup {j}
      BY <3>1 DEF Waiters, QueuedOf, Others
    <3>. QED
      BY ZenonT(40), <3>1, <3>2, <3>3 DEF Waiters, QueuedOf
  <2>3. Tally(queued, Waiters)'
    <3>1. Tally(Increment(queued, job'[j].kind), Waiters')
      BY <2>2, TallyJoins DEF Counts
    <3>. QED
      BY ZenonT(40), <1>4, <3>1 DEF Submits
  <2>. QED
    BY ZenonT(40), <2>1, <2>3 DEF Counts
<1>5. CASE Waits(j)
  BY ZenonT(40), <1>1, <1>2, <1>5, WaitingApart DEF Waits, Same, Uncounted, Counts
<1>6. CASE Works(j)
  BY ZenonT(40), <1>1, <1>2, <1>6, WaitingApart DEF Works, Same, Uncounted, Counts
<1>7. CASE Opens(j)
  <2>1. job'[j].pc \in Open /\ job[j].pc \in Waiting
    BY ZenonT(40), <1>7, Pcs, WaitingApart DEF Opens
  <2>2. Tally(queued, Waiters)'
    BY ZenonT(40), <1>3, <1>7, <2>1, WaitingApart DEF Opens
  <2>3. /\ j \notin Runners[job[j].kind]
        /\ Runners'[job[j].kind] = Runners[job[j].kind] \cup {j}
        /\ \A x \in Kinds \ {job[j].kind} : Runners'[x] = Runners[x]
    <3>1. job[j].pc \notin Open /\ job'[j].kind = job[j].kind /\ Others(j)
      BY ZenonT(40), <1>7, <2>1, WaitingApart DEF Opens, Same
    <3>2. \A x \in Kinds : x # job[j].kind => Runners'[x] = Runners[x]
      BY <3>1 DEF Runners, RunningOf, Others
    <3>3. Runners'[job[j].kind] = Runners[job[j].kind] \cup {j}
      BY <1>0, <2>1, <3>1 DEF Runners, RunningOf, Others
    <3>. QED
      BY ZenonT(40), <1>0, <3>1, <3>2, <3>3 DEF Runners, RunningOf
  <2>4. Tally(running, Runners)'
    <3>1. Tally(Increment(running, job[j].kind), Runners')
      BY <1>0, <2>3, TallyJoins DEF Counts
    <3>. QED
      BY ZenonT(40), <1>7, <3>1 DEF Opens
  <2>. QED
    BY ZenonT(40), <2>2, <2>4 DEF Counts
<1>8. CASE Ends(j) /\ job[j].pc # "closing"
  <2>1. Tally(queued, Waiters)'
    BY ZenonT(40), <1>3, <1>8, WaitingApart DEF Ends
  <2>2. Tally(running, Runners)'
    BY ZenonT(40), <1>2, <1>8, WaitingApart DEF Ends
  <2>. QED
    BY ZenonT(40), <2>1, <2>2 DEF Counts
<1>9. CASE Ends(j) /\ job[j].pc = "closing"
  <2>1. Tally(queued, Waiters)'
    BY ZenonT(40), <1>1, <1>9, Pcs, WaitingApart DEF Ends
  <2>2. /\ j \in Runners[job[j].kind]
        /\ Runners'[job[j].kind] = Runners[job[j].kind] \ {j}
        /\ \A x \in Kinds \ {job[j].kind} : Runners'[x] = Runners[x]
    <3>1. job[j].pc \in Open /\ job'[j].pc \notin Open /\ Others(j)
      BY ZenonT(40), <1>9, Pcs, WaitingApart DEF Ends
    <3>2. \A x \in Kinds : x # job[j].kind => Runners'[x] = Runners[x]
      BY <3>1 DEF Runners, RunningOf, Others
    <3>3. Runners'[job[j].kind] = Runners[job[j].kind] \ {j}
      BY <1>0, <3>1 DEF Runners, RunningOf, Others
    <3>. QED
      BY ZenonT(40), <1>0, <3>1, <3>2, <3>3 DEF Runners, RunningOf
  <2>3. Tally(running, Runners)'
    <3>1. Tally(Decrement(running, job[j].kind), Runners')
      BY ZenonT(40), <1>0, <2>2, TallyLeaves DEF Counts
    <3>. QED
      BY ZenonT(40), <1>9, <3>1 DEF Ends
  <2>. QED
    BY <2>1, <2>3 DEF Counts
<1>. QED
  BY ZenonT(40), <1>4, <1>5, <1>6, <1>7, <1>8, <1>9

LEMMA CountsStep ==
  ASSUME Types, OneAtATime, Counts, Effect
  PROVE  Counts'
<1>1. CASE Stays
  BY <1>1 DEF Stays, Uncounted, Counts, Tally, Waiters, Runners, QueuedOf, RunningOf
<1>2. CASE Loses
  <2>1. \A x \in Kinds : Waiters'[x] = Waiters[x] /\ Runners'[x] = Runners[x]
    BY <1>2, WaitingApart DEF Loses, Same, Waiters, Runners, QueuedOf, RunningOf
  <2>. QED
    BY <1>2, <2>1, TallySame DEF Loses, Uncounted, Counts
<1>3. CASE Dies
  <2>1. \A x \in Kinds : Waiters'[x] = Waiters[x] /\ Runners'[x] = {}
    BY <1>3, WaitingApart DEF Dies, Same, Waiters, Runners, QueuedOf, RunningOf
  <2>2. Tally(queued, Waiters)'
    BY <1>3, <2>1, TallySame DEF Dies, Counts
  <2>3. ASSUME NEW k \in Kinds
        PROVE  running'[k] = 0
    <3>1. CASE \E j \in Jobs : job[j].pc \in Open /\ job[j].kind = k
      <4>1. PICK j \in Jobs : job[j].pc \in Open /\ job[j].kind = k
        BY ZenonT(40), <3>1
      <4>2. Runners[k] = {j}
        BY ZenonT(40), <4>1, Pcs DEF Runners, RunningOf, OneAtATime
      <4>3. running[k] = 1 /\ running \in [Kinds -> Nat]
        BY ZenonT(40), <4>2, FS_Singleton DEF Counts, Tally
      <4>4. running'[k] = Decrement(running, k)[k]
        BY ZenonT(40), <1>3, <3>1 DEF Dies
      <4>. QED
        BY <4>3, <4>4 DEF Decrement
    <3>2. CASE ~\E j \in Jobs : job[j].pc \in Open /\ job[j].kind = k
      <4>1. Runners[k] = {}
        BY ZenonT(40), <3>2 DEF Runners, RunningOf
      <4>. QED
        BY ZenonT(40), <1>3, <3>2, <4>1, FS_EmptySet DEF Dies, Counts, Tally
    <3>. QED
      BY ZenonT(40), <3>1, <3>2
  <2>4. running' = [k \in Kinds |-> 0]
    BY ZenonT(40), <1>3, <2>3 DEF Dies
  <2>5. Tally(running, Runners)'
    BY ZenonT(40), <2>1, <2>4, FS_EmptySet DEF Tally
  <2>. QED
    BY ZenonT(40), <2>2, <2>5 DEF Counts
<1>4. CASE Renews
  <2>1. \A x \in Kinds : Waiters'[x] = {} /\ Runners'[x] = {}
    BY <1>4, WaitingApart DEF Renews, NoJob, Waiters, Runners, QueuedOf, RunningOf
  <2>. QED
    BY ZenonT(40), <1>4, <2>1, FS_EmptySet DEF Renews, Counts, Tally
<1>. QED
  BY ZenonT(40), <1>1, <1>2, <1>3, <1>4, CountsFollow DEF Effect

-------------------------------------------------------------------------------

LEMMA CountsInit == Init => Counts
<1> SUFFICES ASSUME Init
             PROVE  Counts
  BY ZenonT(40)
<1>1. /\ \A j \in Jobs : job[j].pc = "none"
      /\ queued = [k \in Kinds |-> 0] /\ running = [k \in Kinds |-> 0]
  BY ZenonT(40) DEF Init, RuntimeInit, NoJob
<1>2. \A x \in Kinds : Waiters[x] = {} /\ Runners[x] = {}
  BY ZenonT(40), <1>1, WaitingApart DEF Waiters, Runners, QueuedOf, RunningOf
<1>. QED
  BY ZenonT(40), <1>1, <1>2, FS_EmptySet DEF Counts, Tally

LEMMA CountsKept == IInv /\ Counts /\ [Next]_vars => Counts'
<1> SUFFICES ASSUME IInv, Counts, [Next]_vars
             PROVE  Counts'
  BY ZenonT(40)
<1>1. Effect /\ Types /\ OneAtATime
  BY ZenonT(40), Effects DEF IInv, JobInv, Serial
<1>. QED
  BY ZenonT(40), <1>1, CountsStep

LEMMA TalliesHold == Spec => []Counts
BY Invariant, CountsInit, CountsKept, PTL DEF Spec

\* JobQueueCounts is the number of jobs submitted and the number of jobs with a
\* context, by kind, through refusals, failed starts, aborts and restarts.
THEOREM CountsHold == Spec => []CountsAddUp
<1>1. Counts => CountsAddUp
  BY ZenonT(40) DEF Counts, Tally, Waiters, Runners, QueuedOf, RunningOf, CountsAddUp
<1>. QED
  BY <1>1, TalliesHold, PTL
=============================================================================
