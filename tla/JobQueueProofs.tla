--------------------------- MODULE JobQueueProofs ---------------------------
(***************************************************************************)
(* The job queue of JobQueue, for any number of jobs, workers, attempts    *)
(* and faults, and the recompute of GroupSummary that runs on it: its      *)
(* handler implements the handler steps of the queue, so what is proved of *)
(* the queue holds of the worker that computes the summaries; and as long  *)
(* as the queue keeps its order, the summaries do not go back.             *)
(***************************************************************************)
EXTENDS GroupSummary, SequenceTheorems, TLAPS

----------------------------------------------------------------------------
(* Sequences of job ids *)

LEMMA WithoutProperties ==
  ASSUME NEW s \in Seq(Jobs), NEW j \in Jobs
  PROVE  /\ Without(s, j) \in Seq(Jobs)
         /\ ToSet(Without(s, j)) \subseteq ToSet(s)
         /\ \A k \in ToSet(s) : k # j => k \in ToSet(Without(s, j))
<1>1. CASE j \notin ToSet(s)
  BY <1>1 DEF Without
<1>2. CASE j \in ToSet(s)
  <2> DEFINE i == CHOOSE i \in DOMAIN s : s[i] = j
  <2>1. i \in 1..Len(s) /\ s[i] = j
    BY <1>2 DEF ToSet
  <2> HIDE DEF i
  <2> DEFINE a == SubSeq(s, 1, i - 1)
             b == SubSeq(s, i + 1, Len(s))
             t == a \o b
  <2>2. Without(s, j) = t
    BY <1>2 DEF Without, RemoveAt, i
  <2>3. /\ t \in Seq(Jobs)
        /\ Len(t) = Len(s) - 1
        /\ \A k \in 1..(i - 1) : t[k] = s[k]
        /\ \A k \in i..(Len(s) - 1) : t[k] = s[k + 1]
    <3>1. /\ a \in Seq(Jobs)
          /\ Len(a) = i - 1
          /\ \A k \in 1..(i - 1) : a[k] = s[k]
      BY <2>1
    <3>2. /\ b \in Seq(Jobs)
          /\ Len(b) = Len(s) - i
          /\ \A k \in 1..(Len(s) - i) : b[k] = s[i + k]
      BY <2>1
    <3> HIDE DEF a, b
    <3>3. /\ a \o b \in Seq(Jobs)
          /\ Len(a \o b) = Len(a) + Len(b)
          /\ \A k \in 1..(Len(a) + Len(b)) :
               (a \o b)[k] = IF k <= Len(a) THEN a[k] ELSE b[k - Len(a)]
      BY <3>1, <3>2, ConcatProperties
    <3>4. ASSUME NEW k \in i..(Len(s) - 1)
          PROVE  t[k] = s[k + 1]
      <4>1. k - (i - 1) \in 1..(Len(s) - i)
        BY <2>1
      <4>2. b[k - (i - 1)] = s[i + (k - (i - 1))]
        BY <3>2, <4>1
      <4>3. QED BY <2>1, <3>1, <3>2, <3>3, <4>2
    <3>5. QED BY <2>1, <3>1, <3>2, <3>3, <3>4
  <2> HIDE DEF t
  <2>4. \A k \in 1..Len(t) : \E l \in 1..Len(s) : t[k] = s[l]
    <3> TAKE k \in 1..Len(t)
    <3>1. CASE k < i
      BY <2>1, <2>3, <3>1
    <3>2. CASE k >= i
      <4>1. k + 1 \in 1..Len(s) /\ t[k] = s[k + 1]
        BY <2>1, <2>3, <3>2
      <4>2. QED BY <4>1
    <3>3. QED BY <2>1, <3>1, <3>2
  <2>5. \A l \in 1..Len(s) : s[l] # j => \E k \in 1..Len(t) : t[k] = s[l]
    <3> SUFFICES ASSUME NEW l \in 1..Len(s), s[l] # j
                 PROVE  \E k \in 1..Len(t) : t[k] = s[l]
      OBVIOUS
    <3>1. CASE l < i
      BY <2>1, <2>3, <3>1
    <3>2. CASE l > i
      <4>1. l - 1 \in 1..Len(t) /\ t[l - 1] = s[l]
        BY <2>1, <2>3, <3>2
      <4>2. QED BY <4>1
    <3>3. QED BY <2>1, <3>1, <3>2
  <2>6. DOMAIN t = 1..Len(t) /\ DOMAIN s = 1..Len(s)
    BY <2>3
  <2>7. ToSet(t) \subseteq ToSet(s)
    BY <2>4, <2>6 DEF ToSet
  <2>8. \A k \in ToSet(s) : k # j => k \in ToSet(t)
    BY <2>5, <2>6 DEF ToSet
  <2>9. QED BY <2>2, <2>3, <2>7, <2>8
<1>3. QED BY <1>1, <1>2

LEMMA ConcatToSet ==
  ASSUME NEW x \in Seq(Jobs), NEW y \in Seq(Jobs)
  PROVE  /\ x \o y \in Seq(Jobs)
         /\ ToSet(x \o y) = ToSet(x) \cup ToSet(y)
<1> DEFINE t == x \o y
<1>1. /\ t \in Seq(Jobs)
      /\ Len(t) = Len(x) + Len(y)
      /\ \A k \in 1..(Len(x) + Len(y)) :
           t[k] = IF k <= Len(x) THEN x[k] ELSE y[k - Len(x)]
  BY ConcatProperties
<1> HIDE DEF t
<1>2. /\ DOMAIN t = 1..(Len(x) + Len(y))
      /\ DOMAIN x = 1..Len(x) /\ Len(x) \in Nat
      /\ DOMAIN y = 1..Len(y) /\ Len(y) \in Nat
  BY <1>1
<1>3. ASSUME NEW k \in DOMAIN t
      PROVE  t[k] \in ToSet(x) \cup ToSet(y)
  <2>1. CASE k <= Len(x)
    BY <1>1, <1>2, <2>1 DEF ToSet
  <2>2. CASE k > Len(x)
    <3>1. k - Len(x) \in DOMAIN y /\ t[k] = y[k - Len(x)]
      BY <1>1, <1>2, <2>2
    <3>2. QED BY <3>1 DEF ToSet
  <2>3. QED BY <1>2, <2>1, <2>2
<1>4. ASSUME NEW k \in DOMAIN x
      PROVE  x[k] \in ToSet(t)
  <2>1. k \in DOMAIN t /\ t[k] = x[k]
    BY <1>1, <1>2
  <2>2. QED BY <2>1 DEF ToSet
<1>5. ASSUME NEW k \in DOMAIN y
      PROVE  y[k] \in ToSet(t)
  <2>1. Len(x) + k \in DOMAIN t /\ t[Len(x) + k] = y[k]
    BY <1>1, <1>2
  <2>2. QED BY <2>1 DEF ToSet
<1>6. ToSet(t) \subseteq ToSet(x) \cup ToSet(y)
  BY <1>3 DEF ToSet
<1>7. ToSet(x) \subseteq ToSet(t)
  BY <1>4 DEF ToSet
<1>8. ToSet(y) \subseteq ToSet(t)
  BY <1>5 DEF ToSet
<1>9. QED BY <1>1, <1>6, <1>7, <1>8 DEF t

LEMMA OneToSet ==
  ASSUME NEW j \in Jobs
  PROVE  <<j>> \in Seq(Jobs) /\ ToSet(<<j>>) = {j}
<1>1. <<j>> \in Seq(Jobs) /\ DOMAIN <<j>> = {1} /\ <<j>>[1] = j
  OBVIOUS
<1>2. QED BY <1>1 DEF ToSet

LEMMA InsertAtProperties ==
  ASSUME NEW s \in Seq(Jobs), NEW j \in Jobs, NEW p \in 1..(Len(s) + 1)
  PROVE  /\ InsertAt(s, p, j) \in Seq(Jobs)
         /\ ToSet(InsertAt(s, p, j)) = ToSet(s) \cup {j}
<1> DEFINE a == SubSeq(s, 1, p - 1)
           b == SubSeq(s, p, Len(s))
<1>1. /\ a \in Seq(Jobs)
      /\ Len(a) = p - 1
      /\ \A k \in 1..(p - 1) : a[k] = s[k]
  OBVIOUS
<1>2. /\ b \in Seq(Jobs)
      /\ Len(b) = Len(s) + 1 - p
      /\ \A k \in 1..(Len(s) + 1 - p) : b[k] = s[p + k - 1]
  OBVIOUS
<1>3. InsertAt(s, p, j) = (a \o <<j>>) \o b
  BY DEF InsertAt
<1> HIDE DEF a, b
<1>4. /\ DOMAIN a = 1..(p - 1)
      /\ DOMAIN b = 1..(Len(s) + 1 - p)
      /\ DOMAIN s = 1..Len(s) /\ Len(s) \in Nat
  BY <1>1, <1>2
<1>5. ToSet(a) \subseteq ToSet(s)
  BY <1>1, <1>4 DEF ToSet
<1>6. ToSet(b) \subseteq ToSet(s)
  <2>1. \A k \in DOMAIN b : p + k - 1 \in DOMAIN s
    BY <1>4
  <2>2. QED BY <1>2, <1>4, <2>1 DEF ToSet
<1>7. ASSUME NEW l \in DOMAIN s
      PROVE  s[l] \in ToSet(a) \cup ToSet(b)
  <2>1. CASE l < p
    BY <1>1, <1>4, <2>1 DEF ToSet
  <2>2. CASE l >= p
    <3>1. /\ l \in Nat /\ p \in Nat /\ Len(s) \in Nat /\ l <= Len(s)
      BY <1>4
    <3>2. l + 1 - p \in 1..(Len(s) + 1 - p) /\ p + (l + 1 - p) - 1 = l
      BY <3>1, <2>2
    <3>3. l + 1 - p \in DOMAIN b /\ b[l + 1 - p] = s[p + (l + 1 - p) - 1]
      BY <3>2, <1>2, <1>4
    <3>4. QED BY <3>2, <3>3 DEF ToSet
  <2>3. QED BY <1>4, <2>1, <2>2
<1>8. ToSet(a) \cup ToSet(b) = ToSet(s)
  BY <1>5, <1>6, <1>7 DEF ToSet
<1>9. a \o <<j>> \in Seq(Jobs) /\ ToSet(a \o <<j>>) = ToSet(a) \cup {j}
  <2>1. <<j>> \in Seq(Jobs) /\ ToSet(<<j>>) = {j}
    BY OneToSet
  <2> DEFINE one == <<j>>
  <2> HIDE DEF one
  <2>2. a \o one \in Seq(Jobs) /\ ToSet(a \o one) = ToSet(a) \cup ToSet(one)
    <3>1. one \in Seq(Jobs)
      BY <2>1 DEF one
    <3>2. QED BY <1>1, <3>1, ConcatToSet
  <2>3. QED BY <2>1, <2>2 DEF one
<1>10. /\ (a \o <<j>>) \o b \in Seq(Jobs)
       /\ ToSet((a \o <<j>>) \o b) = (ToSet(a) \cup {j}) \cup ToSet(b)
  BY <1>2, <1>9, ConcatToSet
<1>11. QED BY <1>3, <1>8, <1>10

LEMMA AppendToSet ==
  ASSUME NEW s \in Seq(Jobs), NEW j \in Jobs
  PROVE  /\ Append(s, j) \in Seq(Jobs)
         /\ ToSet(Append(s, j)) = ToSet(s) \cup {j}
<1>1. Append(s, j) = s \o <<j>>
  BY AppendIsConcat
<1>2. QED BY <1>1, ConcatToSet, OneToSet

LEMMA HeadInSet ==
  ASSUME NEW s \in Seq(Jobs), s # <<>>
  PROVE  Head(s) \in ToSet(s) /\ Head(s) \in Jobs
BY DEF ToSet

----------------------------------------------------------------------------
(* Types, and what is known of the job of a worker *)

\* A command of a worker changes nothing but its own job, and takes it out
\* of the queue only in ZREM.
LEMMA CommandEffect ==
  ASSUME TypeOK, NEW w \in Workers, job[w] \in Jobs, Command(w)
  PROVE  /\ ready' \in Seq(Jobs) /\ delayed' \subseteq Jobs
         /\ data' \in [Jobs -> Nat \cup {None}]
         /\ lease' \in [Jobs -> Workers \cup {None}]
         /\ Queued' \subseteq Queued \cup {job[w]}
         /\ Queued \subseteq Queued' \cup {job[w]}
         /\ pc[w] \notin {"complete", "discard", "drop"} => Queued \subseteq Queued'
         /\ \A j \in Jobs : j # job[w] => data'[j] = data[j] /\ lease'[j] = lease[j]
         /\ \/ data'[job[w]] = data[job[w]]
            \/ pc[w] \in {"completeDel", "discardDel"} /\ data'[job[w]] = None
            \/ pc[w] = "retrySet" /\ data'[job[w]] = seen[w] + 1
<1> DEFINE j == job[w]
<1>0. /\ ready \in Seq(Jobs) /\ delayed \subseteq Jobs
      /\ data \in [Jobs -> Nat \cup {None}]
      /\ lease \in [Jobs -> Workers \cup {None}]
      /\ seen[w] + 1 \in Nat
  BY DEF TypeOK
<1>1. CASE pc[w] = "lease" /\ TakeLease(j, w)
  <2>1. Queued' = Queued
    BY <1>1 DEF TakeLease, Queued
  <2>2. data' = data /\ lease' = [lease EXCEPT ![j] = w]
    BY <1>1 DEF TakeLease
  <2>3. QED BY <1>0, <1>1, <2>1, <2>2 DEF TakeLease
<1>2. CASE pc[w] \in {"complete", "discard", "drop"} /\ Unschedule(j)
  <2>1. /\ Without(ready, j) \in Seq(Jobs)
        /\ ToSet(Without(ready, j)) \subseteq ToSet(ready)
        /\ \A k \in ToSet(ready) : k # j => k \in ToSet(Without(ready, j))
    BY <1>0, WithoutProperties
  <2>2. /\ ready' = Without(ready, j) /\ delayed' = delayed \ {j}
        /\ UNCHANGED <<data, lease>>
    BY <1>2 DEF Unschedule
  <2>3. QED BY <1>0, <1>2, <2>1, <2>2 DEF Queued
<1>3. CASE pc[w] \in {"completeDel", "discardDel"} /\ Delete(j)
  <2>1. Queued' = Queued
    BY <1>3 DEF Delete, Queued
  <2>2. /\ data' = [data EXCEPT ![j] = None]
        /\ lease' = [lease EXCEPT ![j] = None]
        /\ UNCHANGED <<ready, delayed>>
    BY <1>3 DEF Delete
  <2>3. QED BY <1>0, <1>3, <2>1, <2>2
<1>4. CASE pc[w] = "retrySet" /\ Rewrite(j, seen[w] + 1)
  <2>1. Queued' = Queued
    BY <1>4 DEF Rewrite, Queued
  <2>2. /\ data' = [data EXCEPT ![j] = seen[w] + 1]
        /\ UNCHANGED <<ready, delayed, lease>>
    BY <1>4 DEF Rewrite
  <2>3. QED BY <1>0, <1>4, <2>1, <2>2
<1>5. CASE pc[w] = "retryAdd" /\ Delay(j)
  <2>1. /\ Without(ready, j) \in Seq(Jobs)
        /\ ToSet(Without(ready, j)) \subseteq ToSet(ready)
        /\ \A k \in ToSet(ready) : k # j => k \in ToSet(Without(ready, j))
    BY <1>0, WithoutProperties
  <2>2. /\ ready' = Without(ready, j) /\ delayed' = delayed \cup {j}
        /\ UNCHANGED <<data, lease>>
    BY <1>5 DEF Delay
  <2>3. QED BY <1>0, <2>1, <2>2 DEF Queued
<1>6. CASE pc[w] = "retryFree" /\ Free(j)
  <2>1. Queued' = Queued
    BY <1>6 DEF Free, Queued
  <2>2. /\ lease' = [lease EXCEPT ![j] = None]
        /\ UNCHANGED <<ready, delayed, data>>
    BY <1>6 DEF Free
  <2>3. QED BY <1>0, <2>1, <2>2
<1>7. QED BY <1>1, <1>2, <1>3, <1>4, <1>5, <1>6 DEF Command

LEMMA PlaceEffect ==
  ASSUME TypeOK, NEW j \in Jobs, Place(j)
  PROVE  /\ ready' \in Seq(Jobs)
         /\ ToSet(ready') = ToSet(ready) \cup {j}
         /\ inTurn' \in BOOLEAN
BY InsertAtProperties DEF TypeOK, Place

Known == TypeOK /\ JobKnown

\* A step of a worker that keeps to its own job, or polls for one.
LEMMA WorkerKnown ==
  ASSUME Known, NEW w \in Workers,
         NEW stage \in Stages, Goto(w, stage),
         pc[w] \notin {"idle", "stopped"},
         faults' \in 0..MaxFaults, inTurn' \in BOOLEAN,
         UNCHANGED store \/ Command(w),
         UNCHANGED marks \/ \E m \in Marks : Mark(job[w], m),
         UNCHANGED failures \/ failures' = [failures EXCEPT ![job[w]] = @ + 1],
         UNCHANGED request
  PROVE  Known'
<1>1. job[w] \in Jobs /\ request[job[w]] # "new"
  <2>1. job[w] \in Jobs \cup {None} /\ job[w] # None
    BY DEF Known, TypeOK, JobKnown
  <2>2. request[job[w]] \in {"accepted", "failed"}
    BY <2>1 DEF Known, JobKnown
  <2>3. QED BY <2>1, <2>2
<1>2. /\ ready' \in Seq(Jobs) /\ delayed' \subseteq Jobs
      /\ data' \in [Jobs -> Nat \cup {None}]
      /\ lease' \in [Jobs -> Workers \cup {None}]
      /\ Queued' \subseteq Queued \cup {job[w]}
      /\ \A j \in Jobs : j # job[w] => data'[j] = data[j]
  BY <1>1, CommandEffect DEF Known, TypeOK, store, Queued
<1>3. /\ pc' \in [Workers -> Stages]
      /\ job' \in [Workers -> Jobs \cup {None}]
      /\ seen' \in [Workers -> Nat]
  <2>1. /\ pc \in [Workers -> Stages]
        /\ job \in [Workers -> Jobs \cup {None}]
        /\ seen \in [Workers -> Nat]
    BY DEF Known, TypeOK
  <2>2. CASE stage \in {"idle", "stopped"}
    BY <2>1, <2>2 DEF Goto
  <2>3. CASE stage \notin {"idle", "stopped"}
    BY <2>1, <2>3 DEF Goto
  <2>4. QED BY <2>2, <2>3
<1>4. /\ marks' \in [Jobs -> SUBSET Marks]
      /\ \A j \in Jobs : j # job[w] => marks'[j] = marks[j]
  <2>1. marks \in [Jobs -> SUBSET Marks]
    BY DEF Known, TypeOK
  <2>2. QED BY <1>1, <2>1 DEF Mark
<1>5. failures' \in [Jobs -> Nat]
  <2>1. failures \in [Jobs -> Nat]
    BY DEF Known, TypeOK
  <2>2. QED BY <1>1, <2>1
<1>6. TypeOK'
  BY <1>2, <1>3, <1>4, <1>5 DEF Known, TypeOK
<1>7. JobKnown'
  <2>1. \A v \in Workers : (job'[v] = None) <=> (pc'[v] \in {"idle", "stopped"})
    BY <1>1, QueueAssumption DEF Known, TypeOK, JobKnown, Goto
  <2>2. \A v \in Workers : job'[v] # None => request'[job'[v]] \in {"accepted", "failed"}
    BY <1>1 DEF Known, TypeOK, JobKnown, Goto
  <2>3. \A j \in Queued' : request'[j] \in {"accepted", "failed"}
    BY <1>1, <1>2 DEF Known, JobKnown
  <2>4. \A j \in Jobs : request'[j] = "new" => marks'[j] = {} /\ data'[j] = None
    BY <1>1, <1>2, <1>4 DEF Known, JobKnown
  <2>5. QED BY <2>1, <2>2, <2>3, <2>4 DEF JobKnown
<1>8. QED BY <1>6, <1>7 DEF Known

\* A worker takes up a job, or reads its envelope.
LEMMA PollKnown ==
  ASSUME Known, NEW w \in Workers, Poll(w)
  PROVE  Known'
<1>1. Head(ready) \in ToSet(ready) /\ Head(ready) \in Jobs
  BY HeadInSet DEF Known, TypeOK, Poll
<1>2. request[Head(ready)] \in {"accepted", "failed"}
  BY <1>1 DEF Known, JobKnown, Queued
<1>3. TypeOK'
  BY <1>1 DEF Known, TypeOK, Poll, store, ghosts, Stages
<1>4. JobKnown'
  BY <1>1, <1>2, QueueAssumption
     DEF Known, TypeOK, JobKnown, Poll, store, ghosts, Queued
<1>5. QED BY <1>3, <1>4 DEF Known

LEMMA ReadKnown ==
  ASSUME Known, NEW w \in Workers, ReadEnvelope(w), data[job[w]] # None
  PROVE  Known'
<1>0. /\ job \in [Workers -> Jobs \cup {None}] /\ pc[w] = "read"
      /\ data \in [Jobs -> Nat \cup {None}]
  BY DEF Known, TypeOK, ReadEnvelope
<1>1. job[w] \in Jobs /\ data[job[w]] \in Nat
  BY <1>0 DEF Known, JobKnown
<1>2. TypeOK'
  BY <1>1 DEF Known, TypeOK, ReadEnvelope, store, ghosts, Stages, Holding
<1>3. JobKnown'
  <2>1. /\ pc' = [pc EXCEPT ![w] = "work"]
        /\ UNCHANGED <<ready, delayed, data, request, marks, job>>
    BY DEF ReadEnvelope, store, ghosts
  <2>2. JobKnown /\ pc \in [Workers -> Stages]
    BY DEF Known, TypeOK
  <2>3. job[w] # None
    BY <1>0, <2>2 DEF JobKnown
  <2>4. \A v \in Workers : (job'[v] = None) <=> (pc'[v] \in {"idle", "stopped"})
    BY <2>1, <2>2, <2>3 DEF JobKnown
  <2>5. QED BY <2>1, <2>2, <2>4 DEF JobKnown, Queued
<1>4. QED BY <1>2, <1>3 DEF Known

LEMMA FailedEffect ==
  ASSUME NEW w \in Workers, Failed(w)
  PROVE  /\ failures' = [failures EXCEPT ![job[w]] = @ + 1]
         /\ \E stage \in {"discard", "retry"} : Goto(w, stage)
         /\ UNCHANGED marks \/ Mark(job[w], "exhausted")
BY DEF Failed

LEMMA ProceedKnown ==
  ASSUME Known, NEW w \in Workers,
         Busy(w) \/ Succeed(w) \/ ReadEnvelope(w) \/ Reload(w)
  PROVE  Known'
<1> USE DEF Stages, Holding
<1>0. faults \in 0..MaxFaults /\ inTurn \in BOOLEAN
  BY DEF Known, TypeOK
<1>1. CASE Busy(w)
  <2>1. "idle" \in Stages
    OBVIOUS
  <2>2. QED BY <1>0, <1>1, <2>1, WorkerKnown DEF Busy, ghosts
<1>2. CASE Succeed(w)
  <2>1. pc[w] \in DOMAIN NextStage /\ NextStage[pc[w]] \in Stages
    BY <1>2 DEF Succeed, Command, NextStage
  <2>2. pc[w] \notin {"idle", "stopped"}
    BY <1>2 DEF Succeed, Command
  <2>3. Goto(w, NextStage[pc[w]])
    BY <1>2 DEF Succeed
  <2>4. UNCHANGED marks \/ Mark(job[w], "completed")
    BY <1>2 DEF Succeed
  <2>5. /\ Command(w) /\ inTurn' \in BOOLEAN
        /\ UNCHANGED <<request, faults, failures>>
    BY <1>2 DEF Succeed
  <2> HIDE DEF Stages
  <2>6. QED BY <1>0, <2>1, <2>2, <2>3, <2>4, <2>5, WorkerKnown DEF Marks
<1>3. CASE ReadEnvelope(w)
  <2>1. CASE data[job[w]] = None
    <3>1. Goto(w, "discard") /\ "discard" \in Stages
      BY <1>3, <2>1 DEF ReadEnvelope
    <3>2. QED BY <1>0, <1>3, <3>1, WorkerKnown DEF ReadEnvelope, ghosts
  <2>2. QED BY <1>3, <2>1, ReadKnown
<1>4. CASE Reload(w)
  <2>1. \E stage \in {"drop", "retrySet"} : Goto(w, stage)
    BY <1>4 DEF Reload
  <2>2. QED BY <1>0, <1>4, <2>1, WorkerKnown DEF Reload, ghosts
<1>5. QED BY <1>1, <1>2, <1>3, <1>4

LEMMA HandleKnown ==
  ASSUME Known, NEW w \in Workers, Handle(w)
  PROVE  Known'
<1> USE DEF Stages, Holding, Marks
<1>0. faults \in 0..MaxFaults /\ inTurn \in BOOLEAN
  BY DEF Known, TypeOK
<1>1. CASE Performed(w)
  <2>1. "complete" \in Stages /\ "performed" \in Marks
    OBVIOUS
  <2>2. QED BY <1>0, <1>1, <2>1, WorkerKnown DEF Performed
<1>2. CASE Impossible(w)
  <2>1. "discard" \in Stages /\ "permanent" \in Marks
    OBVIOUS
  <2>2. QED BY <1>0, <1>2, <2>1, WorkerKnown DEF Impossible
<1>3. CASE HandlerFails(w)
  <2>1. faults' \in 0..MaxFaults
    BY <1>0, <1>3, QueueAssumption DEF HandlerFails, Fault
  <2>2. PICK stage \in {"discard", "retry"} : Goto(w, stage)
    BY <1>3, FailedEffect DEF HandlerFails
  <2>3. /\ stage \in Stages /\ "exhausted" \in Marks
        /\ pc[w] \notin {"idle", "stopped"}
    BY <1>3 DEF HandlerFails
  <2>4. UNCHANGED marks \/ Mark(job[w], "exhausted")
    BY <1>3, FailedEffect DEF HandlerFails
  <2>5. /\ failures' = [failures EXCEPT ![job[w]] = @ + 1]
        /\ UNCHANGED <<store, request, inTurn>>
    BY <1>3, FailedEffect DEF HandlerFails
  <2> HIDE DEF Stages, Marks
  <2>6. QED BY <1>0, <2>1, <2>2, <2>3, <2>4, <2>5, WorkerKnown
<1>4. QED BY <1>1, <1>2, <1>3 DEF Handle

LEMMA FaultKnown ==
  ASSUME Known, NEW w \in Workers, RedisError(w) \/ Crash(w) \/ Stop(w)
  PROVE  Known'
<1> USE DEF Stages, Holding
<1>0. faults \in 0..MaxFaults /\ inTurn \in BOOLEAN
  BY DEF Known, TypeOK
<1>1. CASE RedisError(w)
  <2>1. faults' \in 0..MaxFaults
    BY <1>0, <1>1, QueueAssumption DEF RedisError, Fault
  <2>2. \/ Failed(w)
        \/ Goto(w, "idle") /\ UNCHANGED <<marks, failures>>
    BY <1>1 DEF RedisError
  <2>3. /\ UNCHANGED store \/ Command(w)
        /\ inTurn' \in BOOLEAN /\ UNCHANGED request
        /\ pc[w] \notin {"idle", "stopped"}
    BY <1>1 DEF RedisError
  <2>4. CASE Failed(w)
    <3>1. PICK stage \in {"discard", "retry"} : Goto(w, stage)
      BY <2>4, FailedEffect
    <3>2. stage \in Stages /\ "exhausted" \in Marks
      BY DEF Marks
    <3>3. /\ failures' = [failures EXCEPT ![job[w]] = @ + 1]
          /\ UNCHANGED marks \/ Mark(job[w], "exhausted")
      BY <2>4, FailedEffect
    <3> HIDE DEF Stages
    <3>4. QED BY <2>1, <2>3, <3>1, <3>2, <3>3, WorkerKnown
  <2>5. CASE Goto(w, "idle") /\ UNCHANGED <<marks, failures>>
    <3>1. "idle" \in Stages
      OBVIOUS
    <3> HIDE DEF Stages
    <3>2. QED BY <2>1, <2>3, <2>5, <3>1, WorkerKnown
  <2>6. QED BY <2>2, <2>4, <2>5
<1>2. CASE Crash(w)
  <2>1. faults' \in 0..MaxFaults /\ "idle" \in Stages
    BY <1>0, <1>2, QueueAssumption DEF Crash, Fault
  <2>2. QED BY <1>0, <1>2, <2>1, WorkerKnown DEF Crash, ghosts
<1>3. CASE Stop(w) /\ pc[w] # "idle"
  <2>1. "stopped" \in Stages
    OBVIOUS
  <2>2. QED BY <1>0, <1>3, <2>1, WorkerKnown DEF Stop, ghosts
<1>4. CASE Stop(w) /\ pc[w] = "idle"
  <2>1. TypeOK'
    <3>1. /\ pc' = [pc EXCEPT ![w] = "stopped"]
          /\ job' = [job EXCEPT ![w] = None]
          /\ seen' = [seen EXCEPT ![w] = 0]
          /\ UNCHANGED <<store, request, faults, ghosts>>
      BY <1>4 DEF Stop, Goto
    <3>2. QED BY <3>1 DEF Known, TypeOK, store, ghosts
  <2>2. JobKnown'
    <3>1. /\ pc' = [pc EXCEPT ![w] = "stopped"]
          /\ job' = [job EXCEPT ![w] = None]
          /\ UNCHANGED <<ready, delayed, data, request, marks>>
      BY <1>4 DEF Stop, Goto, store, ghosts
    <3>2. pc \in [Workers -> Stages] /\ job \in [Workers -> Jobs \cup {None}]
      BY DEF Known, TypeOK
    <3>3. \A v \in Workers :
            /\ v # w => pc'[v] = pc[v] /\ job'[v] = job[v]
            /\ v = w => pc'[v] = "stopped" /\ job'[v] = None
      BY <3>1, <3>2
    <3>4. JobKnown
      BY DEF Known
    <3>5. \A v \in Workers : (job'[v] = None) <=> (pc'[v] \in {"idle", "stopped"})
      BY <3>3, <3>4 DEF JobKnown
    <3>6. \A v \in Workers : job'[v] # None => request'[job'[v]] \in {"accepted", "failed"}
      BY <3>1, <3>3, <3>4 DEF JobKnown
    <3>7. \A j \in Queued' : request'[j] \in {"accepted", "failed"}
      BY <3>1, <3>4 DEF JobKnown, Queued
    <3>8. \A j \in Jobs : request'[j] = "new" => marks'[j] = {} /\ data'[j] = None
      BY <3>1, <3>4 DEF JobKnown
    <3>9. QED BY <3>5, <3>6, <3>7, <3>8 DEF JobKnown
  <2>3. QED BY <2>1, <2>2 DEF Known
<1>5. QED BY <1>1, <1>2, <1>3, <1>4

LEMMA EnqueueKnown ==
  ASSUME Known, NEW j \in Jobs, Enqueue(j)
  PROVE  Known'
<1>0. \A w \in Workers : job[w] = j => request[j] \in {"accepted", "failed"}
  BY QueueAssumption DEF Known, JobKnown
<1>1. CASE StorePayload(j)
  <2>1. TypeOK'
    BY <1>1 DEF Known, TypeOK, StorePayload, worker, ghosts
  <2>2. JobKnown'
    BY <1>0, <1>1 DEF Known, TypeOK, JobKnown, StorePayload, worker, ghosts, Queued
  <2>3. QED BY <2>1, <2>2 DEF Known
<1>2. CASE Schedule(j)
  <2>1. /\ ready' \in Seq(Jobs) /\ inTurn' \in BOOLEAN
        /\ ToSet(ready') = ToSet(ready) \cup {j}
    BY <1>2, PlaceEffect DEF Known, Schedule
  <2>2. TypeOK'
    BY <1>2, <2>1 DEF Known, TypeOK, Schedule, worker
  <2>3. JobKnown'
    BY <1>0, <1>2, <2>1 DEF Known, TypeOK, JobKnown, Schedule, worker, Queued
  <2>4. QED BY <2>2, <2>3 DEF Known
<1>3. CASE EnqueueError(j)
  <2>0. faults' \in 0..MaxFaults
    BY <1>3, QueueAssumption DEF EnqueueError, Fault, Known, TypeOK
  <2>1. /\ ready' \in Seq(Jobs) /\ inTurn' \in BOOLEAN
        /\ ToSet(ready') \subseteq ToSet(ready) \cup {j}
    BY <1>3, PlaceEffect DEF EnqueueError, Known, TypeOK
  <2>2. TypeOK'
    <3>1. /\ request' = [request EXCEPT ![j] = "failed"]
          /\ data' = data \/ data' = [data EXCEPT ![j] = 0]
          /\ UNCHANGED <<delayed, lease, worker, marks, failures>>
      BY <1>3 DEF EnqueueError
    <3>2. QED BY <2>0, <2>1, <3>1 DEF Known, TypeOK, worker
  <2>3. JobKnown'
    BY <1>0, <1>3, <2>1 DEF Known, TypeOK, JobKnown, EnqueueError, worker, Queued
  <2>4. QED BY <2>2, <2>3 DEF Known
<1>4. QED BY <1>1, <1>2, <1>3 DEF Enqueue

LEMMA TimeKnown ==
  ASSUME Known, NEW j \in Jobs, Time(j)
  PROVE  Known'
<1>1. CASE BecomeDue(j)
  <2>1. ready' \in Seq(Jobs) /\ ToSet(ready') = ToSet(ready) \cup {j}
    BY <1>1, AppendToSet DEF Known, TypeOK, BecomeDue
  <2>2. TypeOK'
    BY <1>1, <2>1 DEF Known, TypeOK, BecomeDue, worker, ghosts
  <2>3. JobKnown'
    BY <1>1, <2>1 DEF Known, TypeOK, JobKnown, BecomeDue, worker, ghosts, Queued
  <2>4. QED BY <2>2, <2>3 DEF Known
<1>2. CASE ExpireLease(j)
  BY <1>2 DEF Known, TypeOK, JobKnown, ExpireLease, worker, ghosts, Queued
<1>3. CASE LeaseLapses(j)
  <2>0. faults' \in 0..MaxFaults
    BY <1>3, QueueAssumption DEF LeaseLapses, Fault, Known, TypeOK
  <2>1. request[j] # "new"
    BY <1>3, QueueAssumption DEF LeaseLapses, Held, Known, JobKnown
  <2>2. TypeOK'
    BY <1>3, <2>0 DEF Known, TypeOK, LeaseLapses, worker, Mark, Marks
  <2>3. JobKnown'
    BY <1>3, <2>1 DEF Known, TypeOK, JobKnown, LeaseLapses, worker, Mark, Queued
  <2>4. QED BY <2>2, <2>3 DEF Known
<1>4. CASE ExpirePayload(j)
  <2>0. faults' \in 0..MaxFaults
    BY <1>4, QueueAssumption DEF ExpirePayload, Fault, Known, TypeOK
  <2>1. request[j] # "new"
    BY <1>4 DEF ExpirePayload, Known, JobKnown
  <2>2. TypeOK'
    BY <1>4, <2>0 DEF Known, TypeOK, ExpirePayload, worker, Mark, Marks
  <2>3. JobKnown'
    BY <1>4, <2>1 DEF Known, TypeOK, JobKnown, ExpirePayload, worker, Mark, Queued
  <2>4. QED BY <2>2, <2>3 DEF Known
<1>5. QED BY <1>1, <1>2, <1>3, <1>4 DEF Time

LEMMA KnownStep == Known /\ [Next]_vars => Known'
<1> SUFFICES ASSUME Known, [Next]_vars PROVE Known'
  OBVIOUS
<1>1. CASE UNCHANGED vars
  BY <1>1 DEF Known, TypeOK, JobKnown, Queued, vars, store, worker, ghosts
<1>2. CASE Next
  BY <1>2, PollKnown, ProceedKnown, HandleKnown, FaultKnown, EnqueueKnown,
     TimeKnown DEF Next, Proceed
<1>3. QED BY <1>1, <1>2

----------------------------------------------------------------------------
(* Leases *)

Leases == LeaseOrNothing /\ RunningHasLease /\ RunningAlone

\* Only w changes its pc and its job, and it forgets the job when it leaves.
OnlyWorker(w) ==
  /\ \A v \in Workers : v # w => pc'[v] = pc[v] /\ job'[v] = job[v]
  /\ pc'[w] \in Holding => job'[w] = job[w]
  /\ \A j \in Jobs : marks[j] \subseteq marks'[j]

LEMMA GotoIsLocal ==
  ASSUME Known, NEW w \in Workers, NEW stage \in Stages, Goto(w, stage),
         \A j \in Jobs : marks[j] \subseteq marks'[j]
  PROVE  OnlyWorker(w) /\ pc'[w] = stage
BY DEF Known, TypeOK, Goto, OnlyWorker, Holding

LEMMA HoldingHasJob ==
  ASSUME Known, NEW w \in Workers, pc[w] \notin {"idle", "stopped"}
  PROVE  job[w] \in Jobs
BY DEF Known, TypeOK, JobKnown

LEMMA LeaseMove ==
  ASSUME Known, Leases, NEW w \in Workers, OnlyWorker(w),
         UNCHANGED <<lease, data>>,
         pc'[w] \in Holding => pc[w] \in Holding,
         pc'[w] \in Running => pc[w] \in Running \/ data[job[w]] # None
  PROVE  Leases'
<1> USE DEF Holding, Running, At
<1>1. \A v \in Workers : pc[v] \in Holding => job[v] \in Jobs
  BY HoldingHasJob
<1>2. LeaseOrNothing'
  BY <1>1 DEF Leases, LeaseOrNothing, OnlyWorker
<1>3. RunningHasLease'
  BY <1>1 DEF Leases, LeaseOrNothing, RunningHasLease, OnlyWorker
<1>4. RunningAlone'
  <2> SUFFICES ASSUME NEW u \in Workers, NEW v \in Workers,
                      At(u, Running)', pc'[v] \in Holding, job'[u] = job'[v]
               PROVE  u = v
    BY DEF RunningAlone
  <2>1. /\ pc[u] \in Holding /\ pc[v] \in Holding
        /\ job[u] = job[v] /\ job[u] \in Jobs
        /\ "lapsed" \notin marks[job[u]]
    BY <1>1 DEF OnlyWorker
  <2>2. CASE pc[u] \in Running
    BY <2>1, <2>2 DEF Leases, RunningAlone
  <2>3. CASE pc[u] \notin Running
    <3>1. data[job[u]] # None
      BY <2>3 DEF OnlyWorker
    <3>2. lease[job[u]] = u /\ lease[job[v]] = v
      BY <2>1, <3>1 DEF Leases, LeaseOrNothing
    <3>3. QED BY <2>1, <3>2
  <2>4. QED BY <2>2, <2>3
<1>5. QED BY <1>2, <1>3, <1>4 DEF Leases

LEMMA LeaseTaken ==
  ASSUME Known, Leases, NEW w \in Workers, OnlyWorker(w),
         pc[w] = "lease", TakeLease(job[w], w), pc'[w] \in {"read", "idle"}
  PROVE  Leases'
<1> USE DEF Holding, Running, At
<1>1. \A v \in Workers : pc[v] \notin {"idle", "stopped"} => job[v] \in Jobs
  BY HoldingHasJob
<1>2. /\ lease[job[w]] = None /\ data' = data
      /\ lease' = [lease EXCEPT ![job[w]] = w]
      /\ lease \in [Jobs -> Workers \cup {None}]
  BY DEF TakeLease, Known, TypeOK
<1>3. LeaseOrNothing'
  BY <1>1, <1>2, QueueAssumption DEF Leases, LeaseOrNothing, OnlyWorker
<1>4. RunningHasLease'
  BY <1>1, <1>2, QueueAssumption DEF Leases, RunningHasLease, OnlyWorker
<1>5. RunningAlone'
  BY <1>1, <1>2, QueueAssumption
     DEF Leases, RunningHasLease, RunningAlone, OnlyWorker
<1>6. QED BY <1>3, <1>4, <1>5 DEF Leases

LEMMA LeaseDeleted ==
  ASSUME Known, Leases, NEW w \in Workers, OnlyWorker(w),
         pc[w] \in {"completeDel", "discardDel"}, Delete(job[w]),
         pc'[w] \in {"idle", "discard", "retry"}
  PROVE  Leases'
<1> USE DEF Holding, Running, At
<1>1. \A v \in Workers : pc[v] \notin {"idle", "stopped"} => job[v] \in Jobs
  BY HoldingHasJob
<1>2. /\ data' = [data EXCEPT ![job[w]] = None]
      /\ lease' = [lease EXCEPT ![job[w]] = None]
      /\ lease \in [Jobs -> Workers \cup {None}]
      /\ data \in [Jobs -> Nat \cup {None}]
  BY DEF Delete, Known, TypeOK
<1>3. LeaseOrNothing'
  BY <1>1, <1>2 DEF Leases, LeaseOrNothing, OnlyWorker
<1>4. RunningHasLease'
  BY <1>1, <1>2 DEF Leases, RunningHasLease, RunningAlone, OnlyWorker
<1>5. RunningAlone'
  BY <1>1, <1>2 DEF Leases, RunningAlone, OnlyWorker
<1>6. QED BY <1>3, <1>4, <1>5 DEF Leases

LEMMA LeaseRewritten ==
  ASSUME Known, Leases, NEW w \in Workers, OnlyWorker(w),
         pc[w] = "retrySet", Rewrite(job[w], seen[w] + 1),
         pc'[w] \in {"idle", "retryAdd"}
  PROVE  Leases'
<1> USE DEF Holding, Running, At
<1>1. \A v \in Workers : pc[v] \notin {"idle", "stopped"} => job[v] \in Jobs
  BY HoldingHasJob
<1>2. /\ data' = [data EXCEPT ![job[w]] = seen[w] + 1]
      /\ lease' = lease
      /\ data \in [Jobs -> Nat \cup {None}]
  BY DEF Rewrite, Known, TypeOK
<1>3. LeaseOrNothing'
  BY <1>1, <1>2
     DEF Leases, LeaseOrNothing, RunningHasLease, RunningAlone, OnlyWorker
<1>4. RunningHasLease'
  BY <1>1, <1>2 DEF Leases, RunningHasLease, OnlyWorker
<1>5. RunningAlone'
  BY <1>1, <1>2 DEF Leases, RunningAlone, OnlyWorker
<1>6. QED BY <1>3, <1>4, <1>5 DEF Leases

LEMMA LeaseFreed ==
  ASSUME Known, Leases, NEW w \in Workers, OnlyWorker(w),
         pc[w] = "retryFree", Free(job[w]), pc'[w] = "idle"
  PROVE  Leases'
<1> USE DEF Holding, Running, At
<1>1. \A v \in Workers : pc[v] \notin {"idle", "stopped"} => job[v] \in Jobs
  BY HoldingHasJob
<1>2. /\ data' = data
      /\ lease' = [lease EXCEPT ![job[w]] = None]
      /\ lease \in [Jobs -> Workers \cup {None}]
  BY DEF Free, Known, TypeOK
<1>3. LeaseOrNothing'
  BY <1>1, <1>2, QueueAssumption DEF Leases, LeaseOrNothing, OnlyWorker
<1>4. RunningHasLease'
  BY <1>1, <1>2 DEF Leases, RunningHasLease, RunningAlone, OnlyWorker
<1>5. RunningAlone'
  BY <1>1, <1>2 DEF Leases, RunningAlone, OnlyWorker
<1>6. QED BY <1>3, <1>4, <1>5 DEF Leases

LEMMA CommandLeases ==
  ASSUME Known, Leases, NEW w \in Workers, OnlyWorker(w), Command(w),
         \/ pc'[w] \in {NextStage[pc[w]], "idle"}
         \/ pc[w] \in {"complete", "completeDel"} /\ pc'[w] \in {"discard", "retry"}
  PROVE  Leases'
<1> USE DEF NextStage
<1>1. CASE pc[w] = "lease" /\ TakeLease(job[w], w)
  BY <1>1, LeaseTaken
<1>2. CASE pc[w] \in {"complete", "discard", "drop"} /\ Unschedule(job[w])
  BY <1>2, LeaseMove DEF Unschedule, Holding, Running
<1>3. CASE pc[w] \in {"completeDel", "discardDel"} /\ Delete(job[w])
  BY <1>3, LeaseDeleted
<1>4. CASE pc[w] = "retrySet" /\ Rewrite(job[w], seen[w] + 1)
  BY <1>4, LeaseRewritten
<1>5. CASE pc[w] = "retryAdd" /\ Delay(job[w])
  BY <1>5, LeaseMove DEF Delay, Holding, Running
<1>6. CASE pc[w] = "retryFree" /\ Free(job[w])
  BY <1>6, LeaseFreed
<1>7. QED BY <1>1, <1>2, <1>3, <1>4, <1>5, <1>6 DEF Command

LEMMA MarkGrows ==
  ASSUME Known, NEW j \in Jobs, NEW m, Mark(j, m)
  PROVE  \A k \in Jobs : marks[k] \subseteq marks'[k]
BY DEF Known, TypeOK, Mark

LEMMA ProceedLeases ==
  ASSUME Known, Leases, NEW w \in Workers, Proceed(w)
  PROVE  Leases'
<1> USE DEF Stages, Holding, Running
<1>1. CASE Poll(w)
  <2>1. OnlyWorker(w) /\ pc'[w] = "lease"
    BY <1>1 DEF Known, TypeOK, Poll, ghosts, OnlyWorker
  <2>2. QED BY <1>1, <2>1, LeaseMove DEF Poll, store
<1>2. CASE Busy(w)
  <2>1. OnlyWorker(w) /\ pc'[w] = "idle"
    BY <1>2, GotoIsLocal DEF Busy, ghosts
  <2>2. QED BY <1>2, <2>1, LeaseMove DEF Busy, store
<1>3. CASE Succeed(w)
  <2>1. /\ pc[w] \in DOMAIN NextStage /\ NextStage[pc[w]] \in Stages
        /\ pc[w] \notin {"idle", "stopped"}
    BY <1>3 DEF Succeed, Command, NextStage
  <2>2. \A k \in Jobs : marks[k] \subseteq marks'[k]
    BY <1>3, <2>1, MarkGrows, HoldingHasJob DEF Succeed
  <2>3. OnlyWorker(w) /\ pc'[w] = NextStage[pc[w]]
    BY <1>3, <2>1, <2>2, GotoIsLocal DEF Succeed
  <2>4. QED BY <1>3, <2>3, CommandLeases DEF Succeed
<1>4. CASE ReadEnvelope(w)
  <2>1. OnlyWorker(w) /\ pc'[w] \in {"discard", "work"}
    BY <1>4 DEF Known, TypeOK, ReadEnvelope, Goto, ghosts, OnlyWorker
  <2>2. pc'[w] = "work" => data[job[w]] # None
    BY <1>4 DEF Known, TypeOK, ReadEnvelope, Goto
  <2>3. QED BY <1>4, <2>1, <2>2, LeaseMove DEF ReadEnvelope, store
<1>5. CASE Reload(w)
  <2>1. OnlyWorker(w) /\ pc'[w] \in {"drop", "retrySet"}
    BY <1>5, GotoIsLocal DEF Reload, ghosts
  <2>2. pc'[w] = "retrySet" => data[job[w]] # None
    BY <1>5 DEF Known, TypeOK, Reload, Goto
  <2>3. QED BY <1>5, <2>1, <2>2, LeaseMove DEF Reload, store
<1>6. QED BY <1>1, <1>2, <1>3, <1>4, <1>5 DEF Proceed

LEMMA FailedIsLocal ==
  ASSUME Known, NEW w \in Workers, Failed(w), pc[w] \notin {"idle", "stopped"}
  PROVE  OnlyWorker(w) /\ pc'[w] \in {"discard", "retry"}
<1>1. \A k \in Jobs : marks[k] \subseteq marks'[k]
  BY FailedEffect, MarkGrows, HoldingHasJob
<1>2. PICK stage \in {"discard", "retry"} : Goto(w, stage)
  BY FailedEffect
<1>3. QED BY <1>1, <1>2, GotoIsLocal DEF Stages, Holding

LEMMA HandleLeases ==
  ASSUME Known, Leases, NEW w \in Workers, Handle(w)
  PROVE  Leases'
<1> USE DEF Stages, Holding, Running
<1>1. CASE Performed(w)
  <2>1. \A k \in Jobs : marks[k] \subseteq marks'[k]
    BY <1>1, MarkGrows, HoldingHasJob DEF Performed
  <2>2. OnlyWorker(w) /\ pc'[w] = "complete"
    BY <1>1, <2>1, GotoIsLocal DEF Performed
  <2>3. QED BY <1>1, <2>2, LeaseMove DEF Performed, store
<1>2. CASE Impossible(w)
  <2>1. \A k \in Jobs : marks[k] \subseteq marks'[k]
    BY <1>2, MarkGrows, HoldingHasJob DEF Impossible
  <2>2. OnlyWorker(w) /\ pc'[w] = "discard"
    BY <1>2, <2>1, GotoIsLocal DEF Impossible
  <2>3. QED BY <1>2, <2>2, LeaseMove DEF Impossible, store
<1>3. CASE HandlerFails(w)
  <2>1. OnlyWorker(w) /\ pc'[w] \in {"discard", "retry"}
    BY <1>3, FailedIsLocal DEF HandlerFails
  <2>2. QED BY <1>3, <2>1, LeaseMove DEF HandlerFails, store
<1>4. QED BY <1>1, <1>2, <1>3 DEF Handle

LEMMA FaultLeases ==
  ASSUME Known, Leases, NEW w \in Workers, RedisError(w) \/ Crash(w) \/ Stop(w)
  PROVE  Leases'
<1> USE DEF Stages, Holding, Running
<1>1. CASE RedisError(w)
  <2>1. pc[w] \notin {"idle", "stopped"}
    BY <1>1 DEF RedisError
  <2>2. OnlyWorker(w)
    <3>1. CASE Failed(w)
      BY <2>1, <3>1, FailedIsLocal
    <3>2. CASE Goto(w, "idle") /\ UNCHANGED <<marks, failures>>
      BY <3>2, GotoIsLocal
    <3>3. QED BY <1>1, <3>1, <3>2 DEF RedisError
  <2>3. \/ pc'[w] = "idle"
        \/ pc[w] \in {"complete", "completeDel"} /\ pc'[w] \in {"discard", "retry"}
    <3>1. CASE pc[w] \in {"complete", "completeDel"}
      BY <1>1, <2>1, <3>1, FailedIsLocal DEF RedisError
    <3>2. CASE pc[w] \notin {"complete", "completeDel"}
      BY <1>1, <3>2, GotoIsLocal DEF RedisError
    <3>3. QED BY <3>1, <3>2
  <2>4. CASE Command(w)
    BY <2>2, <2>3, <2>4, CommandLeases
  <2>5. CASE UNCHANGED store
    BY <2>1, <2>2, <2>3, <2>5, LeaseMove DEF store
  <2>6. QED BY <1>1, <2>4, <2>5 DEF RedisError
<1>2. CASE Crash(w)
  <2>1. OnlyWorker(w) /\ pc'[w] = "idle"
    BY <1>2, GotoIsLocal DEF Crash, ghosts
  <2>2. QED BY <1>2, <2>1, LeaseMove DEF Crash, store
<1>3. CASE Stop(w)
  <2>1. OnlyWorker(w) /\ pc'[w] = "stopped"
    BY <1>3, GotoIsLocal DEF Stop, ghosts
  <2>2. QED BY <1>3, <2>1, LeaseMove DEF Stop, store
<1>4. QED BY <1>1, <1>2, <1>3

LEMMA EnqueueLeases ==
  ASSUME Known, Leases, NEW j \in Jobs, Enqueue(j)
  PROVE  Leases'
<1>1. /\ \A k \in Jobs : k # j => data'[k] = data[k]
      /\ UNCHANGED <<lease, pc, job, marks>>
      /\ request[j] \in {"new", "stored"}
  BY DEF Enqueue, StorePayload, Schedule, EnqueueError, worker, ghosts, Known,
         TypeOK
<1>2. \A w \in Workers : pc[w] \in Holding => job[w] \in Jobs /\ job[w] # j
  BY <1>1, HoldingHasJob, QueueAssumption DEF Known, JobKnown, Holding
<1>3. QED BY <1>1, <1>2
          DEF Leases, LeaseOrNothing, RunningHasLease, RunningAlone, At, Running,
              Holding

LEMMA TimeLeases ==
  ASSUME Known, Leases, NEW j \in Jobs, Time(j)
  PROVE  Leases'
<1> USE DEF Holding, Running, At
<1>0. \A w \in Workers : pc[w] \in Holding => job[w] \in Jobs
  BY HoldingHasJob
<1>1. CASE BecomeDue(j)
  BY <1>1 DEF BecomeDue, worker, ghosts, Leases, LeaseOrNothing,
              RunningHasLease, RunningAlone
<1>2. CASE ExpireLease(j)
  <2>1. /\ lease' = [lease EXCEPT ![j] = None]
        /\ lease \in [Jobs -> Workers \cup {None}]
        /\ UNCHANGED <<data, pc, job, marks>>
        /\ \A w \in Workers :
             pc[w] \in Holding /\ job[w] = j => lease[j] # w
    BY <1>2 DEF ExpireLease, Held, worker, ghosts, Known, TypeOK
  <2>2. QED BY <1>0, <2>1
            DEF Leases, LeaseOrNothing, RunningHasLease, RunningAlone
<1>3. CASE LeaseLapses(j)
  <2>1. /\ lease' = [lease EXCEPT ![j] = None]
        /\ lease \in [Jobs -> Workers \cup {None}]
        /\ UNCHANGED <<data, pc, job>>
        /\ marks' = [marks EXCEPT ![j] = @ \cup {"lapsed"}]
        /\ marks \in [Jobs -> SUBSET Marks]
    BY <1>3 DEF LeaseLapses, Mark, worker, Known, TypeOK
  <2>2. /\ "lapsed" \in marks'[j]
        /\ \A k \in Jobs : k # j => marks'[k] = marks[k] /\ lease'[k] = lease[k]
    BY <2>1
  <2>3. QED BY <1>0, <2>1, <2>2
            DEF Leases, LeaseOrNothing, RunningHasLease, RunningAlone
<1>4. CASE ExpirePayload(j)
  <2>1. /\ data' = [data EXCEPT ![j] = None]
        /\ data \in [Jobs -> Nat \cup {None}]
        /\ UNCHANGED <<lease, pc, job>>
        /\ \A k \in Jobs : marks[k] \subseteq marks'[k]
    BY <1>4, MarkGrows DEF ExpirePayload, worker, Known, TypeOK
  <2>2. QED BY <1>0, <2>1
            DEF Leases, LeaseOrNothing, RunningHasLease, RunningAlone
<1>5. QED BY <1>1, <1>2, <1>3, <1>4 DEF Time

LEMMA LeasesStep == Known /\ Leases /\ [Next]_vars => Leases'
<1> SUFFICES ASSUME Known, Leases, [Next]_vars PROVE Leases'
  OBVIOUS
<1>1. CASE UNCHANGED vars
  BY <1>1 DEF Leases, LeaseOrNothing, RunningHasLease, RunningAlone, At, vars,
              store, worker, ghosts
<1>2. CASE Next
  BY <1>2, ProceedLeases, HandleLeases, FaultLeases, EnqueueLeases, TimeLeases
     DEF Next
<1>3. QED BY <1>1, <1>2

----------------------------------------------------------------------------
(* What a step of a worker may do, in terms of its stages *)

Trying == {"work", "complete", "completeDel"}

StoreRelation(w) ==
  /\ UNCHANGED request
  /\ Queued \subseteq Queued' \cup {job[w]}
  /\ pc[w] \notin {"complete", "discard", "drop"} => Queued \subseteq Queued'
  /\ \A j \in Jobs : j # job[w] => data'[j] = data[j]
  /\ \/ data'[job[w]] = data[job[w]]
     \/ pc[w] \in {"completeDel", "discardDel"} /\ data'[job[w]] = None
     \/ pc[w] = "retrySet" /\ data'[job[w]] = seen[w] + 1

GhostRelation(w) ==
  /\ \A j \in Jobs : j # job[w] => marks'[j] = marks[j] /\ failures'[j] = failures[j]
  /\ \/ failures'[job[w]] = failures[job[w]]
     \/ failures'[job[w]] = failures[job[w]] + 1 /\ pc[w] \in Trying
  /\ "exhausted" \in marks'[job[w]] =>
       \/ "exhausted" \in marks[job[w]]
       \/ /\ failures'[job[w]] = failures[job[w]] + 1
          /\ seen[w] + 1 >= MaxAttempts /\ pc[w] \in Trying
  /\ "completed" \in marks'[job[w]] =>
       \/ "completed" \in marks[job[w]]
       \/ pc[w] = "completeDel" /\ data'[job[w]] = None

StageRelation(w) ==
  /\ \A v \in Workers : v # w => seen'[v] = seen[v]
  /\ pc'[w] = "work" =>
       pc[w] = "read" /\ data[job[w]] # None /\ seen'[w] = data[job[w]]
  /\ pc'[w] \in Holding \ {"work"} => seen'[w] = seen[w]
  /\ pc'[w] = "read" => pc[w] = "lease"
  /\ pc'[w] = "complete" => pc[w] = "work" /\ "performed" \in marks'[job[w]]
  /\ pc'[w] = "completeDel" => pc[w] = "complete"
  /\ pc'[w] = "discard" =>
       \/ pc[w] = "read" /\ data[job[w]] = None
       \/ pc[w] \in Trying /\ marks'[job[w]] \cap {"permanent", "exhausted"} # {}
  /\ pc'[w] = "discardDel" => pc[w] = "discard"
  /\ pc'[w] = "drop" => pc[w] = "retry" /\ data[job[w]] = None
  /\ pc'[w] = "retry" =>
       pc[w] \in Trying /\ failures'[job[w]] = failures[job[w]] + 1
  /\ pc'[w] = "retrySet" => pc[w] = "retry" /\ data[job[w]] # None
  /\ pc'[w] = "retryAdd" => pc[w] = "retrySet"
  /\ pc'[w] = "retryFree" => pc[w] \in {"retryAdd", "drop"}

WorkerRelation(w) ==
  OnlyWorker(w) /\ StoreRelation(w) /\ GhostRelation(w) /\ StageRelation(w)

LEMMA StoreUnchanged ==
  ASSUME NEW w \in Workers, UNCHANGED store, UNCHANGED request
  PROVE  StoreRelation(w)
BY DEF StoreRelation, store, Queued

LEMMA StoreCommand ==
  ASSUME Known, NEW w \in Workers, Command(w), UNCHANGED request,
         pc[w] \notin {"idle", "stopped"}
  PROVE  StoreRelation(w)
BY CommandEffect, HoldingHasJob DEF StoreRelation, Known

LEMMA GhostsUnchanged ==
  ASSUME Known, NEW w \in Workers, UNCHANGED <<marks, failures>>
  PROVE  GhostRelation(w)
BY DEF GhostRelation

LEMMA ProceedRelation ==
  ASSUME Known, NEW w \in Workers, Proceed(w)
  PROVE  WorkerRelation(w)
<1> USE DEF Stages, Holding, Trying
<1>1. CASE Poll(w)
  <2>1. OnlyWorker(w)
    BY <1>1 DEF Known, TypeOK, Poll, ghosts, OnlyWorker
  <2>2. StageRelation(w)
    BY <1>1 DEF Known, TypeOK, Poll, StageRelation
  <2>3. QED BY <1>1, <2>1, <2>2, StoreUnchanged, GhostsUnchanged
            DEF Poll, ghosts, WorkerRelation
<1>2. CASE Busy(w)
  <2>1. OnlyWorker(w)
    BY <1>2, GotoIsLocal DEF Busy, ghosts
  <2>2. StageRelation(w)
    BY <1>2 DEF Known, TypeOK, Busy, Goto, StageRelation
  <2>3. QED BY <1>2, <2>1, <2>2, StoreUnchanged, GhostsUnchanged
            DEF Busy, ghosts, WorkerRelation
<1>3. CASE Succeed(w)
  <2>0. /\ Command(w) /\ Goto(w, NextStage[pc[w]])
        /\ UNCHANGED <<request, failures>>
        /\ \/ UNCHANGED marks
           \/ pc[w] = "completeDel" /\ Mark(job[w], "completed")
    BY <1>3 DEF Succeed
  <2>1. /\ pc[w] \in DOMAIN NextStage /\ NextStage[pc[w]] \in Stages
        /\ pc[w] \notin {"idle", "stopped"} /\ job[w] \in Jobs
    BY <2>0, HoldingHasJob DEF Command, NextStage
  <2>2. \A k \in Jobs : marks[k] \subseteq marks'[k]
    BY <2>0, <2>1, MarkGrows
  <2>3. OnlyWorker(w) /\ pc'[w] = NextStage[pc[w]]
    BY <2>0, <2>1, <2>2, GotoIsLocal
  <2>4. StoreRelation(w)
    BY <2>0, <2>1, StoreCommand
  <2>5. GhostRelation(w)
    <3>1. CASE UNCHANGED marks
      BY <2>0, <3>1, GhostsUnchanged
    <3>2. CASE pc[w] = "completeDel" /\ Mark(job[w], "completed")
      <4>1. data'[job[w]] = None
        BY <2>0, <2>1, <3>2 DEF Command, Delete, Known, TypeOK
      <4>2. /\ marks' = [marks EXCEPT ![job[w]] = @ \cup {"completed"}]
            /\ marks \in [Jobs -> SUBSET Marks] /\ failures' = failures
        BY <2>0, <3>2 DEF Mark, Known, TypeOK
      <4>3. QED BY <2>1, <3>2, <4>1, <4>2 DEF GhostRelation
    <3>3. QED BY <2>0, <3>1, <3>2
  <2>6. StageRelation(w)
    BY <2>0, <2>1, <2>3 DEF Known, TypeOK, Goto, NextStage, StageRelation
  <2>7. QED BY <2>3, <2>4, <2>5, <2>6 DEF WorkerRelation
<1>4. CASE ReadEnvelope(w)
  <2>1. OnlyWorker(w)
    BY <1>4 DEF Known, TypeOK, ReadEnvelope, Goto, ghosts, OnlyWorker
  <2>2. StageRelation(w)
    BY <1>4 DEF Known, TypeOK, ReadEnvelope, Goto, StageRelation
  <2>3. QED BY <1>4, <2>1, <2>2, StoreUnchanged, GhostsUnchanged
            DEF ReadEnvelope, ghosts, WorkerRelation
<1>5. CASE Reload(w)
  <2>1. OnlyWorker(w)
    BY <1>5, GotoIsLocal DEF Reload, ghosts
  <2>2. StageRelation(w)
    BY <1>5 DEF Known, TypeOK, Reload, Goto, StageRelation
  <2>3. QED BY <1>5, <2>1, <2>2, StoreUnchanged, GhostsUnchanged
            DEF Reload, ghosts, WorkerRelation
<1>6. QED BY <1>1, <1>2, <1>3, <1>4, <1>5 DEF Proceed

LEMMA MarkRelation ==
  ASSUME Known, NEW w \in Workers, pc[w] = "work", UNCHANGED failures,
         NEW m \in {"performed", "permanent"}, Mark(job[w], m)
  PROVE  GhostRelation(w) /\ m \in marks'[job[w]]
<1>1. /\ marks' = [marks EXCEPT ![job[w]] = @ \cup {m}]
      /\ marks \in [Jobs -> SUBSET Marks] /\ job[w] \in Jobs
  BY HoldingHasJob DEF Mark, Known, TypeOK
<1>2. QED BY <1>1 DEF GhostRelation

LEMMA FailedRelation ==
  ASSUME Known, NEW w \in Workers, pc[w] \in Trying, Failed(w)
  PROVE  GhostRelation(w) /\ StageRelation(w)
<1>1. /\ job[w] \in Jobs /\ marks \in [Jobs -> SUBSET Marks]
      /\ failures \in [Jobs -> Nat] /\ pc \in [Workers -> Stages]
      /\ failures' = [failures EXCEPT ![job[w]] = @ + 1]
  BY HoldingHasJob DEF Failed, Known, TypeOK, Trying
<1>2. CASE seen[w] + 1 >= MaxAttempts
  <2>1. /\ marks' = [marks EXCEPT ![job[w]] = @ \cup {"exhausted"}]
        /\ pc' = [pc EXCEPT ![w] = "discard"] /\ UNCHANGED seen
    BY <1>2 DEF Failed, Mark, Goto
  <2>2. GhostRelation(w)
    BY <1>1, <1>2, <2>1 DEF GhostRelation, Trying
  <2>3. StageRelation(w)
    BY <1>1, <2>1 DEF StageRelation, Trying, Holding
  <2>4. QED BY <2>2, <2>3
<1>3. CASE ~(seen[w] + 1 >= MaxAttempts)
  <2>1. /\ marks' = marks
        /\ pc' = [pc EXCEPT ![w] = "retry"] /\ UNCHANGED seen
    BY <1>3 DEF Failed, Goto
  <2>2. GhostRelation(w)
    BY <1>1, <2>1 DEF GhostRelation, Trying
  <2>3. StageRelation(w)
    BY <1>1, <2>1 DEF StageRelation, Trying, Holding
  <2>4. QED BY <2>2, <2>3
<1>4. QED BY <1>2, <1>3

LEMMA HandleRelation ==
  ASSUME Known, NEW w \in Workers, Handle(w)
  PROVE  WorkerRelation(w)
<1> USE DEF Stages, Holding, Trying
<1>1. CASE Performed(w)
  <2>1. OnlyWorker(w) /\ pc'[w] = "complete"
    BY <1>1, MarkGrows, HoldingHasJob, GotoIsLocal DEF Performed
  <2>2. GhostRelation(w) /\ "performed" \in marks'[job[w]]
    BY <1>1, MarkRelation DEF Performed
  <2>3. StageRelation(w)
    BY <1>1, <2>1, <2>2 DEF Known, TypeOK, Performed, Goto, StageRelation
  <2>4. QED BY <1>1, <2>1, <2>2, <2>3, StoreUnchanged DEF Performed, WorkerRelation
<1>2. CASE Impossible(w)
  <2>1. OnlyWorker(w) /\ pc'[w] = "discard"
    BY <1>2, MarkGrows, HoldingHasJob, GotoIsLocal DEF Impossible
  <2>2. GhostRelation(w) /\ "permanent" \in marks'[job[w]]
    BY <1>2, MarkRelation DEF Impossible
  <2>3. StageRelation(w)
    BY <1>2, <2>1, <2>2 DEF Known, TypeOK, Impossible, Goto, StageRelation
  <2>4. QED BY <1>2, <2>1, <2>2, <2>3, StoreUnchanged DEF Impossible, WorkerRelation
<1>3. CASE HandlerFails(w)
  <2>1. OnlyWorker(w)
    BY <1>3, FailedIsLocal DEF HandlerFails
  <2>2. GhostRelation(w) /\ StageRelation(w)
    BY <1>3, FailedRelation DEF HandlerFails
  <2>3. QED BY <1>3, <2>1, <2>2, StoreUnchanged DEF HandlerFails, WorkerRelation
<1>4. QED BY <1>1, <1>2, <1>3 DEF Handle

LEMMA FaultRelation ==
  ASSUME Known, NEW w \in Workers, RedisError(w) \/ Crash(w) \/ Stop(w)
  PROVE  WorkerRelation(w)
<1> USE DEF Stages, Holding
<1>1. CASE RedisError(w)
  <2>1. pc[w] \notin {"idle", "stopped"} /\ UNCHANGED request
    BY <1>1 DEF RedisError
  <2>2. StoreRelation(w)
    BY <1>1, <2>1, StoreCommand, StoreUnchanged DEF RedisError
  <2>3. CASE pc[w] \in {"complete", "completeDel"}
    <3>1. Failed(w)
      BY <1>1, <2>3 DEF RedisError
    <3>2. QED BY <2>1, <2>2, <2>3, <3>1, FailedIsLocal, FailedRelation
              DEF Trying, WorkerRelation
  <2>4. CASE pc[w] \notin {"complete", "completeDel"}
    <3>1. Goto(w, "idle") /\ UNCHANGED <<marks, failures>>
      BY <1>1, <2>4 DEF RedisError
    <3>2. OnlyWorker(w)
      BY <3>1, GotoIsLocal
    <3>3. StageRelation(w)
      BY <3>1 DEF Known, TypeOK, Goto, StageRelation
    <3>4. QED BY <2>2, <3>1, <3>2, <3>3, GhostsUnchanged DEF WorkerRelation
  <2>5. QED BY <2>3, <2>4
<1>2. CASE Crash(w) \/ Stop(w)
  <2>1. PICK stage \in {"idle", "stopped"} : Goto(w, stage)
    BY <1>2 DEF Crash, Stop
  <2>2. UNCHANGED <<store, request, ghosts>>
    BY <1>2 DEF Crash, Stop
  <2>3. OnlyWorker(w)
    BY <2>1, <2>2, GotoIsLocal DEF ghosts
  <2>4. StageRelation(w)
    BY <2>1 DEF Known, TypeOK, Goto, StageRelation
  <2>5. QED BY <2>2, <2>3, <2>4, StoreUnchanged, GhostsUnchanged
            DEF ghosts, WorkerRelation
<1>3. QED BY <1>1, <1>2

----------------------------------------------------------------------------
(* Jobs are kept *)

Kept == JobsNotLost /\ MissingIsSettled /\ RemovedIsSettled

LEMMA SettledStays ==
  ASSUME NEW j \in Jobs, Settled(j), marks[j] \subseteq marks'[j]
  PROVE  Settled(j)'
BY DEF Settled

LEMMA WorkerKept ==
  ASSUME Known, Kept, NEW w \in Workers, WorkerRelation(w)
  PROVE  Kept'
<1> USE DEF Trying, Holding
<1>0. /\ \A j \in Jobs : marks[j] \subseteq marks'[j]
      /\ UNCHANGED request
      /\ pc[w] \notin {"idle", "stopped"} => job[w] \in Jobs
  BY HoldingHasJob DEF WorkerRelation, OnlyWorker, StoreRelation
<1>1. \A j \in Jobs : Settled(j) => Settled(j)'
  BY <1>0, SettledStays
<1>2. JobsNotLost'
  <2> SUFFICES ASSUME NEW j \in Jobs, request'[j] = "accepted", j \notin Queued'
               PROVE  Settled(j)'
    BY DEF JobsNotLost, Settled
  <2>1. CASE j \notin Queued
    BY <1>0, <1>1, <2>1 DEF Kept, JobsNotLost, Settled
  <2>2. CASE j \in Queued
    <3>1. pc[w] \in {"complete", "discard", "drop"} /\ job[w] = j
      BY <2>2 DEF WorkerRelation, StoreRelation
    <3>2. Settled(j)
      BY <1>0, <3>1 DEF Kept, RemovedIsSettled, Settled
    <3>3. QED BY <1>1, <3>2
  <2>3. QED BY <2>1, <2>2
<1>3. MissingIsSettled'
  <2> SUFFICES ASSUME NEW j \in Jobs, request'[j] \in {"stored", "accepted"},
                      data'[j] = None
               PROVE  Settled(j)'
    BY DEF MissingIsSettled
  <2>1. CASE data[j] = None
    BY <1>0, <1>1, <2>1 DEF Kept, MissingIsSettled
  <2>2. CASE data[j] # None
    <3>1. pc[w] \in {"completeDel", "discardDel"} /\ job[w] = j
      BY <2>2, QueueAssumption
         DEF WorkerRelation, StoreRelation, Known, TypeOK
    <3>2. request[j] \in {"accepted", "failed"}
      BY <3>1, QueueAssumption DEF Known, JobKnown
    <3>3. Settled(j)
      BY <1>0, <3>1, <3>2 DEF Kept, RemovedIsSettled, Settled
    <3>4. QED BY <1>1, <3>3
  <2>3. QED BY <2>1, <2>2
<1>4. RemovedIsSettled'
  <2>1. ASSUME NEW v \in Workers, pc'[v] \in {"complete", "completeDel"}
        PROVE  "performed" \in marks'[job'[v]]
    <3>1. CASE v # w
      BY <1>0, <2>1, <3>1, HoldingHasJob
         DEF Kept, RemovedIsSettled, WorkerRelation, OnlyWorker
    <3>2. CASE v = w
      BY <1>0, <2>1, <3>2
         DEF Kept, RemovedIsSettled, WorkerRelation, OnlyWorker, StageRelation
    <3>3. QED BY <3>1, <3>2
  <2>2. ASSUME NEW v \in Workers, pc'[v] \in {"discard", "discardDel", "drop"},
               request'[job'[v]] = "accepted"
        PROVE  Settled(job[v])'
    <3>1. CASE v # w
      <4>1. /\ pc[v] \in {"discard", "discardDel", "drop"}
            /\ job'[v] = job[v] /\ job[v] \in Jobs
        BY <2>2, <3>1, HoldingHasJob DEF WorkerRelation, OnlyWorker
      <4>2. Settled(job[v])
        BY <1>0, <2>2, <4>1 DEF Kept, RemovedIsSettled
      <4>3. QED BY <1>1, <4>1, <4>2 DEF Settled
    <3>2. CASE v = w
      <4>1. /\ job'[w] = job[w] /\ job[w] \in Jobs
            /\ \/ data[job[w]] = None
               \/ marks'[job[w]] \cap {"permanent", "exhausted"} # {}
               \/ pc[w] = "discard"
        BY <1>0, <2>2, <3>2 DEF WorkerRelation, OnlyWorker, StageRelation
      <4>2. CASE marks'[job[w]] \cap {"permanent", "exhausted"} # {}
        BY <3>2, <4>1, <4>2 DEF Settled
      <4>3. CASE data[job[w]] = None \/ pc[w] = "discard"
        <5>1. Settled(job[w])
          BY <1>0, <2>2, <3>2, <4>1, <4>3
             DEF Kept, MissingIsSettled, RemovedIsSettled
        <5>2. QED BY <1>1, <3>2, <4>1, <5>1 DEF Settled
      <4>4. QED BY <4>1, <4>2, <4>3
    <3>3. QED BY <3>1, <3>2
  <2>3. QED BY <2>1, <2>2 DEF RemovedIsSettled
<1>5. QED BY <1>2, <1>3, <1>4 DEF Kept

LEMMA EnqueueKept ==
  ASSUME Known, Kept, NEW j \in Jobs, Enqueue(j)
  PROVE  Kept'
<1>0. /\ UNCHANGED <<delayed, marks, pc, job>>
      /\ \A k \in Jobs : k # j => request'[k] = request[k] /\ data'[k] = data[k]
      /\ ToSet(ready) \subseteq ToSet(ready')
      /\ request'[j] = "accepted" => j \in ToSet(ready')
      /\ request'[j] = "stored" => data'[j] # None
      /\ request'[j] = "accepted" => request[j] = "stored" /\ data'[j] = data[j]
      /\ request[j] \in {"new", "stored"}
  <2>0. /\ request \in [Jobs -> {"new", "stored", "accepted", "failed"}]
        /\ data \in [Jobs -> Nat \cup {None}] /\ TypeOK
    BY DEF Known, TypeOK
  <2>1. CASE StorePayload(j)
    BY <2>0, <2>1, QueueAssumption DEF StorePayload, worker, ghosts
  <2>2. CASE Schedule(j)
    BY <2>0, <2>2, PlaceEffect DEF Schedule, worker
  <2>3. CASE EnqueueError(j)
    <3>1. ToSet(ready) \subseteq ToSet(ready')
      BY <2>0, <2>3, PlaceEffect DEF EnqueueError
    <3>2. QED BY <2>0, <2>3, <3>1 DEF EnqueueError, worker
  <2>4. QED BY <2>1, <2>2, <2>3 DEF Enqueue
<1>1. \A w \in Workers : pc[w] \notin {"idle", "stopped"} => job[w] # j /\ job[w] \in Jobs
  <2>1. \A w \in Workers :
          pc[w] \notin {"idle", "stopped"} => request[job[w]] \in {"accepted", "failed"}
    BY DEF Known, JobKnown
  <2>2. QED BY <1>0, <2>1, HoldingHasJob
<1>2. JobsNotLost'
  BY <1>0 DEF Kept, JobsNotLost, Queued
<1>3. MissingIsSettled'
  BY <1>0 DEF Kept, MissingIsSettled, Settled
<1>4. RemovedIsSettled'
  BY <1>0, <1>1 DEF Kept, RemovedIsSettled, Settled, Known, JobKnown
<1>5. QED BY <1>2, <1>3, <1>4 DEF Kept

LEMMA TimeRelation ==
  ASSUME Known, NEW j \in Jobs, Time(j)
  PROVE  /\ UNCHANGED <<request, pc, job, seen, failures>>
         /\ Queued' = Queued
         /\ \A k \in Jobs : marks[k] \subseteq marks'[k]
         /\ \A k \in Jobs : marks'[k] \subseteq marks[k] \cup {"lapsed", "expired"}
         /\ \A k \in Jobs :
              \/ data'[k] = data[k]
              \/ data'[k] = None /\ "expired" \in marks'[k]
<1> USE DEF Known, TypeOK, Mark
<1>1. CASE BecomeDue(j)
  BY <1>1, AppendToSet DEF BecomeDue, worker, ghosts, Queued
<1>2. CASE ExpireLease(j)
  BY <1>2 DEF ExpireLease, worker, ghosts, Queued
<1>3. CASE LeaseLapses(j)
  BY <1>3 DEF LeaseLapses, worker, Queued
<1>4. CASE ExpirePayload(j)
  BY <1>4 DEF ExpirePayload, worker, Queued
<1>5. QED BY <1>1, <1>2, <1>3, <1>4 DEF Time

LEMMA TimeKept ==
  ASSUME Known, Kept, NEW j \in Jobs, Time(j)
  PROVE  Kept'
<1>1. /\ UNCHANGED <<request, pc, job>> /\ Queued' = Queued
      /\ \A k \in Jobs : marks[k] \subseteq marks'[k]
      /\ \A k \in Jobs :
           data'[k] = data[k] \/ (data'[k] = None /\ "expired" \in marks'[k])
  BY TimeRelation
<1>2. \A k \in Jobs : Settled(k) => Settled(k)'
  BY <1>1, SettledStays
<1>3. \A w \in Workers : pc[w] \notin {"idle", "stopped"} => job[w] \in Jobs
  BY HoldingHasJob
<1>4. JobsNotLost'
  BY <1>1, <1>2 DEF Kept, JobsNotLost, Settled
<1>5. MissingIsSettled'
  BY <1>1, <1>2 DEF Kept, MissingIsSettled, Settled
<1>6. RemovedIsSettled'
  BY <1>1, <1>2, <1>3 DEF Kept, RemovedIsSettled
<1>7. QED BY <1>4, <1>5, <1>6 DEF Kept

LEMMA KeptStep == Known /\ Kept /\ [Next]_vars => Kept'
<1> SUFFICES ASSUME Known, Kept, [Next]_vars PROVE Kept'
  OBVIOUS
<1>1. CASE UNCHANGED vars
  BY <1>1 DEF Kept, JobsNotLost, MissingIsSettled, RemovedIsSettled, Settled,
              Queued, vars, store, worker, ghosts
<1>2. CASE Next
  BY <1>2, ProceedRelation, HandleRelation, FaultRelation, WorkerKept,
     EnqueueKept, TimeKept DEF Next
<1>3. QED BY <1>1, <1>2

----------------------------------------------------------------------------
(* Attempts are counted *)

Counted == AttemptsCounted /\ GivenUpAfterAllAttempts

LEMMA WorkerCounted ==
  ASSUME Known, Counted, NEW w \in Workers, WorkerRelation(w)
  PROVE  Counted'
<1> USE DEF Trying, Holding
<1>0. /\ failures \in [Jobs -> Nat] /\ seen \in [Workers -> Nat]
      /\ data \in [Jobs -> Nat \cup {None}] /\ MaxAttempts \in Nat
      /\ None \notin Nat
      /\ pc[w] \notin {"idle", "stopped"} => job[w] \in Jobs
  BY QueueAssumption, HoldingHasJob DEF Known, TypeOK
<1>1. /\ \A j \in Jobs : data[j] # None => data[j] <= failures[j]
      /\ \A v \in Workers : pc[v] \in Trying => seen[v] <= failures[job[v]]
      /\ \A v \in Workers :
           pc[v] \in {"retry", "retrySet"} => seen[v] < failures[job[v]]
      /\ \A j \in Jobs : "exhausted" \in marks[j] => failures[j] >= MaxAttempts
  BY DEF Counted, AttemptsCounted, GivenUpAfterAllAttempts
<1>2. \A j \in Jobs : failures'[j] \in Nat /\ failures[j] <= failures'[j]
  <2> SUFFICES ASSUME NEW j \in Jobs
               PROVE  failures'[j] \in Nat /\ failures[j] <= failures'[j]
    OBVIOUS
  <2>1. failures[j] \in Nat
    BY <1>0
  <2>2. failures'[j] = failures[j] \/ failures'[j] = failures[j] + 1
    BY DEF WorkerRelation, GhostRelation
  <2>3. QED BY <2>1, <2>2
<1>3. \A j \in Jobs : data'[j] # None => data'[j] <= failures'[j]
  <2> SUFFICES ASSUME NEW j \in Jobs, data'[j] # None
               PROVE  data'[j] <= failures'[j]
    OBVIOUS
  <2>1. CASE data'[j] = data[j]
    BY <1>0, <1>1, <1>2, <2>1
  <2>2. CASE data'[j] # data[j]
    <3>1. pc[w] = "retrySet" /\ job[w] = j /\ data'[j] = seen[w] + 1
      BY <2>2 DEF WorkerRelation, StoreRelation
    <3>2. QED BY <1>0, <1>1, <1>2, <3>1
  <2>3. QED BY <2>1, <2>2
<1>4. ASSUME NEW v \in Workers, v # w
      PROVE  /\ pc'[v] \in Trying => seen'[v] <= failures'[job'[v]]
             /\ pc'[v] \in {"retry", "retrySet"} => seen'[v] < failures'[job'[v]]
  <2>1. pc'[v] = pc[v] /\ job'[v] = job[v] /\ seen'[v] = seen[v]
    BY <1>4 DEF WorkerRelation, OnlyWorker, StageRelation
  <2>2. pc[v] \notin {"idle", "stopped"} => job[v] \in Jobs
    BY HoldingHasJob
  <2>3. QED BY <1>0, <1>1, <1>2, <2>1, <2>2
<1>5. pc'[w] \in Trying => seen'[w] <= failures'[job'[w]]
  <2> SUFFICES ASSUME pc'[w] \in Trying PROVE seen'[w] <= failures'[job'[w]]
    OBVIOUS
  <2>1. job'[w] = job[w] /\ job[w] \in Jobs
    BY <1>0 DEF WorkerRelation, OnlyWorker, StageRelation
  <2>2. \/ data[job[w]] # None /\ seen'[w] = data[job[w]]
        \/ pc[w] \in Trying /\ seen'[w] = seen[w]
    BY DEF WorkerRelation, StageRelation
  <2>3. QED BY <1>0, <1>1, <1>2, <2>1, <2>2
<1>6. pc'[w] \in {"retry", "retrySet"} => seen'[w] < failures'[job'[w]]
  <2> SUFFICES ASSUME pc'[w] \in {"retry", "retrySet"}
               PROVE  seen'[w] < failures'[job'[w]]
    OBVIOUS
  <2>1. job'[w] = job[w] /\ job[w] \in Jobs /\ seen'[w] = seen[w]
    BY <1>0 DEF WorkerRelation, OnlyWorker, StageRelation
  <2>2. \/ pc[w] \in Trying /\ failures'[job[w]] = failures[job[w]] + 1
        \/ pc[w] = "retry"
    BY DEF WorkerRelation, StageRelation
  <2>3. QED BY <1>0, <1>1, <1>2, <2>1, <2>2
<1>7. GivenUpAfterAllAttempts'
  <2> SUFFICES ASSUME NEW j \in Jobs, "exhausted" \in marks'[j]
               PROVE  failures'[j] >= MaxAttempts
    BY DEF GivenUpAfterAllAttempts
  <2>1. CASE "exhausted" \in marks[j]
    BY <1>0, <1>1, <1>2, <2>1
  <2>2. CASE "exhausted" \notin marks[j]
    <3>1. /\ job[w] = j /\ failures'[j] = failures[j] + 1
          /\ seen[w] + 1 >= MaxAttempts /\ pc[w] \in Trying
      BY <2>2 DEF WorkerRelation, GhostRelation
    <3>2. QED BY <1>0, <1>1, <3>1
  <2>3. QED BY <2>1, <2>2
<1>8. AttemptsCounted'
  BY <1>3, <1>4, <1>5, <1>6 DEF AttemptsCounted
<1>9. QED BY <1>7, <1>8 DEF Counted

\* What an enqueue does to the payload and the request of its job.
LEMMA EnqueueRelation ==
  ASSUME Known, NEW j \in Jobs, Enqueue(j)
  PROVE  /\ UNCHANGED <<worker, marks, failures>>
         /\ \A k \in Jobs : data'[k] = data[k] \/ (data'[k] = 0 /\ request[k] = "new")
BY DEF Enqueue, StorePayload, Schedule, EnqueueError, worker, ghosts, Known, TypeOK

LEMMA EnqueueCounted ==
  ASSUME Known, Counted, NEW j \in Jobs, Enqueue(j)
  PROVE  Counted'
<1>1. /\ UNCHANGED <<pc, job, seen, marks, failures>>
      /\ \A k \in Jobs : data'[k] = data[k] \/ data'[k] = 0
  BY EnqueueRelation DEF worker
<1>2. failures \in [Jobs -> Nat]
  BY DEF Known, TypeOK
<1>3. QED
  BY <1>1, <1>2 DEF Counted, AttemptsCounted, GivenUpAfterAllAttempts

LEMMA TimeCounted ==
  ASSUME Known, Counted, NEW j \in Jobs, Time(j)
  PROVE  Counted'
<1>1. /\ UNCHANGED <<pc, job, seen, failures>>
      /\ \A k \in Jobs : "exhausted" \in marks'[k] => "exhausted" \in marks[k]
      /\ \A k \in Jobs : data'[k] = data[k] \/ data'[k] = None
  BY TimeRelation
<1>2. QED
  BY <1>1 DEF Counted, AttemptsCounted, GivenUpAfterAllAttempts

LEMMA CountedStep == Known /\ Counted /\ [Next]_vars => Counted'
<1> SUFFICES ASSUME Known, Counted, [Next]_vars PROVE Counted'
  OBVIOUS
<1>1. CASE UNCHANGED vars
  BY <1>1 DEF Counted, AttemptsCounted, GivenUpAfterAllAttempts, vars, store,
              worker, ghosts
<1>2. CASE Next
  BY <1>2, ProceedRelation, HandleRelation, FaultRelation, WorkerCounted,
     EnqueueCounted, TimeCounted DEF Next
<1>3. QED BY <1>1, <1>2

----------------------------------------------------------------------------
(* A completed job is gone *)

LEMMA WorkerCompleted ==
  ASSUME Known, Leases, CompletedIsGone, NEW w \in Workers, WorkerRelation(w)
  PROVE  CompletedIsGone'
<1> USE DEF Running, Trying, Holding
<1> SUFFICES ASSUME NEW j \in Jobs,
                    "completed" \in marks'[j], "lapsed" \notin marks'[j]
             PROVE  /\ data'[j] = None
                    /\ \A v \in Workers : pc'[v] \in Running => job'[v] # j
  BY DEF CompletedIsGone
<1>0. "lapsed" \notin marks[j]
  BY DEF WorkerRelation, OnlyWorker
<1>1. /\ \A v \in Workers : v # w => pc'[v] = pc[v] /\ job'[v] = job[v]
      /\ pc'[w] \in Running => job'[w] = job[w]
      /\ pc'[w] = "work" => pc[w] = "read" /\ data[job[w]] # None
      /\ pc'[w] = "retrySet" => pc[w] = "retry" /\ data[job[w]] # None
      /\ pc'[w] \in {"complete", "completeDel", "retryAdd"} =>
           pc[w] \in {"work", "complete", "retrySet"}
  BY DEF WorkerRelation, OnlyWorker, StageRelation
<1>2. CASE "completed" \in marks[j]
  <2>1. data[j] = None /\ \A v \in Workers : pc[v] \in Running => job[v] # j
    BY <1>0, <1>2 DEF CompletedIsGone
  <2>2. data'[j] = None
    BY <2>1 DEF WorkerRelation, StoreRelation
  <2>3. QED BY <1>1, <2>1, <2>2
<1>3. CASE "completed" \notin marks[j]
  <2>1. job[w] = j /\ pc[w] = "completeDel" /\ data'[j] = None
    BY <1>3 DEF WorkerRelation, GhostRelation
  <2>2. \A v \in Workers : pc[v] \in Running /\ job[v] = j => v = w
    BY <1>0, <2>1 DEF Leases, RunningAlone, At
  <2>3. QED BY <1>1, <2>1, <2>2
<1>4. QED BY <1>2, <1>3

LEMMA CompletedStep ==
  Known /\ Leases /\ CompletedIsGone /\ [Next]_vars => CompletedIsGone'
<1> SUFFICES ASSUME Known, Leases, CompletedIsGone, [Next]_vars
             PROVE  CompletedIsGone'
  OBVIOUS
<1>1. CASE UNCHANGED vars
  BY <1>1 DEF CompletedIsGone, vars, store, worker, ghosts
<1>2. ASSUME NEW j \in Jobs, Enqueue(j)
      PROVE  CompletedIsGone'
  <2>1. /\ UNCHANGED <<pc, job, marks>>
        /\ \A k \in Jobs : data'[k] = data[k] \/ request[k] = "new"
    BY <1>2, EnqueueRelation DEF worker
  <2>2. \A k \in Jobs : request[k] = "new" => marks[k] = {}
    BY DEF Known, JobKnown
  <2>3. QED BY <2>1, <2>2 DEF CompletedIsGone
<1>3. ASSUME NEW j \in Jobs, Time(j)
      PROVE  CompletedIsGone'
  <2>1. /\ UNCHANGED <<pc, job>>
        /\ \A k \in Jobs : data'[k] = data[k] \/ data'[k] = None
        /\ \A k \in Jobs : marks[k] \subseteq marks'[k]
        /\ \A k \in Jobs : "completed" \in marks'[k] => "completed" \in marks[k]
    BY <1>3, TimeRelation
  <2>2. QED BY <2>1 DEF CompletedIsGone
<1>4. CASE Next
  BY <1>2, <1>3, <1>4, ProceedRelation, HandleRelation, FaultRelation,
     WorkerCompleted DEF Next
<1>5. QED BY <1>1, <1>4

----------------------------------------------------------------------------
(* The theorems *)

LEMMA InitIInv == Init => IInv
<1> SUFFICES ASSUME Init PROVE IInv
  OBVIOUS
<1> USE DEF Init
<1>1. TypeOK
  BY QueueAssumption DEF TypeOK, Stages, Holding, Marks
<1>2. ToSet(ready) = {} /\ Queued = {}
  BY DEF ToSet, Queued
<1>3. JobKnown
  BY <1>2 DEF JobKnown
<1>4. LeaseOrNothing /\ RunningHasLease /\ RunningAlone
  BY DEF LeaseOrNothing, RunningHasLease, RunningAlone, At, Holding, Running
<1>5. JobsNotLost /\ MissingIsSettled /\ RemovedIsSettled
  BY DEF JobsNotLost, MissingIsSettled, RemovedIsSettled
<1>6. AttemptsCounted /\ GivenUpAfterAllAttempts /\ CompletedIsGone
  BY DEF AttemptsCounted, GivenUpAfterAllAttempts, CompletedIsGone
<1>7. QED BY <1>1, <1>3, <1>4, <1>5, <1>6 DEF IInv

\* No step of the API process, of a worker, of the clock or of a fault leaves
\* the inductive invariant, for any number of jobs, workers, attempts and
\* faults.
THEOREM Invariance == Spec => []IInv
<1>1. IInv /\ [Next]_vars => IInv'
  <2>1. IInv <=> Known /\ Leases /\ Kept /\ Counted /\ CompletedIsGone
    BY DEF IInv, Known, Leases, Kept, Counted
  <2>2. IInv' <=> (Known /\ Leases /\ Kept /\ Counted /\ CompletedIsGone)'
    BY DEF IInv, Known, Leases, Kept, Counted
  <2>3. QED
    BY <2>1, <2>2, KnownStep, LeasesStep, KeptStep, CountedStep, CompletedStep
<1>2. QED BY InitIInv, <1>1, PTL DEF Spec

\* jobQueue.ts: an accepted job is in the queue until it is settled.
THEOREM JobsAreKept == Spec => []JobsNotLost
<1>1. IInv => JobsNotLost
  BY DEF IInv
<1>2. QED BY Invariance, <1>1, PTL

\* claimNext: one worker at a time runs a job whose leases have not lapsed.
THEOREM WorkersExclude == Spec => []OneWorkerPerJob
<1>1. IInv => OneWorkerPerJob
  BY DEF IInv, RunningAlone, OneWorkerPerJob, At, Running, Holding
<1>2. QED BY Invariance, <1>1, PTL

\* processType: a job is given up after MaxAttempts failures, not before.
THEOREM AttemptsAreMade == Spec => []GivenUpAfterAllAttempts
<1>1. IInv => GivenUpAfterAllAttempts
  BY DEF IInv
<1>2. QED BY Invariance, <1>1, PTL

\* complete: an acknowledged job does not run again, unless a lease lapsed.
THEOREM CompletionIsFinal == Spec => []CompletedStaysCompleted
<1>1. IInv => CompletedStaysCompleted
  <2> SUFFICES ASSUME IInv, NEW w \in Workers,
                      pc[w] = "work", "completed" \in marks[job[w]],
                      "lapsed" \notin marks[job[w]]
               PROVE  FALSE
    BY DEF CompletedStaysCompleted
  <2>1. job[w] \in Jobs
    BY HoldingHasJob DEF IInv, Known
  <2>2. QED BY <2>1 DEF IInv, CompletedIsGone, Running
<1>2. QED BY Invariance, <1>1, PTL

----------------------------------------------------------------------------
(* The order of the queue *)

\* As long as leases are taken on the head of the queue and kept, the worker
\* that runs a job, or is about to, runs the one at the head.
NoneLapsed == inTurn => \A j \in Jobs : "lapsed" \notin marks[j]
Runs(w) == pc[w] = "work" \/ (pc[w] = "read" /\ data[job[w]] # None)
AtHead(j) == ready # <<>> /\ Head(ready) = j
HeadRuns == inTurn => \A w \in Workers : Runs(w) => AtHead(job[w])
Turns == NoneLapsed /\ HeadRuns

\* What a step of worker w does to the queue's order.
TurnRelation(w) ==
  /\ inTurn' => inTurn
  /\ inTurn' /\ pc'[w] = "read" => AtHead(job[w])
  /\ UNCHANGED store \/ Command(w)
  /\ \A j \in Jobs : "lapsed" \in marks'[j] => "lapsed" \in marks[j]

LEMMA ConcatHead ==
  ASSUME NEW x \in Seq(Jobs), NEW y \in Seq(Jobs), Len(x) > 0
  PROVE  x \o y # <<>> /\ Head(x \o y) = x[1]
<1>1. /\ x \o y \in Seq(Jobs) /\ Len(x \o y) = Len(x) + Len(y)
      /\ \A k \in 1..(Len(x) + Len(y)) :
           (x \o y)[k] = IF k <= Len(x) THEN x[k] ELSE y[k - Len(x)]
  BY ConcatProperties
<1>2. Len(x) \in Nat /\ Len(y) \in Nat
  OBVIOUS
<1>3. (x \o y)[1] = x[1] /\ Len(x \o y) # 0
  BY <1>1, <1>2
<1>4. QED BY <1>1, <1>3

LEMMA WithoutHead ==
  ASSUME NEW s \in Seq(Jobs), NEW j \in Jobs, s # <<>>, Head(s) # j
  PROVE  Without(s, j) # <<>> /\ Head(Without(s, j)) = Head(s)
<1>1. CASE j \notin ToSet(s)
  BY <1>1 DEF Without
<1>2. CASE j \in ToSet(s)
  <2> DEFINE i == CHOOSE i \in DOMAIN s : s[i] = j
  <2>1. i \in 1..Len(s) /\ s[i] = j /\ Len(s) \in Nat
    BY <1>2 DEF ToSet
  <2>2. Without(s, j) = SubSeq(s, 1, i - 1) \o SubSeq(s, i + 1, Len(s))
    BY <1>2 DEF Without, RemoveAt
  <2> HIDE DEF i
  <2>3. i # 1 /\ Head(s) = s[1]
    BY <2>1
  <2>4. /\ SubSeq(s, 1, i - 1) \in Seq(Jobs)
        /\ Len(SubSeq(s, 1, i - 1)) = i - 1
        /\ SubSeq(s, 1, i - 1)[1] = s[1]
    BY <2>1, <2>3
  <2>5. SubSeq(s, i + 1, Len(s)) \in Seq(Jobs)
    BY <2>1
  <2>6. Len(SubSeq(s, 1, i - 1)) > 0
    BY <2>1, <2>3, <2>4
  <2>7. QED BY <2>2, <2>3, <2>4, <2>5, <2>6, ConcatHead
<1>3. QED BY <1>1, <1>2

\* The queue grows at its end and keeps its head.
LEMMA AppendHead ==
  ASSUME NEW s \in Seq(Jobs), NEW j \in Jobs, s # <<>>
  PROVE  Append(s, j) # <<>> /\ Head(Append(s, j)) = Head(s)
<1>1. Append(s, j) = s \o <<j>> /\ <<j>> \in Seq(Jobs) /\ Len(s) > 0
  BY AppendIsConcat
<1>2. QED BY <1>1, ConcatHead

LEMMA PlaceLast ==
  ASSUME TypeOK, NEW j \in Jobs, Place(j), inTurn', ready # <<>>
  PROVE  ready' # <<>> /\ Head(ready') = Head(ready) /\ inTurn
<1>1. inTurn /\ ready' = InsertAt(ready, Len(ready) + 1, j) /\ ready \in Seq(Jobs)
  BY DEF Place, TypeOK
<1> DEFINE a == SubSeq(ready, 1, (Len(ready) + 1) - 1)
           b == SubSeq(ready, Len(ready) + 1, Len(ready))
<1>2. a \in Seq(Jobs) /\ Len(a) = Len(ready) /\ Len(ready) > 0 /\ a[1] = ready[1]
  BY <1>1
<1>3. b \in Seq(Jobs) /\ <<j>> \in Seq(Jobs)
  BY <1>1
<1>4. ready' = (a \o <<j>>) \o b
  BY <1>1 DEF InsertAt
<1> HIDE DEF a, b
<1>5. /\ a \o <<j>> \in Seq(Jobs)
      /\ Len(a \o <<j>>) > 0
      /\ (a \o <<j>>)[1] = a[1]
  BY <1>2, <1>3, ConcatHead
<1>6. ready' # <<>> /\ Head(ready') = ready[1]
  BY <1>2, <1>3, <1>4, <1>5, ConcatHead
<1>7. QED BY <1>1, <1>6

\* No step of a worker takes the head of the queue from another that runs it.
LEMMA WorkerTurns ==
  ASSUME Known, Leases, Turns, NEW w \in Workers,
         WorkerRelation(w), TurnRelation(w)
  PROVE  Turns'
<1>1. NoneLapsed'
  BY DEF Turns, NoneLapsed, TurnRelation
<1>2. ASSUME NEW v \in Workers, v # w, inTurn, Runs(v)', Command(w)
      PROVE  Runs(v) /\ (job[v] = job[w] => UNCHANGED ready)
  <2>1. /\ pc[v] = pc'[v] /\ job[v] = job'[v]
        /\ pc[v] \in {"work", "read"} /\ job[v] \in Jobs
    BY <1>2, HoldingHasJob DEF WorkerRelation, OnlyWorker, Runs
  <2>2. "lapsed" \notin marks[job[v]]
    BY <1>2, <2>1 DEF Turns, NoneLapsed
  <2>3. job[v] = job[w] => pc[w] \notin Running
    BY <1>2, <2>1, <2>2 DEF Leases, RunningAlone, At, Holding
  <2>4. Runs(v)
    BY <1>2, <2>1, <2>3
       DEF WorkerRelation, StoreRelation, Runs, Running, Known, TypeOK
  <2>5. ASSUME job[v] = job[w], pc[w] \in {"discard", "drop"}
        PROVE  FALSE
    <3>1. pc[v] # "work"
      BY <2>1, <2>2, <2>5, <1>2 DEF Leases, RunningAlone, At, Running, Holding
    <3>2. data[job[v]] # None
      BY <2>4, <3>1 DEF Runs
    <3>3. lease[job[v]] = v /\ lease[job[w]] = w
      BY <2>1, <2>2, <2>5, <3>2 DEF Leases, LeaseOrNothing, At, Holding
    <3>4. QED BY <1>2, <2>5, <3>3
  <2>6. job[v] = job[w] => UNCHANGED ready
    BY <1>2, <2>3, <2>5
       DEF Command, Running, TakeLease, Unschedule, Delete, Rewrite, Delay, Free
  <2>7. QED BY <2>4, <2>6
<1>3. ASSUME NEW v \in Workers, v # w, inTurn', Runs(v)'
      PROVE  AtHead(job[v])'
  <2>1. /\ pc[v] = pc'[v] /\ job[v] = job'[v] /\ job[v] \in Jobs /\ inTurn
    BY <1>3, HoldingHasJob DEF WorkerRelation, OnlyWorker, Runs, TurnRelation
  <2>2. CASE UNCHANGED store
    BY <1>3, <2>1, <2>2 DEF Turns, HeadRuns, Runs, AtHead, store
  <2>3. CASE Command(w)
    <3>1. AtHead(job[v]) /\ (job[v] = job[w] => UNCHANGED ready)
      BY <1>2, <1>3, <2>1, <2>3 DEF Turns, HeadRuns
    <3>2. /\ ready \in Seq(Jobs) /\ job[w] \in Jobs
      BY <2>3, HoldingHasJob DEF Known, TypeOK, Command
    <3>3. \/ UNCHANGED ready
          \/ ready' = Without(ready, job[w])
      BY <2>3 DEF Command, TakeLease, Unschedule, Delete, Rewrite, Delay, Free
    <3>4. job[v] # job[w] => AtHead(job[v])'
      BY <2>1, <3>1, <3>2, <3>3, WithoutHead DEF AtHead
    <3>5. QED BY <2>1, <3>1, <3>4 DEF AtHead
  <2>4. QED BY <2>2, <2>3 DEF TurnRelation
<1>4. ASSUME inTurn', Runs(w)'
      PROVE  AtHead(job[w])'
  <2>1. /\ pc'[w] \in {"work", "read"} /\ job'[w] = job[w] /\ inTurn
    BY <1>4 DEF Runs, WorkerRelation, OnlyWorker, Holding, TurnRelation
  <2>2. CASE pc'[w] = "read"
    <3>1. pc[w] = "lease" /\ AtHead(job[w])
      BY <1>4, <2>2 DEF WorkerRelation, StageRelation, TurnRelation
    <3>2. UNCHANGED ready
      BY <3>1 DEF TurnRelation, Command, TakeLease, store
    <3>3. QED BY <2>1, <3>1, <3>2 DEF AtHead
  <2>3. CASE pc'[w] = "work"
    <3>1. pc[w] = "read" /\ data[job[w]] # None
      BY <2>3 DEF WorkerRelation, StageRelation
    <3>2. UNCHANGED ready
      BY <3>1 DEF TurnRelation, Command, store
    <3>3. AtHead(job[w])
      BY <2>1, <3>1 DEF Turns, HeadRuns, Runs
    <3>4. QED BY <2>1, <3>2, <3>3 DEF AtHead
  <2>4. QED BY <2>1, <2>2, <2>3
<1>5. HeadRuns'
  BY <1>3, <1>4 DEF HeadRuns
<1>6. QED BY <1>1, <1>5 DEF Turns

LEMMA OtherMark ==
  ASSUME Known, UNCHANGED marks \/ \E m \in Marks \ {"lapsed"}, j \in Jobs : Mark(j, m)
  PROVE  \A j \in Jobs : "lapsed" \in marks'[j] => "lapsed" \in marks[j]
<1>1. marks \in [Jobs -> SUBSET Marks]
  BY DEF Known, TypeOK
<1>2. QED BY <1>1 DEF Mark

LEMMA WorkerTurnRelation ==
  ASSUME Known, NEW w \in Workers,
         Proceed(w) \/ Handle(w) \/ RedisError(w) \/ Crash(w) \/ Stop(w)
  PROVE  TurnRelation(w)
<1>0. pc[w] \notin {"idle", "stopped"} => job[w] \in Jobs
  BY HoldingHasJob
<1>1. CASE Poll(w)
  BY <1>1 DEF Poll, TurnRelation, ghosts, Known, TypeOK
<1>2. CASE Busy(w) \/ ReadEnvelope(w) \/ Reload(w)
  <2>1. UNCHANGED <<store, ghosts>> /\ pc'[w] # "read"
    BY <1>2 DEF Busy, ReadEnvelope, Reload, Goto, Known, TypeOK
  <2>2. QED BY <2>1 DEF TurnRelation, ghosts
<1>3. CASE Succeed(w)
  <2>1. /\ Command(w) /\ (inTurn' => inTurn)
        /\ UNCHANGED marks \/ Mark(job[w], "completed")
        /\ pc[w] \notin {"idle", "stopped"}
        /\ pc' = [pc EXCEPT ![w] = NextStage[pc[w]]]
    BY <1>3 DEF Succeed, Goto, Command, NextStage
  <2>2. pc'[w] = "read" => pc[w] = "lease"
    BY <2>1 DEF Known, TypeOK, Command, NextStage
  <2>3. inTurn' /\ pc'[w] = "read" => AtHead(job[w])
    BY <1>3, <2>2 DEF Succeed, AtHead
  <2>4. \A j \in Jobs : "lapsed" \in marks'[j] => "lapsed" \in marks[j]
    BY <1>0, <2>1, OtherMark DEF Marks
  <2>5. QED BY <1>3, <2>1, <2>3, <2>4 DEF TurnRelation, Succeed
<1>4. CASE Handle(w) \/ Crash(w) \/ Stop(w)
  <2>1. /\ UNCHANGED <<store, inTurn>> /\ pc'[w] # "read"
        /\ \/ UNCHANGED marks
           \/ /\ \E m \in {"performed", "permanent", "exhausted"} : Mark(job[w], m)
              /\ pc[w] = "work"
    BY <1>4 DEF Handle, Performed, Impossible, HandlerFails, Failed, Crash, Stop,
                Goto, Known, TypeOK, ghosts
  <2>2. \A j \in Jobs : "lapsed" \in marks'[j] => "lapsed" \in marks[j]
    BY <1>0, <2>1, OtherMark DEF Marks
  <2>3. QED BY <2>1, <2>2 DEF TurnRelation
<1>5. CASE RedisError(w)
  <2>0. /\ Command(w) \/ UNCHANGED store
        /\ inTurn' => inTurn
        /\ pc[w] \notin {"idle", "stopped"}
    BY <1>5 DEF RedisError, Holding
  <2>1. /\ UNCHANGED marks \/ Mark(job[w], "exhausted")
        /\ \E stage \in {"idle", "discard", "retry"} : Goto(w, stage)
    <3>1. Failed(w) \/ (Goto(w, "idle") /\ UNCHANGED marks)
      BY <1>5 DEF RedisError
    <3>2. QED BY <3>1, FailedEffect
  <2>2. pc'[w] # "read"
    BY <2>1 DEF Goto, Known, TypeOK
  <2>3. \A j \in Jobs : "lapsed" \in marks'[j] => "lapsed" \in marks[j]
    BY <1>0, <2>0, <2>1, OtherMark DEF Marks
  <2>4. QED BY <2>0, <2>2, <2>3 DEF TurnRelation
<1>6. QED BY <1>1, <1>2, <1>3, <1>4, <1>5 DEF Proceed

LEMMA EnqueueTurns ==
  ASSUME Known, Turns, NEW j \in Jobs, Enqueue(j)
  PROVE  Turns'
<1>0. UNCHANGED <<pc, job, marks>>
  BY DEF Enqueue, StorePayload, Schedule, EnqueueError, worker, ghosts
<1>1. inTurn' => inTurn
  <2>1. UNCHANGED inTurn \/ Place(j)
    BY DEF Enqueue, StorePayload, Schedule, EnqueueError, ghosts
  <2>2. QED BY <2>1 DEF Place
<1>2. ASSUME NEW w \in Workers, inTurn', Runs(w)'
      PROVE  AtHead(job[w])'
  <2>1. /\ job[w] \in Jobs /\ request[job[w]] \in {"accepted", "failed"}
    BY <1>0, <1>1, <1>2, HoldingHasJob DEF Runs, Known, JobKnown, TypeOK
  <2>2. data'[job[w]] = data[job[w]]
    BY <2>1 DEF Enqueue, StorePayload, Schedule, EnqueueError, Known, TypeOK
  <2>3. AtHead(job[w])
    BY <1>0, <1>1, <1>2, <2>2 DEF Runs, Turns, HeadRuns
  <2>4. CASE UNCHANGED ready
    BY <1>0, <2>3, <2>4 DEF AtHead
  <2>5. CASE Place(j)
    BY <1>0, <1>1, <1>2, <2>3, <2>5, PlaceLast DEF AtHead, Known
  <2>6. QED BY <2>4, <2>5 DEF Enqueue, StorePayload, Schedule, EnqueueError
<1>3. QED BY <1>0, <1>1, <1>2 DEF Turns, NoneLapsed, HeadRuns

LEMMA TimeTurns ==
  ASSUME Known, Turns, NEW j \in Jobs, Time(j)
  PROVE  Turns'
<1>1. CASE BecomeDue(j)
  <2>1. UNCHANGED <<pc, job, marks, inTurn, data>> /\ ready' = Append(ready, j)
    BY <1>1 DEF BecomeDue, worker, ghosts
  <2>2. ready # <<>> => ready' # <<>> /\ Head(ready') = Head(ready)
    BY <2>1, AppendHead DEF Known, TypeOK
  <2>3. QED BY <2>1, <2>2 DEF Turns, NoneLapsed, HeadRuns, Runs, AtHead
<1>2. CASE ExpireLease(j)
  BY <1>2 DEF ExpireLease, worker, ghosts, Turns, NoneLapsed, HeadRuns, Runs, AtHead
<1>3. CASE LeaseLapses(j)
  BY <1>3 DEF LeaseLapses, Turns, NoneLapsed, HeadRuns
<1>4. CASE ExpirePayload(j)
  <2>1. /\ UNCHANGED <<pc, job, ready, inTurn>>
        /\ \A k \in Jobs : data'[k] # None => data[k] # None
        /\ \A k \in Jobs : "lapsed" \in marks'[k] => "lapsed" \in marks[k]
    BY <1>4 DEF ExpirePayload, worker, Mark, Known, TypeOK
  <2>2. \A w \in Workers : Runs(w)' => Runs(w)
    BY <2>1, HoldingHasJob DEF Runs
  <2>3. QED BY <2>1, <2>2 DEF Turns, NoneLapsed, HeadRuns, AtHead
<1>5. QED BY <1>1, <1>2, <1>3, <1>4 DEF Time

LEMMA TurnsStep == Known /\ Leases /\ Turns /\ [Next]_vars => Turns'
<1> SUFFICES ASSUME Known, Leases, Turns, [Next]_vars PROVE Turns'
  OBVIOUS
<1>1. CASE UNCHANGED vars
  BY <1>1 DEF vars, store, worker, ghosts, Turns, NoneLapsed, HeadRuns, Runs, AtHead
<1>2. CASE Next
  BY <1>2, EnqueueTurns, TimeTurns, WorkerTurns, WorkerTurnRelation,
     ProceedRelation, HandleRelation, FaultRelation DEF Next
<1>3. QED BY <1>1, <1>2

\* As long as the queue keeps its order, only one job at a time is run.
LEMMA OneRunInTurn ==
  ASSUME Known, Leases, Turns, inTurn, NEW v \in Workers, NEW w \in Workers,
         pc[v] = "work", pc[w] = "work"
  PROVE  v = w
<1>1. job[v] = job[w] /\ job[v] \in Jobs
  BY HoldingHasJob DEF Turns, HeadRuns, Runs, AtHead
<1>2. "lapsed" \notin marks[job[v]]
  BY <1>1 DEF Turns, NoneLapsed
<1>3. QED BY <1>1, <1>2 DEF Leases, RunningAlone, At, Running, Holding

LEMMA TurnsInvariance == Spec => [](Known /\ Leases /\ Turns)
<1>1. Init => Known /\ Leases /\ Turns
  BY InitIInv DEF Init, IInv, Known, Leases, Turns, NoneLapsed, HeadRuns, Runs
<1>2. Known /\ Leases /\ Turns /\ [Next]_vars => (Known /\ Leases /\ Turns)'
  BY KnownStep, LeasesStep, TurnsStep
<1>3. QED BY <1>1, <1>2, PTL DEF Spec

\* claimNext: the first due id stays in the set while it is leased, so as long
\* as no lease lapses and no job is scheduled before one that is due, the
\* workers run one job at a time, of all jobs.
THEOREM OneJobAtATime ==
  Spec => [](inTurn => \A v, w \in Workers :
                          pc[v] = "work" /\ pc[w] = "work" => v = w)
<1>1. Known /\ Leases /\ Turns =>
        (inTurn => \A v, w \in Workers : pc[v] = "work" /\ pc[w] = "work" => v = w)
  BY OneRunInTurn
<1>2. QED BY TurnsInvariance, <1>1, PTL

----------------------------------------------------------------------------
(* The handler of the recompute *)

LEMMA HandlerImplements ==
  ASSUME NEW w \in Workers,
         Handler(w) \/ DatabaseError(w) \/ WorkerCrash(w)
  PROVE  [Next]_vars
<1>1. CASE FindGroup(w)
  BY <1>1 DEF FindGroup, Next, Handle
<1>2. CASE Query(w)
  BY <1>2 DEF Query
<1>3. CASE Upsert(w)
  BY <1>3 DEF Upsert, Next, Handle
<1>4. CASE DatabaseError(w)
  BY <1>4 DEF DatabaseError, Next, Handle
<1>5. CASE WorkerCrash(w)
  BY <1>5 DEF WorkerCrash, Next
<1>6. QED BY <1>1, <1>2, <1>3, <1>4, <1>5 DEF Handler

LEMMA StepImplements == [SummaryNext]_allVars => [Next]_vars
<1> SUFFICES ASSUME [SummaryNext]_allVars PROVE [Next]_vars
  OBVIOUS
<1>1. CASE UNCHANGED allVars
  BY <1>1 DEF allVars
<1>2. CASE QueueStep
  BY <1>2 DEF QueueStep, Next, Enqueue
<1>3. ASSUME NEW w \in Workers,
             Handler(w) \/ DatabaseError(w) \/ WorkerCrash(w)
      PROVE  [Next]_vars
  BY <1>3, HandlerImplements
<1>4. ASSUME NEW j \in Jobs, Request(j)
      PROVE  [Next]_vars
  BY <1>4 DEF Request, Next, Enqueue
<1>5. CASE (\E m \in Metrics : Change(m)) \/ DeleteGroup
  BY <1>5 DEF Change, DeleteGroup
<1>6. QED BY <1>1, <1>2, <1>3, <1>4, <1>5 DEF SummaryNext

\* summary.jobs.ts under workerRunner.ts: with the recompute of summaries as
\* its handler, the queue behaves as JobQueue says.
THEOREM ImplementsQueue == SummarySpec => Spec
<1>1. SummaryInit => Init
  BY DEF SummaryInit
<1>2. QED BY <1>1, StepImplements, PTL DEF SummarySpec, Spec

\* summary.service.ts: a recompute that was accepted is in the queue until it
\* has been performed or given up, also while the group changes or is deleted.
THEOREM RecomputesAreKept == SummarySpec => []JobsNotLost
BY ImplementsQueue, JobsAreKept, PTL

----------------------------------------------------------------------------
(* The summary *)

BookType ==
  /\ alive \in BOOLEAN
  /\ book \in [Metrics -> Nat]
  /\ summary \in [Metrics -> Nat] \cup {None}
  /\ read \in [Workers -> [Metrics -> Nat \cup {None}]]
  /\ asked \in [Jobs -> [Metrics -> Nat]]

\* f is not ahead of g.
UpTo(f, g) == \A m \in Metrics : f[m] <= g[m]

\* What was asked for and what was stored is of the past.
Past ==
  /\ \A j \in Jobs : UpTo(asked[j], book)
  /\ summary # None => UpTo(summary, book)

\* What a run has read is no older than its request and, as long as the queue
\* keeps its order, than the row: nobody else wrote it since the run began.
ReadOf(w, m) ==
  /\ pc[w] = "work" /\ step[w] = "query"
  /\ asked[job[w]][m] <= read[w][m] /\ read[w][m] <= book[m]
  /\ inTurn /\ summary # None => summary[m] <= read[w][m]
ReadsAreOfTheRun ==
  \A w \in Workers, m \in Metrics : read[w][m] # None => ReadOf(w, m)

Summaries == BookType /\ Past /\ ReadsAreOfTheRun /\ PerformedMeansSummarised
SummaryInv == Known /\ Leases /\ Turns /\ Summaries

\* The queue, an error and a crash do not mark a job as performed.
LEMMA PerformedOnlyByRun ==
  ASSUME Known, NEW w \in Workers,
         Proceed(w) \/ RedisError(w) \/ Crash(w) \/ Stop(w) \/ HandlerFails(w)
  PROVE  \A j \in Jobs : "performed" \in marks'[j] => "performed" \in marks[j]
<1>0. pc[w] \notin {"idle", "stopped"} => job[w] \in Jobs
  BY HoldingHasJob
<1>1. marks \in [Jobs -> SUBSET Marks]
  BY DEF Known, TypeOK
<1>2. \/ UNCHANGED marks
      \/ \E m \in {"completed", "exhausted"} :
           Mark(job[w], m) /\ pc[w] \notin {"idle", "stopped"}
  <2>1. CASE Proceed(w)
    BY <2>1 DEF Proceed, Poll, Busy, Succeed, ReadEnvelope, Reload, ghosts
  <2>2. CASE RedisError(w)
    BY <2>2, FailedEffect DEF RedisError
  <2>3. CASE Crash(w) \/ Stop(w)
    BY <2>3 DEF Crash, Stop, ghosts
  <2>4. CASE HandlerFails(w)
    BY <2>4, FailedEffect DEF HandlerFails
  <2>5. QED BY <2>1, <2>2, <2>3, <2>4
<1>3. QED BY <1>0, <1>1, <1>2 DEF Mark

\* Steps that leave the metrics, the row and what was asked for alone.
LEMMA GroupUntouched ==
  ASSUME SummaryInv, UNCHANGED <<group, handler, asked>>,
         inTurn' => inTurn,
         \A w \in Workers : pc[w] = "work" => pc'[w] = "work" /\ job'[w] = job[w],
         \A j \in Jobs : "performed" \in marks'[j] => "performed" \in marks[j]
  PROVE  Summaries'
<1> USE DEF SummaryInv, Summaries, group, handler
<1>1. BookType'
  BY DEF BookType
<1>2. Past'
  BY DEF Past, UpTo
<1>3. ReadsAreOfTheRun'
  BY DEF ReadsAreOfTheRun, ReadOf
<1>4. PerformedMeansSummarised'
  BY DEF PerformedMeansSummarised
<1>5. QED BY <1>1, <1>2, <1>3, <1>4

\* A run ends, and what it has read is forgotten.
LEMMA RunEnds ==
  ASSUME SummaryInv, NEW w \in Workers, Leave(w), OnlyWorker(w),
         inTurn' => inTurn, UNCHANGED <<alive, book, summary, asked>>,
         \A j \in Jobs : "performed" \in marks'[j] => "performed" \in marks[j]
  PROVE  Summaries'
<1> USE DEF SummaryInv, Summaries
<1>0. /\ \A v \in Workers : v # w => read'[v] = read[v] /\ step'[v] = step[v]
      /\ read'[w] = Unread
  BY DEF BookType, Leave
<1>1. BookType'
  BY DEF BookType, Leave, Unread
<1>2. Past'
  BY DEF Past, UpTo
<1>3. ReadsAreOfTheRun'
  BY <1>0 DEF ReadsAreOfTheRun, ReadOf, Unread, OnlyWorker
<1>4. PerformedMeansSummarised'
  BY DEF PerformedMeansSummarised
<1>5. QED BY <1>1, <1>2, <1>3, <1>4

\* A run stores what it has read.
LEMMA RunStores ==
  ASSUME SummaryInv, NEW w \in Workers, Leave(w), OnlyWorker(w), pc[w] = "work",
         inTurn' => inTurn, UNCHANGED <<alive, book, asked>>,
         AllRead(w), summary' = read[w],
         \A j \in Jobs :
           "performed" \in marks'[j] => "performed" \in marks[j] \/ j = job[w]
  PROVE  Summaries'
<1> USE DEF SummaryInv, Summaries
<1>0. /\ \A v \in Workers : v # w => read'[v] = read[v] /\ step'[v] = step[v]
      /\ read'[w] = Unread
      /\ summary' \in [Metrics -> Nat]
      /\ \A m \in Metrics : ReadOf(w, m)
      /\ job[w] \in Jobs
  BY HoldingHasJob DEF BookType, Leave, AllRead, ReadsAreOfTheRun
<1>1. BookType'
  BY <1>0 DEF BookType, Leave, Unread
<1>2. Past'
  BY <1>0 DEF Past, UpTo, ReadOf
<1>3. ReadsAreOfTheRun'
  <2> SUFFICES ASSUME NEW v \in Workers, NEW m \in Metrics, read'[v][m] # None
               PROVE  ReadOf(v, m)'
    BY DEF ReadsAreOfTheRun
  <2>1. v # w /\ read'[v] = read[v] /\ step'[v] = step[v] /\ ReadOf(v, m)
    BY <1>0 DEF Unread, ReadsAreOfTheRun
  <2>2. pc[v] = "work" /\ pc'[v] = pc[v] /\ job'[v] = job[v]
    BY <2>1 DEF ReadOf, OnlyWorker
  <2>3. ~inTurn'
    BY <2>1, <2>2, OneRunInTurn
  <2>4. QED BY <2>1, <2>2, <2>3 DEF ReadOf
<1>4. PerformedMeansSummarised'
  <2> SUFFICES ASSUME NEW j \in Jobs, inTurn', alive', "performed" \in marks'[j]
               PROVE  summary' # None /\ \A m \in Metrics : summary'[m] >= asked'[j][m]
    BY DEF PerformedMeansSummarised
  <2>1. summary' # None
    BY <1>0, SummaryAssumption
  <2>2. ASSUME NEW m \in Metrics
        PROVE  summary'[m] >= asked[j][m]
    <3>1. /\ summary'[m] \in Nat /\ asked[j][m] \in Nat /\ asked[job[w]][m] \in Nat
          /\ summary'[m] = read[w][m] /\ ReadOf(w, m)
      BY <1>0 DEF BookType
    <3>2. CASE j = job[w]
      BY <3>1, <3>2 DEF ReadOf
    <3>3. CASE "performed" \in marks[j]
      <4>1. summary # None /\ summary[m] >= asked[j][m]
        BY <3>3 DEF PerformedMeansSummarised
      <4>2. summary[m] \in Nat /\ summary[m] <= read[w][m]
        BY <3>1, <4>1 DEF BookType, ReadOf
      <4>3. QED BY <3>1, <4>1, <4>2
    <3>4. QED BY <3>2, <3>3
  <2>3. QED BY <2>1, <2>2
<1>5. QED BY <1>1, <1>2, <1>3, <1>4

\* The queue's part of a step.
LEMMA QueueInTurn ==
  ASSUME SummaryInv, [Next]_vars
  PROVE  (Known /\ Leases /\ Turns)'
BY KnownStep, LeasesStep, TurnsStep DEF SummaryInv

LEMMA QueueStepKeeps ==
  ASSUME SummaryInv, QueueStep
  PROVE  Summaries'
<1> USE DEF SummaryInv, Summaries
<1>1. UNCHANGED <<group, handler, asked>>
  BY DEF QueueStep
<1>2. ASSUME NEW j \in Jobs, Schedule(j) \/ EnqueueError(j) \/ Time(j)
      PROVE  Summaries'
  <2>1. UNCHANGED <<pc, job>>
    BY <1>2 DEF Schedule, EnqueueError, Time, BecomeDue, ExpireLease,
                LeaseLapses, ExpirePayload, worker
  <2>2. inTurn' => inTurn
    <3>1. UNCHANGED inTurn \/ Place(j) \/ ~inTurn'
      BY <1>2 DEF Schedule, EnqueueError, Time, BecomeDue, ExpireLease,
                  LeaseLapses, ExpirePayload, ghosts
    <3>2. QED BY <3>1 DEF Place
  <2>3. \A k \in Jobs : "performed" \in marks'[k] => "performed" \in marks[k]
    <3>1. UNCHANGED marks \/ Mark(j, "lapsed") \/ Mark(j, "expired")
      BY <1>2 DEF Schedule, EnqueueError, Time, BecomeDue, ExpireLease,
                  LeaseLapses, ExpirePayload, ghosts
    <3>2. marks \in [Jobs -> SUBSET Marks]
      BY DEF Known, TypeOK
    <3>3. QED BY <3>1, <3>2 DEF Mark
  <2>4. QED BY <1>1, <2>1, <2>2, <2>3, GroupUntouched
<1>3. ASSUME NEW w \in Workers, Proceed(w) \/ RedisError(w) \/ Stop(w)
      PROVE  Summaries'
  <2>1. OnlyWorker(w) /\ TurnRelation(w)
    BY <1>3, ProceedRelation, FaultRelation, WorkerTurnRelation DEF WorkerRelation
  <2>2. pc[w] # "work"
    BY <1>3 DEF Proceed, Poll, Busy, Succeed, Command, ReadEnvelope, Reload,
                RedisError, Stop
  <2>3. \A v \in Workers : pc[v] = "work" => pc'[v] = "work" /\ job'[v] = job[v]
    BY <2>1, <2>2 DEF OnlyWorker
  <2>4. QED BY <1>1, <1>3, <2>1, <2>3, PerformedOnlyByRun, GroupUntouched DEF TurnRelation
<1>4. QED BY <1>2, <1>3 DEF QueueStep

LEMMA HandlerKeeps ==
  ASSUME SummaryInv, NEW w \in Workers,
         Handler(w) \/ DatabaseError(w) \/ WorkerCrash(w)
  PROVE  Summaries'
<1> USE DEF SummaryInv, Summaries
<1>1. CASE FindGroup(w) /\ UNCHANGED vars
  <2>1. /\ pc[w] = "work" /\ step[w] = "find" /\ UNCHANGED <<group, read, asked>>
        /\ step' = [step EXCEPT ![w] = "query"]
    BY <1>1 DEF FindGroup, Impossible, vars, worker, Goto, Known, TypeOK
  <2>2. UNCHANGED <<pc, job, marks, inTurn>>
    BY <1>1 DEF vars, worker, ghosts
  <2>3. BookType'
    BY <2>1 DEF BookType, group
  <2>4. Past' /\ PerformedMeansSummarised'
    BY <2>1, <2>2 DEF Past, UpTo, group, PerformedMeansSummarised
  <2>5. ReadsAreOfTheRun'
    BY <2>1, <2>2 DEF ReadsAreOfTheRun, ReadOf, group
  <2>6. QED BY <2>3, <2>4, <2>5
<1>2. CASE FindGroup(w) /\ ~alive
  <2>1. /\ pc[w] = "work" /\ step[w] = "find" /\ Impossible(w)
        /\ UNCHANGED <<group, handler, asked, inTurn>> /\ ~alive
    BY <1>2 DEF FindGroup, Impossible
  <2>2. OnlyWorker(w)
    BY <2>1, HandleRelation DEF Handle, WorkerRelation
  <2>3. \A m \in Metrics : read[w][m] = None
    BY <2>1 DEF ReadsAreOfTheRun, ReadOf
  <2>4. BookType'
    BY <2>1 DEF BookType, group, handler
  <2>5. Past' /\ PerformedMeansSummarised'
    BY <2>1 DEF Past, UpTo, group, PerformedMeansSummarised
  <2>6. ReadsAreOfTheRun'
    BY <2>1, <2>2, <2>3 DEF ReadsAreOfTheRun, ReadOf, group, handler, OnlyWorker
  <2>7. QED BY <2>4, <2>5, <2>6
<1>3. CASE Query(w)
  <2>1. PICK m \in Metrics : read' = [read EXCEPT ![w][m] = book[m]]
    BY <1>3 DEF Query
  <2>2. /\ pc[w] = "work" /\ step[w] = "query" /\ job[w] \in Jobs
        /\ UNCHANGED <<vars, group, step, asked>>
    BY <1>3, HoldingHasJob DEF Query
  <2>3. UNCHANGED <<pc, job, marks, inTurn>>
    BY <2>2 DEF vars, worker, ghosts
  <2>4. BookType'
    <3>1. book[m] \in Nat
      BY DEF BookType
    <3>2. read' \in [Workers -> [Metrics -> Nat \cup {None}]]
      BY <2>1, <3>1 DEF BookType
    <3>3. QED BY <2>2, <3>2 DEF BookType, group
  <2>5. Past' /\ PerformedMeansSummarised'
    BY <2>2, <2>3 DEF Past, UpTo, group, PerformedMeansSummarised
  <2>6. ReadsAreOfTheRun'
    <3> SUFFICES ASSUME NEW v \in Workers, NEW k \in Metrics, read'[v][k] # None
                 PROVE  ReadOf(v, k)'
      BY DEF ReadsAreOfTheRun
    <3>1. CASE v = w /\ k = m
      <4>1. read'[w][m] = book[m]
        BY <2>1 DEF BookType
      <4>2. book[m] \in Nat /\ asked[job[w]][m] <= book[m]
        BY <2>2 DEF BookType, Past, UpTo
      <4>3. summary # None => summary[m] <= book[m]
        BY DEF Past, UpTo
      <4>4. QED BY <2>2, <2>3, <3>1, <4>1, <4>2, <4>3 DEF ReadOf, group
    <3>2. CASE ~(v = w /\ k = m)
      <4>1. read'[v][k] = read[v][k]
        BY <2>1, <3>2 DEF BookType
      <4>2. QED BY <2>2, <2>3, <4>1 DEF ReadsAreOfTheRun, ReadOf, group
    <3>3. QED BY <3>1, <3>2
  <2>7. QED BY <2>4, <2>5, <2>6
<1>4. CASE Upsert(w)
  <2>1. /\ step[w] = "query" /\ AllRead(w) /\ Leave(w)
        /\ UNCHANGED <<alive, book, asked>>
    BY <1>4 DEF Upsert
  <2>2. CASE alive
    <3>1. summary' = read[w] /\ Performed(w)
      BY <1>4, <2>2 DEF Upsert
    <3>2. OnlyWorker(w) /\ pc[w] = "work" /\ UNCHANGED inTurn /\ job[w] \in Jobs
      BY <3>1, HandleRelation, HoldingHasJob DEF Handle, WorkerRelation, Performed
    <3>3. \A j \in Jobs :
            "performed" \in marks'[j] => "performed" \in marks[j] \/ j = job[w]
      BY <3>1, <3>2 DEF Performed, Mark, Known, TypeOK
    <3>4. QED BY <2>1, <3>1, <3>2, <3>3, RunStores
  <2>3. CASE ~alive
    <3>1. HandlerFails(w) /\ UNCHANGED summary
      BY <1>4, <2>3 DEF Upsert
    <3>2. OnlyWorker(w) /\ UNCHANGED inTurn
      BY <3>1, HandleRelation DEF Handle, WorkerRelation, HandlerFails
    <3>3. QED BY <2>1, <3>1, <3>2, PerformedOnlyByRun, RunEnds
  <2>4. QED BY <2>2, <2>3
<1>5. CASE DatabaseError(w)
  <2>1. /\ HandlerFails(w) /\ Leave(w) /\ UNCHANGED <<alive, book, asked>>
        /\ pc[w] = "work" /\ UNCHANGED inTurn
    BY <1>5 DEF DatabaseError, HandlerFails
  <2>2. OnlyWorker(w)
    BY <2>1, HandleRelation DEF Handle, WorkerRelation
  <2>3. \A j \in Jobs : "performed" \in marks'[j] => "performed" \in marks[j]
    BY <2>1, PerformedOnlyByRun
  <2>4. CASE UNCHANGED summary
    BY <2>1, <2>2, <2>3, <2>4, RunEnds
  <2>5. CASE AllRead(w) /\ summary' = read[w]
    BY <2>1, <2>2, <2>3, <2>5, RunStores
  <2>6. QED BY <1>5, <2>4, <2>5 DEF DatabaseError
<1>6. CASE WorkerCrash(w)
  <2>1. /\ Crash(w) /\ Leave(w) /\ UNCHANGED <<alive, book, summary, asked>>
        /\ UNCHANGED inTurn
    BY <1>6 DEF WorkerCrash, Crash, group, ghosts
  <2>2. OnlyWorker(w)
    BY <2>1, FaultRelation DEF WorkerRelation
  <2>3. QED BY <2>1, <2>2, PerformedOnlyByRun, RunEnds
<1>7. FindGroup(w) => UNCHANGED vars \/ ~alive
  BY DEF FindGroup
<1>8. QED BY <1>1, <1>2, <1>3, <1>4, <1>5, <1>6, <1>7 DEF Handler

LEMMA RequestKeeps ==
  ASSUME SummaryInv, NEW j \in Jobs, Request(j)
  PROVE  Summaries'
<1> USE DEF SummaryInv, Summaries
<1>1. /\ asked' = [asked EXCEPT ![j] = book]
      /\ UNCHANGED <<alive, book, summary, step, read, pc, job, marks, inTurn>>
      /\ request[j] = "new"
  BY DEF Request, StorePayload, group, handler, worker, ghosts
<1>2. marks[j] = {} /\ \A w \in Workers : pc[w] = "work" => job[w] \in Jobs \ {j}
  BY <1>1, HoldingHasJob, QueueAssumption DEF Known, JobKnown
<1>3. BookType'
  BY <1>1 DEF BookType
<1>4. Past'
  <2>1. UpTo(book, book)
    BY DEF BookType, UpTo
  <2>2. QED BY <1>1, <2>1 DEF BookType, Past, UpTo
<1>5. ReadsAreOfTheRun'
  BY <1>1, <1>2 DEF BookType, ReadsAreOfTheRun, ReadOf
<1>6. PerformedMeansSummarised'
  BY <1>1, <1>2 DEF BookType, PerformedMeansSummarised
<1>7. QED BY <1>3, <1>4, <1>5, <1>6

LEMMA ChangeKeeps ==
  ASSUME SummaryInv, NEW m \in Metrics, Change(m)
  PROVE  Summaries'
<1> USE DEF SummaryInv, Summaries
<1>1. /\ book' = [book EXCEPT ![m] = @ + 1]
      /\ UNCHANGED <<vars, alive, summary, step, read, asked>>
  BY DEF Change, handler
<1>2. UNCHANGED <<pc, job, marks, inTurn>>
  BY <1>1 DEF vars, worker, ghosts
<1>3. BookType'
  BY <1>1 DEF BookType
<1>4. \A k \in Metrics : book[k] \in Nat /\ book'[k] \in Nat /\ book[k] <= book'[k]
  BY <1>1 DEF BookType
<1>5. Past'
  <2>1. ASSUME NEW j \in Jobs, NEW k \in Metrics
        PROVE  asked[j][k] <= book'[k]
    <3>1. asked[j][k] \in Nat /\ asked[j][k] <= book[k]
      BY DEF BookType, Past, UpTo
    <3>2. QED BY <1>4, <3>1
  <2>2. ASSUME NEW k \in Metrics, summary # None
        PROVE  summary[k] <= book'[k]
    <3>1. summary[k] \in Nat /\ summary[k] <= book[k]
      BY <2>2 DEF BookType, Past, UpTo
    <3>2. QED BY <1>4, <3>1
  <2>3. QED BY <1>1, <2>1, <2>2 DEF Past, UpTo
<1>6. ReadsAreOfTheRun'
  <2> SUFFICES ASSUME NEW w \in Workers, NEW k \in Metrics, read'[w][k] # None
               PROVE  ReadOf(w, k)'
    BY DEF ReadsAreOfTheRun
  <2>1. ReadOf(w, k) /\ read[w][k] \in Nat
    BY <1>1 DEF ReadsAreOfTheRun, BookType
  <2>2. read[w][k] <= book'[k]
    BY <1>4, <2>1 DEF ReadOf
  <2>3. QED BY <1>1, <1>2, <2>1, <2>2 DEF ReadOf
<1>7. PerformedMeansSummarised'
  BY <1>1, <1>2 DEF PerformedMeansSummarised
<1>8. QED BY <1>3, <1>5, <1>6, <1>7

LEMMA DeleteKeeps ==
  ASSUME SummaryInv, DeleteGroup
  PROVE  Summaries'
<1> USE DEF SummaryInv, Summaries
<1>1. /\ ~alive' /\ alive' \in BOOLEAN /\ summary' = None
      /\ UNCHANGED <<vars, book, step, read, asked>>
  BY DEF DeleteGroup, handler
<1>2. UNCHANGED <<pc, job, marks, inTurn>>
  BY <1>1 DEF vars, worker, ghosts
<1>3. BookType' /\ Past' /\ PerformedMeansSummarised'
  BY <1>1 DEF BookType, Past, UpTo, PerformedMeansSummarised
<1>4. ReadsAreOfTheRun'
  BY <1>1, <1>2 DEF ReadsAreOfTheRun, ReadOf
<1>5. QED BY <1>3, <1>4

LEMMA SummaryInvStep == SummaryInv /\ [SummaryNext]_allVars => SummaryInv'
<1> SUFFICES ASSUME SummaryInv, [SummaryNext]_allVars PROVE SummaryInv'
  OBVIOUS
<1>1. (Known /\ Leases /\ Turns)'
  BY QueueInTurn, StepImplements
<1>2. Summaries'
  <2>1. CASE UNCHANGED allVars
    <3>1. UNCHANGED <<group, handler, asked, pc, job, marks, inTurn>>
      BY <2>1 DEF allVars, vars, worker, ghosts
    <3>2. QED BY <3>1, GroupUntouched
  <2>2. CASE SummaryNext
    BY <2>2, QueueStepKeeps, HandlerKeeps, RequestKeeps, ChangeKeeps, DeleteKeeps
       DEF SummaryNext
  <2>3. QED BY <2>1, <2>2
<1>3. QED BY <1>1, <1>2 DEF SummaryInv, Summaries

LEMMA InitSummaryInv == SummaryInit => SummaryInv
<1> SUFFICES ASSUME SummaryInit PROVE SummaryInv
  OBVIOUS
<1>1. Known /\ Leases
  BY InitIInv DEF SummaryInit, IInv, Known, Leases
<1>2. Turns
  BY DEF SummaryInit, Init, Turns, NoneLapsed, HeadRuns, Runs
<1>3. BookType
  BY DEF SummaryInit, BookType, Unread
<1>4. Past
  BY DEF SummaryInit, Past, UpTo
<1>5. ReadsAreOfTheRun
  BY DEF SummaryInit, ReadsAreOfTheRun, Unread
<1>6. PerformedMeansSummarised
  BY DEF SummaryInit, Init, PerformedMeansSummarised
<1>7. QED BY <1>1, <1>2, <1>3, <1>4, <1>5, <1>6 DEF SummaryInv, Summaries

\* No step of the queue, of a recompute, of a request or of a change to the
\* group leaves the inductive invariant of the summaries.
THEOREM SummaryInvariance == SummarySpec => []SummaryInv
BY InitSummaryInv, SummaryInvStep, PTL DEF SummarySpec

\* summary.service.ts: a recompute that has been performed shows in the row of
\* its group, for any number of requests, workers, retries and changes, as long
\* as the queue keeps its order.
THEOREM PerformedIsSummarised == SummarySpec => []PerformedMeansSummarised
<1>1. SummaryInv => PerformedMeansSummarised
  BY DEF SummaryInv, Summaries
<1>2. QED BY SummaryInvariance, <1>1, PTL

\* upsertSummary: no run that was claimed in its turn overwrites a newer row.
THEOREM SummaryMovesOn == SummarySpec => SummaryNeverGoesBack
<1>1. SummaryInv /\ [SummaryNext]_allVars =>
        [(inTurn /\ summary # None /\ summary' # None) =>
           \A m \in Metrics : summary'[m] >= summary[m]]_allVars
  <2> SUFFICES ASSUME SummaryInv, SummaryNext, inTurn, summary # None,
                      summary' # None, NEW m \in Metrics
               PROVE  summary'[m] >= summary[m]
    OBVIOUS
  <2> USE DEF SummaryInv, Summaries
  <2>1. summary[m] \in Nat
    BY DEF BookType
  <2>2. \/ UNCHANGED summary
        \/ summary' = None
        \/ \E w \in Workers : AllRead(w) /\ summary' = read[w]
    BY DEF SummaryNext, QueueStep, Handler, FindGroup, Query, Upsert,
           DatabaseError, WorkerCrash, Request, Change, DeleteGroup, group
  <2>3. ASSUME NEW w \in Workers, AllRead(w), summary' = read[w]
        PROVE  summary'[m] >= summary[m]
    <3>1. read[w][m] \in Nat /\ ReadOf(w, m)
      BY <2>3 DEF AllRead, BookType, ReadsAreOfTheRun
    <3>2. QED BY <2>1, <2>3, <3>1 DEF ReadOf
  <2>4. QED BY <2>1, <2>2, <2>3
<1>2. QED BY SummaryInvariance, <1>1, PTL DEF SummarySpec, SummaryNeverGoesBack
=============================================================================
