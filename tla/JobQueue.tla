------------------------------ MODULE JobQueue ------------------------------
(***************************************************************************)
(* The background job queue (queues/jobQueue.ts) and the poll loop of its  *)
(* workers (queues/workerRunner.ts, worker.ts), for the one job type of    *)
(* the program.  Redis holds a sorted set of job ids, scored by the time   *)
(* of their next attempt, and per job a payload and an in-flight lease,    *)
(* each with a TTL.  One step of a worker is one Redis command: other      *)
(* workers, requests, errors and crashes interleave at every await.        *)
(*                                                                         *)
(* Time is abstract.  The sorted set is `ready', the ids that are due, in  *)
(* the order of their scores, and `delayed', the ids that are not due yet. *)
(***************************************************************************)
EXTENDS Integers, Sequences, SequencesExt

CONSTANTS
  Jobs,         \* job ids: randomUUID gives each enqueue a fresh one
  Workers,      \* worker processes (or one process before and after restarts)
  MaxAttempts,  \* JOB_QUEUE_MAX_ATTEMPTS
  MaxFaults,    \* bound: crashes, Redis errors and early expiries of a run
  None

ASSUME QueueAssumption ==
  /\ MaxAttempts \in Nat \ {0}
  /\ MaxFaults \in Nat
  /\ None \notin Workers \cup Jobs
  /\ None \notin Nat

VARIABLES
  ready,    \* due members of job:queue:{type}, lowest score first
  delayed,  \* members whose next attempt lies in the future
  data,     \* job:data:{id}: None, or the attempts its envelope counts
  lease,    \* job:inflight:{id}: None, or the worker that set it
  request,  \* of the enqueue of a job: "new", "stored", "accepted", "failed"
  pc,       \* what a worker awaits
  job,      \* the job id it works with, or None
  seen,     \* envelope.attempts, as it read it
  faults,   \* faults so far
  marks,    \* ghost: what has happened to a job
  failures, \* ghost: failed runs of a job
  inTurn    \* ghost: leases were taken on the head of the queue and kept,
            \* and no job was scheduled before one that was due

store == <<ready, delayed, data, lease>>
worker == <<pc, job, seen>>
ghosts == <<marks, failures, inTurn>>
vars == <<store, worker, request, faults, ghosts>>

Marks == {"performed", "completed", "permanent", "exhausted", "expired",
          "lapsed"}
Queued == ToSet(ready) \cup delayed

\* The pcs of a worker from its SET NX to the end of its try statement.
Holding == {"read", "work", "complete", "completeDel", "discard",
            "discardDel", "retry", "retrySet", "retryAdd", "retryFree", "drop"}
Stages == Holding \cup {"idle", "lease", "stopped"}

Init ==
  /\ ready = <<>> /\ delayed = {}
  /\ data = [j \in Jobs |-> None]
  /\ lease = [j \in Jobs |-> None]
  /\ request \in [Jobs -> {"new", "failed"}]  \* failed before they reach Redis
  /\ pc = [w \in Workers |-> "idle"]
  /\ job = [w \in Workers |-> None]
  /\ seen = [w \in Workers |-> 0]
  /\ faults \in 0..MaxFaults                 \* the rest may still happen
  /\ marks = [j \in Jobs |-> {}]
  /\ failures = [j \in Jobs |-> 0]
  /\ inTurn = TRUE

----------------------------------------------------------------------------
\* Effects of the Redis commands.

Without(s, j) ==
  IF j \in ToSet(s)
    THEN RemoveAt(s, CHOOSE i \in DOMAIN s : s[i] = j)
    ELSE s

\* Mutant: the claim takes the id out of the set.
PopAndLease(j, w) ==
  /\ lease[j] = None
  /\ lease' = [lease EXCEPT ![j] = w]
  /\ ready' = Without(ready, j)
  /\ UNCHANGED <<delayed, data>>

\* Mutant: SET without NX.
LeaseWithoutNX(j, w) ==
  /\ lease' = [lease EXCEPT ![j] = w]
  /\ UNCHANGED <<ready, delayed, data>>

\* SET NX PX of the lease; refused while the key exists.
TakeLease(j, w) ==
  /\ lease[j] = None
  /\ lease' = [lease EXCEPT ![j] = w]
  /\ UNCHANGED <<ready, delayed, data>>

\* ZREM
Unschedule(j) ==
  /\ ready' = Without(ready, j)
  /\ delayed' = delayed \ {j}
  /\ UNCHANGED <<data, lease>>

\* Mutant: the payload is left to its TTL.
DeleteLeaseOnly(j) ==
  /\ lease' = [lease EXCEPT ![j] = None]
  /\ UNCHANGED <<ready, delayed, data>>

\* DEL of the payload and of the lease, whoever set it.
Delete(j) ==
  /\ data' = [data EXCEPT ![j] = None]
  /\ lease' = [lease EXCEPT ![j] = None]
  /\ UNCHANGED <<ready, delayed>>

\* SET PX of the envelope with the new attempt count.
Rewrite(j, attempts) ==
  /\ data' = [data EXCEPT ![j] = attempts]
  /\ UNCHANGED <<ready, delayed, lease>>

\* ZADD at now + delay: a member keeps one place, the new one.
Delay(j) ==
  /\ ready' = Without(ready, j)
  /\ delayed' = delayed \cup {j}
  /\ UNCHANGED <<data, lease>>

\* DEL of the lease, whoever set it.
Free(j) ==
  /\ lease' = [lease EXCEPT ![j] = None]
  /\ UNCHANGED <<ready, delayed, data>>

\* The command a worker awaits, if it is one that writes.
Command(w) ==
  \/ pc[w] = "lease" /\ TakeLease(job[w], w)
  \/ pc[w] \in {"complete", "discard", "drop"} /\ Unschedule(job[w])
  \/ pc[w] \in {"completeDel", "discardDel"} /\ Delete(job[w])
  \/ pc[w] = "retrySet" /\ Rewrite(job[w], seen[w] + 1)
  \/ pc[w] = "retryAdd" /\ Delay(job[w])
  \/ pc[w] = "retryFree" /\ Free(job[w])

NextStage ==
  [lease |-> "read", complete |-> "completeDel", completeDel |-> "idle",
   discard |-> "discardDel", discardDel |-> "idle", drop |-> "retryFree",
   retrySet |-> "retryAdd", retryAdd |-> "retryFree", retryFree |-> "idle"]

\* processType goes on, or returns and forgets the job.
Goto(w, stage) ==
  /\ pc' = [pc EXCEPT ![w] = stage]
  /\ IF stage \in {"idle", "stopped"}
       THEN /\ job' = [job EXCEPT ![w] = None]
            /\ seen' = [seen EXCEPT ![w] = 0]
       ELSE UNCHANGED <<job, seen>>

Mark(j, m) == marks' = [marks EXCEPT ![j] = @ \cup {m}]
Fault == faults < MaxFaults /\ faults' = faults + 1

----------------------------------------------------------------------------
\* The API process: enqueue.

\* SET of the payload.
StorePayload(j) ==
  /\ request[j] = "new"
  /\ request' = [request EXCEPT ![j] = "stored"]
  /\ data' = [data EXCEPT ![j] = 0]
  /\ UNCHANGED <<ready, delayed, lease, worker, faults, ghosts>>

\* ZADD at Date.now(): the clocks of several hosts, and ids that share a
\* millisecond, may place a job before one that is due already.
Place(j) ==
  \E p \in 1..(Len(ready) + 1) :
    /\ ready' = InsertAt(ready, p, j)
    /\ inTurn' = (inTurn /\ p = Len(ready) + 1)

Schedule(j) ==
  /\ request[j] = "stored"
  /\ request' = [request EXCEPT ![j] = "accepted"]
  /\ Place(j)
  /\ UNCHANGED <<delayed, data, lease, worker, faults, marks, failures>>

\* A Redis error fails the request; the command may have been executed.
EnqueueError(j) ==
  /\ Fault
  /\ request[j] \in {"new", "stored"}
  /\ request' = [request EXCEPT ![j] = "failed"]
  /\ \/ UNCHANGED <<ready, data, inTurn>>
     \/ /\ request[j] = "new"
        /\ data' = [data EXCEPT ![j] = 0]
        /\ UNCHANGED <<ready, inTurn>>
     \/ request[j] = "stored" /\ Place(j) /\ UNCHANGED data
  /\ UNCHANGED <<delayed, lease, worker, marks, failures>>

----------------------------------------------------------------------------
\* A worker: claimNext and processType.

\* The claim script returns the first due id and leaves it in the set.
Poll(w) ==
  /\ pc[w] = "idle"
  /\ ready # <<>>
  /\ job' = [job EXCEPT ![w] = Head(ready)]
  /\ pc' = [pc EXCEPT ![w] = "lease"]
  /\ UNCHANGED <<store, seen, request, faults, ghosts>>

\* SET NX was refused: the job is busy, and with it the queue.
Busy(w) ==
  /\ pc[w] = "lease"
  /\ lease[job[w]] # None
  /\ Goto(w, "idle")
  /\ UNCHANGED <<store, request, faults, ghosts>>

\* A command that writes has succeeded.
Succeed(w) ==
  /\ Command(w)
  /\ Goto(w, NextStage[pc[w]])
  /\ IF pc[w] = "completeDel"
       THEN Mark(job[w], "completed")
       ELSE UNCHANGED marks
  /\ inTurn' = (inTurn /\ (pc[w] = "lease" => ready # <<>> /\ Head(ready) = job[w]))
  /\ UNCHANGED <<request, faults, failures>>

\* GET of the envelope; a missing one is discarded.
ReadEnvelope(w) ==
  /\ pc[w] = "read"
  /\ IF data[job[w]] = None
       THEN Goto(w, "discard")
       ELSE /\ pc' = [pc EXCEPT ![w] = "work"]
            /\ seen' = [seen EXCEPT ![w] = data[job[w]]]
            /\ UNCHANGED job
  /\ UNCHANGED <<store, request, faults, ghosts>>

\* Mutant: off by one, the last attempt is not made.
FailedEarly(w) ==
  /\ failures' = [failures EXCEPT ![job[w]] = @ + 1]
  /\ IF seen[w] + 2 >= MaxAttempts
       THEN Goto(w, "discard") /\ Mark(job[w], "exhausted")
       ELSE Goto(w, "retry") /\ UNCHANGED marks

\* The catch clause, for an error that is not a permanent one: the job is
\* discarded with its last attempt and tried again before.
Failed(w) ==
  /\ failures' = [failures EXCEPT ![job[w]] = @ + 1]
  /\ IF seen[w] + 1 >= MaxAttempts
       THEN Goto(w, "discard") /\ Mark(job[w], "exhausted")
       ELSE Goto(w, "retry") /\ UNCHANGED marks

\* The handler returns, finds that the job can never succeed, or fails.
Performed(w) ==
  /\ pc[w] = "work"
  /\ Goto(w, "complete")
  /\ Mark(job[w], "performed")
  /\ UNCHANGED <<store, request, faults, failures, inTurn>>

Impossible(w) ==
  /\ pc[w] = "work"
  /\ Goto(w, "discard")
  /\ Mark(job[w], "permanent")
  /\ UNCHANGED <<store, request, faults, failures, inTurn>>

HandlerFails(w) ==
  /\ pc[w] = "work"
  /\ Failed(w)
  /\ UNCHANGED faults \/ Fault
  /\ UNCHANGED <<store, request, inTurn>>

\* Mutant: the payload is written from memory.
ReloadFromMemory(w) ==
  /\ pc[w] = "retry"
  /\ Goto(w, "retrySet")
  /\ UNCHANGED <<store, request, faults, ghosts>>

\* retryAfterFailure reads the payload again and drops the job without one.
Reload(w) ==
  /\ pc[w] = "retry"
  /\ Goto(w, IF data[job[w]] = None THEN "drop" ELSE "retrySet")
  /\ UNCHANGED <<store, request, faults, ghosts>>

\* A Redis error, after which the command may have been executed or not.  In
\* complete it leads to the catch clause; elsewhere tick logs it.
RedisError(w) ==
  /\ Fault
  /\ pc[w] \in (Holding \ {"work"}) \cup {"lease"}
  /\ Command(w) \/ UNCHANGED store
  /\ IF pc[w] \in {"complete", "completeDel"}
       THEN Failed(w)
       ELSE Goto(w, "idle") /\ UNCHANGED <<marks, failures>>
  /\ inTurn' = (inTurn /\ (pc[w] = "lease" => ready # <<>> /\ Head(ready) = job[w]))
  /\ UNCHANGED request

\* The process dies and is started again.
Crash(w) ==
  /\ Fault
  /\ pc[w] \notin {"idle", "stopped"}
  /\ Goto(w, "idle")
  /\ UNCHANGED <<store, request, ghosts>>

\* stop() waits for the job in flight, not for claimNext, and the process
\* exits; another worker stays.
Stop(w) ==
  /\ pc[w] \in {"idle", "lease", "read"}
  /\ \E v \in Workers \ {w} : pc[v] # "stopped"
  /\ Goto(w, "stopped")
  /\ UNCHANGED <<store, request, faults, ghosts>>

----------------------------------------------------------------------------
\* Redis: time passes.

BecomeDue(j) ==
  /\ j \in delayed
  /\ delayed' = delayed \ {j}
  /\ ready' = Append(ready, j)
  /\ UNCHANGED <<data, lease, worker, request, faults, ghosts>>

Held(j) == \E w \in Workers : lease[j] = w /\ job[w] = j /\ pc[w] \in Holding

\* Mutant: SET NX without PX.
NeverExpireLease(j) == j \in Jobs /\ FALSE

\* The TTL of the lease of a worker that is gone ...
ExpireLease(j) ==
  /\ lease[j] # None
  /\ ~Held(j)
  /\ lease' = [lease EXCEPT ![j] = None]
  /\ UNCHANGED <<ready, delayed, data, worker, request, faults, ghosts>>

\* ... and of one that takes longer than JOB_QUEUE_LEASE_MS.
LeaseLapses(j) ==
  /\ Fault
  /\ Held(j)
  /\ lease' = [lease EXCEPT ![j] = None]
  /\ Mark(j, "lapsed")
  /\ inTurn' = FALSE
  /\ UNCHANGED <<ready, delayed, data, worker, request, failures>>

\* The TTL of a payload, shorter than the job took or waited.
ExpirePayload(j) ==
  /\ Fault
  /\ data[j] # None
  /\ data' = [data EXCEPT ![j] = None]
  /\ Mark(j, "expired")
  /\ UNCHANGED <<ready, delayed, lease, worker, request, failures, inTurn>>

----------------------------------------------------------------------------
Enqueue(j) == StorePayload(j) \/ Schedule(j) \/ EnqueueError(j)

\* What the worker does by itself, outside of the handler.
Proceed(w) == Poll(w) \/ Busy(w) \/ Succeed(w) \/ ReadEnvelope(w) \/ Reload(w)
Handle(w) == Performed(w) \/ Impossible(w) \/ HandlerFails(w)
Time(j) == BecomeDue(j) \/ ExpireLease(j) \/ LeaseLapses(j) \/ ExpirePayload(j)

Next ==
  \/ \E j \in Jobs : Enqueue(j) \/ Time(j)
  \/ \E w \in Workers :
       Proceed(w) \/ Handle(w) \/ RedisError(w) \/ Crash(w) \/ Stop(w)

Spec == Init /\ [][Next]_vars

----------------------------------------------------------------------------
(* Properties *)

TypeOK ==
  /\ ready \in Seq(Jobs)
  /\ delayed \subseteq Jobs
  /\ data \in [Jobs -> Nat \cup {None}]
  /\ lease \in [Jobs -> Workers \cup {None}]
  /\ request \in [Jobs -> {"new", "stored", "accepted", "failed"}]
  /\ pc \in [Workers -> Stages]
  /\ job \in [Workers -> Jobs \cup {None}]
  /\ seen \in [Workers -> Nat]
  /\ faults \in 0..MaxFaults
  /\ marks \in [Jobs -> SUBSET Marks]
  /\ failures \in [Jobs -> Nat]
  /\ inTurn \in BOOLEAN

\* A job whose request was accepted is in the queue until it has been
\* performed, found impossible, tried MaxAttempts times or outlived its
\* payload: neither a crash nor a Redis error on either side of a command,
\* nor two workers on one job, may lose it (enqueue, claimNext and
\* retryAfterFailure).
JobsNotLost ==
  \A j \in Jobs :
    request[j] = "accepted" =>
      \/ j \in Queued
      \/ marks[j] \cap {"performed", "permanent", "exhausted", "expired"} # {}

\* The in-flight lease: while no lease on a job has lapsed under its worker,
\* one worker at a time runs it, although complete, discard and
\* retryAfterFailure delete the lease without looking whose it is.
OneWorkerPerJob ==
  \A v, w \in Workers :
    v # w /\ pc[v] = "work" /\ pc[w] = "work" /\ job[v] = job[w] =>
      "lapsed" \in marks[job[w]]

\* processType gives a job up only when it has failed MaxAttempts times,
\* whichever workers counted the attempts.
GivenUpAfterAllAttempts ==
  \A j \in Jobs : "exhausted" \in marks[j] => failures[j] >= MaxAttempts

\* What complete says: a job it has acknowledged is never run again -- if no
\* lease of the job lapsed, for then the retry of the other worker may
\* schedule it anew.
CompletedStaysCompleted ==
  \A w \in Workers :
    pc[w] = "work" /\ "completed" \in marks[job[w]] =>
      "lapsed" \in marks[job[w]]

\* The inductive invariant.  A worker past the SET NX holds the lease, or the
\* payload is gone; one that runs the job or is about to write its payload
\* holds the lease, and then no other worker is past its SET NX.
Running == {"work", "complete", "completeDel", "retrySet", "retryAdd"}
At(w, stages) == pc[w] \in stages /\ "lapsed" \notin marks[job[w]]

LeaseOrNothing ==
  \A w \in Workers :
    At(w, Holding) => lease[job[w]] = w \/ data[job[w]] = None
RunningHasLease ==
  \A w \in Workers : At(w, Running) => lease[job[w]] = w
RunningAlone ==
  \A v, w \in Workers :
    At(v, Running) /\ pc[w] \in Holding /\ job[v] = job[w] => v = w

Settled(j) ==
  marks[j] \cap {"performed", "permanent", "exhausted", "expired"} # {}

JobKnown ==
  /\ \A w \in Workers : (job[w] = None) <=> (pc[w] \in {"idle", "stopped"})
  /\ \A w \in Workers : job[w] # None => request[job[w]] \in {"accepted", "failed"}
  /\ \A j \in Queued : request[j] \in {"accepted", "failed"}
  /\ \A j \in Jobs : request[j] = "new" => marks[j] = {} /\ data[j] = None

MissingIsSettled ==
  \A j \in Jobs :
    request[j] \in {"stored", "accepted"} /\ data[j] = None => Settled(j)
RemovedIsSettled ==
  /\ \A w \in Workers :
       pc[w] \in {"complete", "completeDel"} => "performed" \in marks[job[w]]
  /\ \A w \in Workers :
       (pc[w] \in {"discard", "discardDel", "drop"} /\ request[job[w]] = "accepted")
         => Settled(job[w])

AttemptsCounted ==
  /\ \A j \in Jobs : data[j] # None => data[j] <= failures[j]
  /\ \A w \in Workers :
       pc[w] \in {"work", "complete", "completeDel"} => seen[w] <= failures[job[w]]
  /\ \A w \in Workers :
       pc[w] \in {"retry", "retrySet"} => seen[w] < failures[job[w]]

CompletedIsGone ==
  \A j \in Jobs :
    "completed" \in marks[j] /\ "lapsed" \notin marks[j] =>
      data[j] = None /\ \A w \in Workers : pc[w] \in Running => job[w] # j

IInv ==
  /\ TypeOK /\ JobKnown
  /\ LeaseOrNothing /\ RunningHasLease /\ RunningAlone
  /\ JobsNotLost /\ MissingIsSettled /\ RemovedIsSettled
  /\ AttemptsCounted /\ GivenUpAfterAllAttempts /\ CompletedIsGone

\* A job that was accepted is at last out of the queue: no lease, no crash
\* and no job before it keeps it waiting for ever.
EveryJobLeaves ==
  \A j \in Jobs : (request[j] = "accepted") ~> (j \notin Queued)
=============================================================================
