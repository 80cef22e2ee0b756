---------------------------- MODULE GroupSummary ----------------------------
(***************************************************************************)
(* The work of the job queue: modules/summary recomputes the summary row   *)
(* of a group from its expenses, settlements and members, while the group  *)
(* changes.  A metric stands for the state of one kind of record; its      *)
(* value counts the writes that changed it.  The steps of the handler      *)
(* refine the handler steps of JobQueue.                                   *)
(***************************************************************************)
EXTENDS JobQueue

CONSTANTS
  Metrics,    \* what the summary is computed from, one query each
  MaxWrites   \* bound: committed changes of the group

ASSUME SummaryAssumption ==
  /\ MaxWrites \in Nat
  /\ None \notin Metrics \cup [Metrics -> Nat]

VARIABLES
  alive,    \* whether the group exists
  book,     \* its present metrics
  summary,  \* the row of GroupSummary: None, or the metrics it was computed from
  step,     \* of the handler a worker runs: "find", "query"
  read,     \* the metrics it has queried
  asked     \* ghost: the metrics when the recompute was requested

group == <<alive, book, summary>>
handler == <<step, read>>
allVars == <<vars, group, handler, asked>>

Unread == [m \in Metrics |-> None]

SummaryInit ==
  /\ Init
  /\ alive = TRUE
  /\ book = [m \in Metrics |-> 0]
  /\ summary = None
  /\ step = [w \in Workers |-> "find"]
  /\ read = [w \in Workers |-> Unread]
  /\ asked = [j \in Jobs |-> book]

----------------------------------------------------------------------------
\* recomputeGroupSummary, run by a worker.

\* Mutant: the metrics stay in memory for the next job.
LeaveMetrics(w) ==
  /\ step' = [step EXCEPT ![w] = "find"]
  /\ UNCHANGED read

\* A handler ends and forgets what it has read.
Leave(w) ==
  /\ step' = [step EXCEPT ![w] = "find"]
  /\ read' = [read EXCEPT ![w] = Unread]

\* findGroupById; a job for a group that is gone can never succeed.
FindGroup(w) ==
  /\ step[w] = "find"
  /\ \/ /\ alive
        /\ pc[w] = "work"
        /\ step' = [step EXCEPT ![w] = "query"]
        /\ UNCHANGED <<vars, read>>
     \/ ~alive /\ Impossible(w) /\ UNCHANGED handler
  /\ UNCHANGED <<group, asked>>

\* aggregateGroup: queries of their own, in no transaction and no order.
Query(w) ==
  /\ pc[w] = "work"
  /\ step[w] = "query"
  /\ \E m \in Metrics :
       /\ read[w][m] = None
       /\ read' = [read EXCEPT ![w][m] = book[m]]
  /\ UNCHANGED <<vars, group, step, asked>>

AllRead(w) == \A m \in Metrics : read[w][m] # None

\* upsertSummary, which fails without the group it refers to.
Upsert(w) ==
  /\ step[w] = "query"
  /\ AllRead(w)
  /\ \/ alive /\ summary' = read[w] /\ Performed(w)
     \/ ~alive /\ HandlerFails(w) /\ UNCHANGED <<faults, summary>>
  /\ Leave(w)
  /\ UNCHANGED <<alive, book, asked>>

\* A database error in any of these; an upsert may have been committed.
DatabaseError(w) ==
  /\ HandlerFails(w) /\ Fault
  /\ \/ UNCHANGED summary
     \/ alive /\ step[w] = "query" /\ AllRead(w) /\ summary' = read[w]
  /\ Leave(w)
  /\ UNCHANGED <<alive, book, asked>>

----------------------------------------------------------------------------
\* The rest of the program.

\* POST /groups/{id}/summary: a member asks; the group is looked up first.
Request(j) ==
  /\ alive
  /\ StorePayload(j)
  /\ asked' = [asked EXCEPT ![j] = book]
  /\ UNCHANGED <<group, handler>>

\* An expense, a settlement or a membership is committed.
Change(m) ==
  /\ alive
  /\ book[m] < MaxWrites
  /\ book' = [book EXCEPT ![m] = @ + 1]
  /\ UNCHANGED <<vars, alive, summary, handler, asked>>

\* deleteGroup; the summary row goes with the group.
DeleteGroup ==
  /\ alive
  /\ alive' = FALSE
  /\ summary' = None
  /\ UNCHANGED <<vars, book, handler, asked>>

\* The queue goes on.
QueueStep ==
  /\ \/ \E j \in Jobs : Schedule(j) \/ EnqueueError(j) \/ Time(j)
     \/ \E w \in Workers : Proceed(w) \/ RedisError(w) \/ Stop(w)
  /\ UNCHANGED <<group, handler, asked>>

WorkerCrash(w) == Crash(w) /\ Leave(w) /\ UNCHANGED <<group, asked>>

Handler(w) == FindGroup(w) \/ Query(w) \/ Upsert(w)

SummaryNext ==
  \/ QueueStep
  \/ \E w \in Workers : Handler(w) \/ DatabaseError(w) \/ WorkerCrash(w)
  \/ \E j \in Jobs : Request(j)
  \/ \E m \in Metrics : Change(m)
  \/ DeleteGroup

SummarySpec == SummaryInit /\ [][SummaryNext]_allVars

\* Running workers go on, and Redis lets time pass.  No fairness for
\* requests, changes and faults.
Fairness ==
  /\ \A w \in Workers :
       /\ WF_allVars(Proceed(w) /\ UNCHANGED <<group, handler, asked>>)
       /\ WF_allVars(Handler(w))
  /\ \A j \in Jobs :
       /\ WF_allVars(BecomeDue(j) /\ UNCHANGED <<group, handler, asked>>)
       /\ WF_allVars(ExpireLease(j) /\ UNCHANGED <<group, handler, asked>>)
       /\ WF_allVars(Schedule(j) /\ UNCHANGED <<group, handler, asked>>)

FairSummarySpec == SummarySpec /\ Fairness

----------------------------------------------------------------------------
(* Properties *)

\* Once a requested recompute has been performed, the summary covers all that
\* was recorded before the request, also after later recomputes: nothing but
\* the order of the queue keeps two of them from overlapping.
PerformedMeansSummarised ==
  \A j \in Jobs :
    (inTurn /\ alive /\ "performed" \in marks[j]) =>
      summary # None /\ \A m \in Metrics : summary[m] >= asked[j][m]

\* The same as a step: a recompute that was claimed in its turn never
\* overwrites a newer summary with an older one.
SummaryNeverGoesBack ==
  [][(inTurn /\ summary # None /\ summary' # None) =>
       \A m \in Metrics : summary'[m] >= summary[m]]_allVars
=============================================================================
