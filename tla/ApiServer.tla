------------------------------ MODULE ApiServer ------------------------------
(***************************************************************************)
(* The processes of the API server: start and shutdown (server.ts), the    *)
(* middleware every request passes (app.ts), rate limiting in Redis or in  *)
(* memory (middleware/rateLimiter.ts, redis/rateLimitStore.ts), and the    *)
(* HTTP metrics of each process (metrics/httpMetrics.ts).                  *)
(*                                                                         *)
(* The requests are those of one client address: the counters of others    *)
(* are separate.  Middleware between two awaits is one step.  What a       *)
(* handler does is the subject of the other modules; here it takes its     *)
(* time and ends with a status.                                            *)
(***************************************************************************)
EXTENDS Metrics, FiniteSets

CONSTANTS
  Processes,
  Requests,
  Limit,       \* of each kind of limiter: how many requests it lets through
  Durations,   \* how long a request may take
  MaxFaults,   \* bound: errors and crashes
  MaxStarts,   \* bound: starts of processes
  MaxWindows,  \* bound: windows that end
  None

\* emailAuthLeaves: each has a limiter of its own.
EmailLeaves == {"verify-email", "resend-verification", "forgot-password", "reset-password"}
Limiters == {"rl:api:", "rl:auth:"} \cup EmailLeaves

\* apiLimiter, authLimiter, sensitiveEmailAuthLimiter, by the prefix of each.
Kinds == {"rl:api:", "rl:auth:", "rl:auth-email:"}
kind(l) == IF l \in EmailLeaves THEN "rl:auth-email:" ELSE l

Routes == EmailLeaves \cup {"login", "groups", "summary", "unmatched"}

\* What a request comes to after a limiter, and after its body was read.
After(l, rt) ==
  CASE l = "rl:api:" -> "body"
    [] l = "rl:auth:" /\ rt \in EmailLeaves -> rt
    [] OTHER -> "handler"

AfterBody(rt) ==
  IF rt \in {"login"} \cup EmailLeaves THEN "rl:auth:" ELSE "handler"

Statuses == {"2xx", "4xx", "5xx"}

ASSUME ServerAssumption ==
  /\ Limit \in [Kinds -> Nat]
  /\ Durations \subseteq Nat
  /\ MaxFaults \in Nat /\ MaxStarts \in Nat /\ MaxWindows \in Nat
  /\ IsFiniteSet(Requests)
  /\ None \notin Processes
  /\ "redis" \notin Processes

VARIABLES
  up,        \* how far a process is, "off" when it does not run
  link,      \* whether its Redis client is connected
  store,     \* where its limiters count: "redis", or itself
  hits,      \* store -> counter -> requests counted in the present window
  registry,  \* the metrics of a process
  layers,    \* the paths that its routers matched last, see Routed
  route,     \* the route that a request matches
  at,        \* the process that handles it
  stage,     \* the limiter it is at, "body", "handler", or how it ended
  client,    \* whether the client still waits
  starts, faults, windows,  \* how many are left
  passed,    \* ghost: store -> budget -> requests let through in the window
  reached,   \* ghost: the same, requests whose count was answered
  unanswered,  \* ghost: the same, how often a request was counted in vain
  finished   \* ghost: the responses of a process: [request, label, status, seconds]

process == <<up, link, store, layers, starts>>
counters == <<hits, passed, reached, unanswered, windows>>
metrics == <<registry, finished>>
requests == <<route, at, stage, client>>
vars == <<process, counters, metrics, requests, faults>>

Stores == {"redis"} \cup Processes
Ends == {"answered", "lost"}
InProgress(r) == stage[r] \notin Ends \cup {"new"}

\* The limiters that count together: with Redis those of a kind do, and in
\* memory each has a store of its own.
Budgets == Kinds \cup EmailLeaves
Budget(s, l) == IF s = "redis" THEN kind(l) ELSE l

Nobody == [b \in Budgets |-> {}]
NoHits == [b \in Budgets |-> 0]
NoLayers == [api |-> FALSE, summary |-> None]

Init ==
  /\ up = [p \in Processes |-> "off"]
  /\ link = [p \in Processes |-> FALSE]
  /\ store = [p \in Processes |-> p]
  /\ hits = [s \in Stores |-> NoHits]
  /\ registry = [p \in Processes |-> NoValues]
  /\ layers = [p \in Processes |-> NoLayers]
  /\ route \in [Requests -> Routes]
  /\ at = [r \in Requests |-> None]
  /\ stage = [r \in Requests |-> "new"]
  /\ client = [r \in Requests |-> FALSE]
  /\ starts \in 0 .. MaxStarts
  /\ faults \in 0 .. MaxFaults
  /\ windows \in 0 .. MaxWindows
  /\ passed = [s \in Stores |-> Nobody]
  /\ reached = [s \in Stores |-> Nobody]
  /\ unanswered = [s \in Stores |-> NoHits]
  /\ finished = [p \in Processes |-> {}]

Fault == faults > 0 /\ faults' = faults - 1
Goto(r, s) == stage' = [stage EXCEPT ![r] = s]
Become(p, state) == up' = [up EXCEPT ![p] = state]

AtLimiter(r) == stage[r] \in Limiters

\* Mutant: one keyspace for all limiters.
SharedPrefix(l) == "rl:api:"

\* resolveStore: in Redis the counters of a limiter are under its prefix.
prefix(l) == kind(l)
counter(s, l) == IF s = "redis" THEN prefix(l) ELSE l

-----------------------------------------------------------------------------
(* server.ts *)

\* The process is gone, with what it held in memory.
Exit(p) ==
  /\ Become(p, "off")
  /\ link' = [link EXCEPT ![p] = FALSE]
  /\ store' = [store EXCEPT ![p] = p]
  /\ hits' = [hits EXCEPT ![p] = NoHits]
  /\ passed' = [passed EXCEPT ![p] = Nobody]
  /\ reached' = [reached EXCEPT ![p] = Nobody]
  /\ unanswered' = [unanswered EXCEPT ![p] = NoHits]
  /\ registry' = [registry EXCEPT ![p] = NoValues]
  /\ layers' = [layers EXCEPT ![p] = NoLayers]
  /\ finished' = [finished EXCEPT ![p] = {}]
  /\ stage' = [r \in Requests |->
                 IF at[r] = p /\ InProgress(r) THEN "lost" ELSE stage[r]]
  /\ UNCHANGED <<starts, windows, route, at, client>>

\* start, as far as connectDatabase.
Launch(p) ==
  /\ up[p] = "off"
  /\ starts > 0
  /\ starts' = starts - 1
  /\ Become(p, "starting")
  /\ UNCHANGED <<link, store, layers, counters, metrics, requests, faults>>

\* An error of connectDatabase ends the process.
connectDatabase(p) ==
  /\ up[p] = "starting"
  /\ \/ /\ Become(p, "connected")
        /\ UNCHANGED <<link, store, layers, starts, counters, metrics, requests, faults>>
     \/ Fault /\ Exit(p)

\* connectRedis may fail; createApp then gives every limiter a store of its
\* own, for as long as the process runs.
connectRedis(p) ==
  /\ up[p] = "connected"
  /\ Become(p, "serving")
  /\ \/ /\ link' = [link EXCEPT ![p] = TRUE]
        /\ store' = [store EXCEPT ![p] = "redis"]
        /\ UNCHANGED faults
     \/ Fault /\ UNCHANGED <<link, store>>
  /\ UNCHANGED <<layers, starts, counters, metrics, requests>>

\* Redis has counted the requests in S and could not tell.
CountedInVain(S) ==
  /\ hits' = [hits EXCEPT !["redis"] = [b \in Budgets |->
       @[b] + Cardinality({r \in S : counter("redis", stage[r]) = b})]]
  /\ unanswered' = [unanswered EXCEPT !["redis"] = [b \in Budgets |->
       @[b] + Cardinality({r \in S : Budget("redis", stage[r]) = b})]]
  /\ UNCHANGED <<passed, reached, windows>>

\* The Redis client loses its connection, maybe with answers on it, and
\* connects again by itself.  It then sends again what was not answered, unless
\* it gave that up: see countRequest and passOnStoreError.
Disconnected(p) ==
  /\ up[p] \in {"serving", "closing"}
  /\ link[p]
  /\ Fault
  /\ \E S \in SUBSET {r \in Requests : at[r] = p /\ AtLimiter(r) /\ store[p] = "redis"} :
       CountedInVain(S)
  /\ link' = [link EXCEPT ![p] = FALSE]
  /\ registry' = [registry EXCEPT ![p] =
                    increment(@, "redis_connection_errors_total", [l \in {} |-> None], 1)]
  /\ UNCHANGED <<up, store, layers, starts, finished, requests>>

Reconnected(p) ==
  /\ up[p] \in {"serving", "closing"}
  /\ ~link[p]
  /\ link' = [link EXCEPT ![p] = TRUE]
  /\ UNCHANGED <<up, store, layers, starts, counters, metrics, requests, faults>>

\* SIGINT, SIGTERM: the server takes no more connections.
Signal(p) ==
  /\ up[p] = "serving"
  /\ Become(p, "closing")
  /\ UNCHANGED <<link, store, layers, starts, counters, metrics, requests, faults>>

\* No connection is open any more.  A request whose client has gone has none.
Drained(p) == \A r \in Requests : at[r] = p /\ InProgress(r) => ~client[r]

\* disconnectDatabase; when it throws, unhandledRejection ends the process.
disconnectDatabase(p) ==
  /\ up[p] = "closing"
  /\ Drained(p)
  /\ \/ /\ Become(p, "leaving")
        /\ UNCHANGED <<link, store, layers, starts, counters, metrics, requests, faults>>
     \/ Fault /\ Exit(p)

\* Mutant: the connection to Redis is closed when there is one.
disconnectWhenConnected(p) ==
  /\ up[p] = "leaving"
  /\ link[p]
  /\ Exit(p)
  /\ UNCHANGED faults

\* disconnectRedis, which swallows errors, and exit.
disconnectRedis(p) ==
  /\ up[p] = "leaving"
  /\ Exit(p)
  /\ UNCHANGED faults

\* unhandledRejection, uncaughtException, a signal before the handlers are
\* registered, or the process is killed.
Crash(p) == up[p] # "off" /\ Fault /\ Exit(p)

-----------------------------------------------------------------------------
(* app.ts *)

\* Routers keep the path they matched last: the one under /api/v1 none after a
\* request elsewhere, the one under /groups/:id/summary that of a group.  Every
\* request concerns a group of its own.
Routed(r, s) ==
  layers' = IF s # "handler" THEN layers
            ELSE [layers EXCEPT ![at[r]] =
                   [api     |-> route[r] # "unmatched",
                    summary |-> IF route[r] = "summary" THEN r ELSE @.summary]]

Proceed(r, s) == Goto(r, s) /\ Routed(r, s)

\* "unmatched" when no route was reached; otherwise the paths of the routers on
\* the way or, when they are not known any more, what the request was matched
\* with, and then the pattern of the route.
resolveRouteTemplate(r) ==
  CASE stage[r] # "handler"  -> "unmatched"
    [] route[r] # "summary"  -> route[r]
    [] OTHER -> IF layers[at[r]].api THEN layers[at[r]].summary ELSE r

\* What the middleware mounted after the first limiter records when the
\* response has been sent; nothing when the client has gone before that.
labels(r, status) ==
  [method |-> "any", route |-> resolveRouteTemplate(r), status |-> status]

recorded(r, status, seconds) ==
  LET requested == increment(registry[at[r]], "http_requests_total", labels(r, status), 1)
      counted == IF status = "2xx" THEN requested
                 ELSE increment(requested, "http_errors_total", labels(r, status), 1)
  IN observe(counted, "http_request_duration_seconds", seconds, labels(r, status))

requestHttpMetrics(r, status) ==
  IF ~client[r] THEN UNCHANGED metrics
  ELSE \E seconds \in Durations :
         /\ registry' = [registry EXCEPT ![at[r]] = recorded(r, status, seconds)]
         /\ finished' = [finished EXCEPT ![at[r]] = @ \cup
              {[request |-> r, label |-> resolveRouteTemplate(r),
                status |-> status, seconds |-> seconds]}]

\* A request comes in, while the server shuts down on a connection that was
\* kept alive; edgeRequestGuard may answer it at once.
Arrive(r) ==
  /\ stage[r] = "new"
  /\ \E p \in Processes :
       /\ up[p] \in {"serving", "closing"}
       /\ at' = [at EXCEPT ![r] = p]
  /\ client' = [client EXCEPT ![r] = TRUE]
  /\ \E s \in {"rl:api:", "answered"} : Goto(r, s)
  /\ UNCHANGED <<process, counters, metrics, route, faults>>

\* INCREMENT_SCRIPT: the counter is incremented, or begins with a new window.
Counted(r, s, l) ==
  /\ hits' = [hits EXCEPT ![s][counter(s, l)] = @ + 1]
  /\ reached' = [reached EXCEPT ![s][Budget(s, l)] = @ \cup {r}]
  /\ UNCHANGED <<unanswered, windows>>

\* A request over the limit is answered with 429; the first limiter is
\* mounted before the metrics.
countRequest(r) ==
  /\ AtLimiter(r)
  /\ LET l == stage[r]
         s == store[at[r]]
     IN /\ s = "redis" => link[at[r]]
        /\ Counted(r, s, l)
        /\ IF hits[s][counter(s, l)] < Limit[kind(l)]
           THEN /\ passed' = [passed EXCEPT ![s][Budget(s, l)] = @ \cup {r}]
                /\ Proceed(r, After(l, route[r]))
                /\ UNCHANGED metrics
           ELSE /\ Proceed(r, "answered")
                /\ IF l = "rl:api:" THEN UNCHANGED metrics ELSE requestHttpMetrics(r, "4xx")
                /\ UNCHANGED passed
  /\ UNCHANGED <<up, link, store, starts, route, at, client, faults>>

\* passOnStoreError: the request is let through without a connection to Redis,
\* when its connection was lost and the client has given up, or when Redis
\* answers with an error.
passOnStoreError(r) ==
  /\ AtLimiter(r)
  /\ store[at[r]] = "redis"
  /\ IF link[at[r]] THEN Fault ELSE UNCHANGED faults
  /\ Proceed(r, After(stage[r], route[r]))
  /\ UNCHANGED <<up, link, store, starts, counters, metrics, route, at, client>>

\* express.json has the whole body: errorHandler answers for a body that cannot be read.
ParseBody(r) ==
  /\ stage[r] = "body"
  /\ \/ /\ Proceed(r, AfterBody(route[r]))
        /\ UNCHANGED metrics
     \/ Proceed(r, "answered") /\ requestHttpMetrics(r, "4xx")
  /\ UNCHANGED <<up, link, store, starts, counters, route, at, client, faults>>

\* The handler of the route ends, or errorHandler answers for its error.
Respond(r) ==
  /\ stage[r] = "handler"
  /\ Goto(r, "answered")
  /\ \E status \in IF route[r] = "unmatched" THEN {"4xx"} ELSE Statuses :
       requestHttpMetrics(r, status)
  /\ UNCHANGED <<process, counters, route, at, client, faults>>

\* The client closes its connection.
Abandon(r) ==
  /\ InProgress(r) /\ client[r]
  /\ client' = [client EXCEPT ![r] = FALSE]
  /\ UNCHANGED <<process, counters, metrics, route, at, stage, faults>>

\* RATE_LIMIT_WINDOW_MS have passed since the first hit.
ExpireWindow(s, b) ==
  /\ hits[s][b] > 0
  /\ windows > 0
  /\ windows' = windows - 1
  /\ hits' = [hits EXCEPT ![s][b] = 0]
  /\ passed' = [passed EXCEPT ![s][b] = {}]
  /\ reached' = [reached EXCEPT ![s][b] = {}]
  /\ unanswered' = [unanswered EXCEPT ![s][b] = 0]
  /\ UNCHANGED <<process, metrics, requests, faults>>

-----------------------------------------------------------------------------
ProcessStep(p) ==
  \/ Launch(p) \/ connectDatabase(p) \/ connectRedis(p)
  \/ Disconnected(p) \/ Reconnected(p)
  \/ Signal(p) \/ disconnectDatabase(p) \/ disconnectRedis(p) \/ Crash(p)

Handle(r) == countRequest(r) \/ passOnStoreError(r) \/ ParseBody(r) \/ Respond(r)

Next ==
  \/ \E p \in Processes : ProcessStep(p)
  \/ \E r \in Requests : Arrive(r) \/ Handle(r) \/ Abandon(r)
  \/ \E s \in Stores, b \in Budgets : ExpireWindow(s, b)

Spec == Init /\ [][Next]_vars

\* The limiters and handlers go on with a request, and so does a shutdown.
\* Whether a body arrives is up to the client, and so is no part of it.
Fairness ==
  /\ \A r \in Requests :
       WF_vars(countRequest(r) \/ passOnStoreError(r) \/ Respond(r))
  /\ \A p \in Processes : WF_vars(disconnectDatabase(p)) /\ WF_vars(disconnectRedis(p))

FairSpec == Spec /\ Fairness

-----------------------------------------------------------------------------
(* Properties *)

\* Counters in Redis "apply across every server instance"
\* (rateLimitStore.ts:33) and those of a process to its own requests: limiters
\* that count together let no more than their limit through in a window, and
\* a counter counts nothing but the requests that came to them, once each and
\* once more for every answer of Redis that was lost.
LimitsHold ==
  \A s \in Stores, b \in Budgets :
    /\ Cardinality(passed[s][b]) <= Limit[kind(b)]
    /\ hits[s][b] <= Cardinality(reached[s][b]) + unanswered[s][b]

\* The routes under which a process has counted something.
RouteLabels(p) ==
  {s.labels.route : s \in {x \in DOMAIN registry[p] : "route" \in DOMAIN x.labels}}

\* The responses under a route that ended with one of some statuses.
Finished(p, rt, S) == {f \in finished[p] : f.label = rt /\ f.status \in S}
LabelsOf(rt, status) == [method |-> "any", route |-> rt, status |-> status]
Histogram(p, rt) ==
  renderHistogram(registry[p], "http_request_duration_seconds", LabelsOf(rt, "any"))

CountersTell(p, rt) ==
  /\ \A st \in Statuses :
       /\ counterValue(registry[p], "http_requests_total", LabelsOf(rt, st))
            = Cardinality(Finished(p, rt, {st}))
       /\ counterValue(registry[p], "http_errors_total", LabelsOf(rt, st))
            = Cardinality(Finished(p, rt, {st} \ {"2xx"}))
  /\ Histogram(p, rt).inf = Cardinality(Finished(p, rt, Statuses))

BucketsTell(p, rt) ==
  \A i \in DOMAIN Buckets :
    Histogram(p, rt).le[i]
      = Cardinality({f \in Finished(p, rt, Statuses) : f.seconds <= Buckets[i]})

\* The metrics of a process tell its responses: how many there were under each
\* route and status, how many were errors, and for each bucket how many took
\* no longer than its bound.
MetricsTellResponses ==
  \A p \in Processes : \A rt \in {f.label : f \in finished[p]} \cup RouteLabels(p) :
    CountersTell(p, rt) /\ BucketsTell(p, rt)

\* A request of which the server waits for the rest.
Uploading(p) == \E r \in Requests : at[r] = p /\ stage[r] = "body" /\ client[r]

\* A process that was told to shut down ends, provided that from some time on no
\* client is in the middle of sending it a request: server.close (server.ts:34)
\* has no deadline, and one that stalls for ever keeps the process up.
ShutdownsEnd ==
  \A p \in Processes :
    <>[]~Uploading(p) => (up[p] = "closing" ~> up[p] = "off")
=============================================================================
