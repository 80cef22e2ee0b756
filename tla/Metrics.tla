------------------------------- MODULE Metrics -------------------------------
(***************************************************************************)
(* The metrics registry of a process (metrics/registry.ts) as a value and  *)
(* the operations on it.  A series is a metric with the values of its      *)
(* labels; a histogram keeps one count for each bucket, which are added up *)
(* only when it is rendered.  Numbers are whole, label values opaque.      *)
(***************************************************************************)
EXTENDS Integers, Sequences, Functions

CONSTANT Buckets  \* upper bounds of the buckets of a histogram, increasing

ASSUME BucketsAssumption ==
  /\ Buckets \in Seq(Nat)
  /\ \A i, j \in DOMAIN Buckets : i < j => Buckets[i] < Buckets[j]

\* DEFAULT_METRICS: what is counted under which labels, by every part of the
\* program.
Plain ==
  {"users_registered_total", "groups_created_total", "expenses_created_total",
   "expenses_updated_total", "expenses_deleted_total",
   "settlements_created_total", "redis_connection_errors_total",
   "queue_failures_total", "database_connection_errors_total"}
PerJobType ==
  {"background_jobs_succeeded_total", "background_jobs_failed_total",
   "background_jobs_retried_total", "background_jobs_discarded_total"}
PerOperation ==
  {"cache_failures_total", "emails_sent_total", "email_send_failures_total"}
PerResponse == {"http_requests_total", "http_errors_total"}

Counters ==
  Plain \cup PerJobType \cup PerOperation \cup PerResponse
    \cup {"activity_events_created_total"}
Histograms == {"http_request_duration_seconds"}

labelKeysOf(name) ==
  CASE name \in Plain        -> {}
    [] name \in PerJobType   -> {"job_type"}
    [] name \in PerOperation -> {"operation"}
    [] name \in PerResponse  -> {"method", "route", "status"}
    [] name \in Histograms   -> {"method", "route"}
    [] OTHER                 -> {"type"}

\* seriesKey: labels that were not declared are dropped.
Series(name, labels) ==
  [name |-> name, labels |-> Restrict(labels, labelKeysOf(name) \cap DOMAIN labels)]

\* reset: the catalog stays, the values go.
NoValues == [s \in {} |-> 0]
Unobserved == [counts |-> [i \in DOMAIN Buckets |-> 0], count |-> 0, sum |-> 0]

Value(registry, series, otherwise) ==
  IF series \in DOMAIN registry THEN registry[series] ELSE otherwise

Set(registry, series, value) ==
  [s \in DOMAIN registry \cup {series} |-> IF s = series THEN value ELSE registry[s]]

increment(registry, name, labels, by) ==
  LET s == Series(name, labels)
  IN IF name \notin Counters \/ by <= 0 THEN registry
     ELSE Set(registry, s, Value(registry, s, 0) + by)

\* Mutant: an observation counts in every bucket that it fits.
EveryBucketOf(value) == {i \in DOMAIN Buckets : value <= Buckets[i]}

\* The bucket that an observation counts in: the smallest that fits, if any.
BucketOf(value) ==
  {i \in DOMAIN Buckets :
     value <= Buckets[i] /\ \A j \in 1 .. i - 1 : value > Buckets[j]}

observe(registry, name, value, labels) ==
  LET s == Series(name, labels)
      h == Value(registry, s, Unobserved)
  IN IF name \notin Histograms \/ value < 0 THEN registry
     ELSE Set(registry, s,
            [counts |-> [i \in DOMAIN Buckets |->
                           IF i \in BucketOf(value) THEN h.counts[i] + 1
                                                    ELSE h.counts[i]],
             count |-> h.count + 1, sum |-> h.sum + value])

counterValue(registry, name, labels) ==
  Value(registry, Series(name, labels), 0)

\* The counts of the first buckets, added up in their order.
Cumulative(counts) ==
  LET cumulative[i \in 0 .. Len(Buckets)] ==
        IF i = 0 THEN 0 ELSE cumulative[i - 1] + counts[i]
  IN cumulative

\* renderPrometheus: the buckets of a histogram are cumulative, and the last
\* one, le="+Inf", has every observation.
renderHistogram(registry, name, labels) ==
  LET h == Value(registry, Series(name, labels), Unobserved)
  IN [le |-> [i \in DOMAIN Buckets |-> Cumulative(h.counts)[i]],
      inf |-> h.count, sum |-> h.sum]
=============================================================================
