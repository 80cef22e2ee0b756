--------------------------- MODULE ApiServerProofs ---------------------------
(***************************************************************************)
(* The rate limiters and the metrics of ApiServer, for any number of       *)
(* processes, requests, starts, faults and windows, any limits, durations  *)
(* and buckets.                                                            *)
(***************************************************************************)
EXTENDS ApiServer, FiniteSetTheorems, WellFoundedInduction, TLAPS

----------------------------------------------------------------------------
(* The inductive invariant *)

\* Where a request may be once it has been at a limiter.
Beyond(b) ==
  CASE b = "rl:api:"  -> {"body", "rl:auth:", "handler"} \cup EmailLeaves \cup Ends
    [] b = "rl:auth:" -> {"handler"} \cup EmailLeaves \cup Ends
    [] OTHER          -> {"handler"} \cup Ends
Places == Limiters \cup {"new", "body", "handler"} \cup Ends

CountersTyped ==
  /\ store \in [Processes -> Stores]
  /\ hits \in [Stores -> [Budgets -> Nat]]
  /\ unanswered \in [Stores -> [Budgets -> Nat]]
  /\ passed \in [Stores -> [Budgets -> SUBSET Requests]]
  /\ reached \in [Stores -> [Budgets -> SUBSET Requests]]
  /\ route \in [Requests -> Routes]
  /\ at \in [Requests -> Processes \cup {None}]
  /\ stage \in [Requests -> Places]
  /\ \A r \in Requests : at[r] = None => stage[r] = "new"

\* A request that limiters of a budget have counted does not come back to them.
CountedOnce ==
  \A s \in Stores, b \in Budgets :
    \A r \in reached[s][b] : stage[r] \in Beyond(b)

\* A counter lies between the requests that passed in the window and those that
\* came, with those counted in vain.
Between(s, b) ==
  /\ IsFiniteSet(passed[s][b]) /\ IsFiniteSet(reached[s][b])
  /\ Cardinality(passed[s][b]) <= hits[s][b]
  /\ Cardinality(passed[s][b]) <= Limit[kind(b)]
  /\ hits[s][b] <= Cardinality(reached[s][b]) + unanswered[s][b]

CounterBetween == \A s \in Stores, b \in Budgets : Between(s, b)

LimitInv == CountersTyped /\ CountedOnce /\ CounterBetween

----------------------------------------------------------------------------
(* The order of the limiters *)

LEMMA BeyondOrder ==
  /\ \A l \in Limiters : l \notin Beyond(l) /\ "new" \notin Beyond(l)
  /\ \A b \in Budgets : "new" \notin Beyond(b)
  /\ \A b \in Budgets : Beyond(b) \subseteq Places /\ Ends \subseteq Beyond(b)
  /\ \A b \in Budgets, l \in Limiters : l \in Beyond(b) => Beyond(l) \subseteq Beyond(b)
  /\ Limiters \subseteq Budgets
BY DEF Limiters, EmailLeaves, Kinds, Budgets, Beyond, Places, Ends

\* A limiter counts where its budget is.
LEMMA BudgetOf ==
  ASSUME NEW s, NEW l \in Limiters
  PROVE  /\ Budget(s, l) \in Budgets
         /\ counter(s, l) = Budget(s, l)
         /\ kind(Budget(s, l)) = kind(l)
         /\ Beyond(Budget(s, l)) = Beyond(l)
<1>1. /\ Budget(s, l) \in Budgets
      /\ counter(s, l) = Budget(s, l)
      /\ kind(Budget(s, l)) = kind(l)
  BY DEF Budget, Budgets, Limiters, Kinds, kind, counter, prefix, EmailLeaves
<1>2. Beyond(Budget(s, l)) = Beyond(l)
  <2>1. CASE Budget(s, l) = l
    BY <2>1
  <2>2. CASE Budget(s, l) # l
    <3>1. l \in EmailLeaves /\ Budget(s, l) = "rl:auth-email:"
      BY <2>2 DEF Budget, kind
    <3>2. Beyond(Budget(s, l)) = {"handler"} \cup Ends
      BY <3>1 DEF Beyond
    <3>3. Beyond(l) = {"handler"} \cup Ends
      BY <3>1 DEF Beyond, EmailLeaves
    <3>4. QED BY <3>2, <3>3
  <2>3. QED BY <2>1, <2>2
<1>3. QED BY <1>1, <1>2

\* Every budget has a limit.
LEMMA LimitOf ==
  ASSUME NEW b \in Budgets
  PROVE  Limit[kind(b)] \in Nat
<1>1. kind(b) \in Kinds
  BY DEF kind, Kinds, Budgets, EmailLeaves
<1>2. QED BY <1>1, ServerAssumption

\* A request goes on from a limiter, or from its body, to what comes after.
LEMMA AfterIsBeyond ==
  ASSUME NEW l \in Limiters, NEW rt \in Routes
  PROVE  After(l, rt) \in Beyond(l)
BY DEF After, Beyond, Limiters, EmailLeaves, Routes

LEMMA AfterBodyIsBeyond ==
  ASSUME NEW rt \in Routes
  PROVE  /\ AfterBody(rt) \in Places \ {"new"}
         /\ \A b \in Budgets : "body" \in Beyond(b) => AfterBody(rt) \in Beyond(b)
BY DEF AfterBody, Beyond, Limiters, EmailLeaves, Budgets, Kinds, Places, Ends

----------------------------------------------------------------------------
(* Steps *)

\* Requests that do not go back, and counters that stay.
LEMMA RequestsGoOn ==
  ASSUME LimitInv, UNCHANGED <<hits, passed, reached, unanswered, route>>,
         store' \in [Processes -> Stores],
         at' \in [Requests -> Processes \cup {None}],
         stage' \in [Requests -> Places],
         \A r \in Requests : at'[r] = None => stage'[r] = "new",
         \A r \in Requests, b \in Budgets :
           stage[r] \in Beyond(b) => stage'[r] \in Beyond(b)
  PROVE  LimitInv'
<1>1. CountersTyped'
  BY DEF LimitInv, CountersTyped
<1>2. CountedOnce'
  BY DEF LimitInv, CountersTyped, CountedOnce
<1>3. CounterBetween'
  BY DEF LimitInv, CounterBetween, Between
<1>4. QED BY <1>1, <1>2, <1>3 DEF LimitInv

\* One request goes on, uncounted.
LEMMA OneGoesOn ==
  ASSUME LimitInv, UNCHANGED <<hits, passed, reached, unanswered, route, store, at>>,
         NEW r \in Requests, at[r] # None, NEW t \in Places, Goto(r, t),
         \A b \in Budgets : stage[r] \in Beyond(b) => t \in Beyond(b)
  PROVE  LimitInv'
<1>1. /\ stage' = [stage EXCEPT ![r] = t] /\ stage \in [Requests -> Places]
      /\ store \in [Processes -> Stores]
      /\ at \in [Requests -> Processes \cup {None}]
      /\ \A q \in Requests : at[q] = None => stage[q] = "new"
  BY DEF Goto, LimitInv, CountersTyped
<1>2. \A q \in Requests, b \in Budgets :
        stage[q] \in Beyond(b) => stage'[q] \in Beyond(b)
  BY <1>1
<1>3. QED BY <1>1, <1>2, RequestsGoOn

\* A limiter counts a request, which then goes on.
LEMMA OneIsCounted ==
  ASSUME LimitInv, UNCHANGED <<route, store, at>>,
         NEW r \in Requests, at[r] # None, NEW l \in Limiters, l = stage[r],
         NEW s \in Stores, Counted(r, s, l), NEW b, b = Budget(s, l),
         NEW t \in Beyond(l), Goto(r, t),
         \/ UNCHANGED passed
         \/ /\ hits[s][b] < Limit[kind(b)]
            /\ passed' = [passed EXCEPT ![s][b] = @ \cup {r}]
  PROVE  LimitInv'
<1>0. /\ b \in Budgets /\ stage[r] \notin Beyond(b) /\ t \in Places /\ t \in Beyond(b)
      /\ \A k \in Budgets : stage[r] \in Beyond(k) => t \in Beyond(k)
  <2>1. b \in Budgets /\ Beyond(b) = Beyond(l)
    BY BudgetOf
  <2>2. /\ l \notin Beyond(l) /\ Beyond(b) \subseteq Places
        /\ \A k \in Budgets : l \in Beyond(k) => Beyond(l) \subseteq Beyond(k)
    BY <2>1, BeyondOrder
  <2>3. QED BY <2>1, <2>2
<1>1. /\ hits' = [hits EXCEPT ![s][b] = @ + 1]
      /\ reached' = [reached EXCEPT ![s][b] = @ \cup {r}]
      /\ UNCHANGED unanswered
  <2>1. counter(s, l) = b
    BY BudgetOf
  <2>2. QED BY <2>1 DEF Counted
<1>2. /\ hits \in [Stores -> [Budgets -> Nat]]
      /\ unanswered \in [Stores -> [Budgets -> Nat]]
      /\ passed \in [Stores -> [Budgets -> SUBSET Requests]]
      /\ reached \in [Stores -> [Budgets -> SUBSET Requests]]
      /\ stage \in [Requests -> Places]
      /\ stage' = [stage EXCEPT ![r] = t]
  BY DEF Goto, LimitInv, CountersTyped
<1>3. \/ UNCHANGED passed
      \/ /\ hits[s][b] < Limit[kind(b)]
         /\ passed' = [passed EXCEPT ![s][b] = @ \cup {r}]
  OBVIOUS
<1>4. r \notin reached[s][b]
  BY <1>0 DEF LimitInv, CountedOnce
<1>5. /\ hits'[s][b] = hits[s][b] + 1 /\ hits[s][b] \in Nat
      /\ reached'[s][b] = reached[s][b] \cup {r}
      /\ \/ passed'[s][b] = passed[s][b]
         \/ hits[s][b] < Limit[kind(b)] /\ passed'[s][b] = passed[s][b] \cup {r}
  BY <1>0, <1>1, <1>2, <1>3
<1>6. ASSUME NEW s1 \in Stores, NEW k \in Budgets, s1 # s \/ k # b
      PROVE  /\ hits'[s1][k] = hits[s1][k]
             /\ reached'[s1][k] = reached[s1][k]
             /\ passed'[s1][k] = passed[s1][k]
  BY <1>0, <1>1, <1>2, <1>3, <1>6
<1>7. CountersTyped'
  <2>1. hits' \in [Stores -> [Budgets -> Nat]]
    BY <1>0, <1>1, <1>2
  <2>2. reached' \in [Stores -> [Budgets -> SUBSET Requests]]
    <3>1. \A x \in SUBSET Requests : x \cup {r} \in SUBSET Requests
      OBVIOUS
    <3>2. QED BY <1>0, <1>1, <1>2, <3>1
  <2>3. passed' \in [Stores -> [Budgets -> SUBSET Requests]]
    <3>1. \A x \in SUBSET Requests : x \cup {r} \in SUBSET Requests
      OBVIOUS
    <3>2. CASE passed' = [passed EXCEPT ![s][b] = @ \cup {r}]
      BY <1>0, <1>2, <3>1, <3>2
    <3>3. QED BY <1>2, <1>3, <3>2
  <2>4. stage' \in [Requests -> Places]
    BY <1>0, <1>2
  <2>5. \A q \in Requests : at'[q] = None => stage'[q] = "new"
    BY <1>2 DEF LimitInv, CountersTyped
  <2>6. unanswered' \in [Stores -> [Budgets -> Nat]]
    BY <1>1, <1>2
  <2>7. QED BY <2>1, <2>2, <2>3, <2>4, <2>5, <2>6 DEF LimitInv, CountersTyped
<1>8. CountedOnce'
  <2> SUFFICES ASSUME NEW s1 \in Stores, NEW k \in Budgets, NEW q \in reached'[s1][k]
               PROVE  stage'[q] \in Beyond(k)
    BY DEF CountedOnce
  <2>1. CASE q \in reached[s1][k]
    <3>1. stage[q] \in Beyond(k) /\ q \in Requests
      BY <1>2, <2>1 DEF LimitInv, CountedOnce
    <3>2. QED BY <1>0, <1>2, <3>1
  <2>2. CASE q \notin reached[s1][k]
    <3>1. s1 = s /\ k = b /\ q = r
      BY <1>5, <1>6, <2>2
    <3>2. QED BY <1>0, <1>2, <3>1
  <2>3. QED BY <2>1, <2>2
<1>9. ASSUME NEW s1 \in Stores, NEW k \in Budgets
      PROVE  Between(s1, k)'
  <2>1. Between(s1, k)
    BY DEF LimitInv, CounterBetween
  <2>2. CASE s1 # s \/ k # b
    BY <1>1, <1>6, <2>1, <2>2 DEF Between
  <2>3. CASE s1 = s /\ k = b
    <3> DEFINE P == passed[s][b]
               R == reached[s][b]
               U == unanswered[s][b]
               L == Limit[kind(b)]
    <3>1. IsFiniteSet(P) /\ IsFiniteSet(R) /\ r \notin R
      BY <1>4, <2>1, <2>3 DEF Between
    <3>2. /\ Cardinality(P) \in Nat /\ Cardinality(R) \in Nat
          /\ U \in Nat /\ L \in Nat /\ hits[s][b] \in Nat
      BY <1>0, <1>2, <3>1, FS_CardinalityType, LimitOf
    <3>3. /\ Cardinality(P) <= hits[s][b] /\ Cardinality(P) <= L
          /\ hits[s][b] <= Cardinality(R) + U
      BY <2>1, <2>3 DEF Between
    <3>4. IsFiniteSet(R \cup {r}) /\ Cardinality(R \cup {r}) = Cardinality(R) + 1
      BY <3>1, FS_AddElement
    <3>5. /\ IsFiniteSet(P \cup {r})
          /\ \/ Cardinality(P \cup {r}) = Cardinality(P)
             \/ Cardinality(P \cup {r}) = Cardinality(P) + 1
      BY <3>1, FS_AddElement
    <3>6. /\ hits'[s][b] = hits[s][b] + 1 /\ reached'[s][b] = R \cup {r}
          /\ unanswered'[s][b] = U
          /\ \/ passed'[s][b] = P
             \/ hits[s][b] < L /\ passed'[s][b] = P \cup {r}
      BY <1>1, <1>5
    <3> HIDE DEF P, R, U, L
    <3>7. hits'[s][b] <= Cardinality(reached'[s][b]) + unanswered'[s][b]
      BY <3>2, <3>3, <3>4, <3>6
    <3>8. /\ Cardinality(passed'[s][b]) <= hits'[s][b]
          /\ Cardinality(passed'[s][b]) <= L /\ IsFiniteSet(passed'[s][b])
      <4>1. CASE passed'[s][b] = P
        <5>1. Cardinality(P) <= hits'[s][b]
          BY <3>2, <3>3, <3>6
        <5>2. QED BY <3>1, <3>3, <4>1, <5>1
      <4>2. CASE hits[s][b] < L /\ passed'[s][b] = P \cup {r}
        <5> DEFINE n == Cardinality(P \cup {r})
        <5>1. n = Cardinality(P) \/ n = Cardinality(P) + 1
          BY <3>5
        <5> HIDE DEF n
        <5>2. n <= hits'[s][b] /\ n <= L
          BY <3>2, <3>3, <3>6, <4>2, <5>1
        <5>3. QED BY <3>5, <4>2, <5>2 DEF n
      <4>3. QED BY <3>6, <4>1, <4>2
    <3>9. QED BY <2>3, <3>4, <3>6, <3>7, <3>8 DEF Between, L
  <2>4. QED BY <2>2, <2>3
<1>10. QED BY <1>7, <1>8, <1>9 DEF LimitInv, CounterBetween

\* Requests that Redis has counted in vain.
LEMMA SomeAreCountedInVain ==
  ASSUME LimitInv, UNCHANGED <<route, store, at, stage>>,
         NEW S \in SUBSET {r \in Requests : AtLimiter(r)}, CountedInVain(S)
  PROVE  LimitInv'
<1> DEFINE n == [b \in Budgets |-> Cardinality({r \in S : Budget("redis", stage[r]) = b})]
<1>1. n \in [Budgets -> Nat]
  <2>1. ASSUME NEW b \in Budgets
        PROVE  Cardinality({r \in S : Budget("redis", stage[r]) = b}) \in Nat
    <3>1. IsFiniteSet(Requests) /\ {r \in S : Budget("redis", stage[r]) = b} \subseteq Requests
      BY ServerAssumption
    <3>2. IsFiniteSet({r \in S : Budget("redis", stage[r]) = b})
      BY <3>1, FS_Subset
    <3>3. QED BY <3>2, FS_CardinalityType
  <2>2. QED BY <2>1
<1>2. ASSUME NEW b \in Budgets
      PROVE  /\ Cardinality({r \in S : counter("redis", stage[r]) = b}) = n[b]
             /\ Cardinality({r \in S : Budget("redis", stage[r]) = b}) = n[b]
  <2>1. \A r \in S : counter("redis", stage[r]) = Budget("redis", stage[r])
    BY BudgetOf DEF AtLimiter
  <2>2. {r \in S : counter("redis", stage[r]) = b} = {r \in S : Budget("redis", stage[r]) = b}
    BY <2>1
  <2>3. QED BY <2>2
<1> HIDE DEF n
<1>3. /\ hits \in [Stores -> [Budgets -> Nat]]
      /\ unanswered \in [Stores -> [Budgets -> Nat]]
      /\ "redis" \in Stores /\ UNCHANGED <<passed, reached>>
  BY DEF LimitInv, CountersTyped, Stores, CountedInVain
<1>4. /\ hits' = [hits EXCEPT !["redis"] = [b \in Budgets |-> hits["redis"][b] + n[b]]]
      /\ unanswered' = [unanswered EXCEPT !["redis"] =
                           [b \in Budgets |-> unanswered["redis"][b] + n[b]]]
  <2>1. /\ hits' = [hits EXCEPT !["redis"] = [b \in Budgets |->
              hits["redis"][b] + Cardinality({r \in S : counter("redis", stage[r]) = b})]]
        /\ unanswered' = [unanswered EXCEPT !["redis"] = [b \in Budgets |->
              unanswered["redis"][b] + Cardinality({r \in S : Budget("redis", stage[r]) = b})]]
    BY <1>3 DEF CountedInVain
  <2>2. /\ [b \in Budgets |->
              hits["redis"][b] + Cardinality({r \in S : counter("redis", stage[r]) = b})]
            = [b \in Budgets |-> hits["redis"][b] + n[b]]
        /\ [b \in Budgets |->
              unanswered["redis"][b] + Cardinality({r \in S : Budget("redis", stage[r]) = b})]
            = [b \in Budgets |-> unanswered["redis"][b] + n[b]]
    BY <1>2
  <2>3. QED BY <2>1, <2>2
<1>5. /\ hits' \in [Stores -> [Budgets -> Nat]]
      /\ unanswered' \in [Stores -> [Budgets -> Nat]]
  <2>1. /\ [b \in Budgets |-> hits["redis"][b] + n[b]] \in [Budgets -> Nat]
        /\ [b \in Budgets |-> unanswered["redis"][b] + n[b]] \in [Budgets -> Nat]
    BY <1>1, <1>3
  <2>2. QED BY <1>3, <1>4, <2>1
<1>6. CountersTyped'
  BY <1>3, <1>5 DEF LimitInv, CountersTyped
<1>7. CountedOnce'
  BY <1>3 DEF LimitInv, CountedOnce
<1>8. ASSUME NEW s \in Stores, NEW b \in Budgets
      PROVE  Between(s, b)'
  <2>1. Between(s, b) /\ passed'[s][b] = passed[s][b] /\ reached'[s][b] = reached[s][b]
    BY <1>3 DEF LimitInv, CounterBetween
  <2>2. PICK m \in Nat : /\ hits'[s][b] = hits[s][b] + m
                         /\ unanswered'[s][b] = unanswered[s][b] + m
    <3>1. CASE s = "redis"
      BY <1>1, <1>3, <1>4, <3>1
    <3>2. CASE s # "redis"
      <4>1. hits'[s][b] = hits[s][b] /\ unanswered'[s][b] = unanswered[s][b]
        BY <1>3, <1>4, <3>2
      <4>2. hits[s][b] \in Nat /\ unanswered[s][b] \in Nat
        BY <1>3
      <4>3. QED BY <4>1, <4>2
    <3>3. QED BY <3>1, <3>2
  <2>3. /\ Cardinality(passed[s][b]) \in Nat /\ Cardinality(reached[s][b]) \in Nat
        /\ hits[s][b] \in Nat /\ unanswered[s][b] \in Nat
    BY <1>3, <2>1, FS_CardinalityType DEF Between
  <2>4. /\ Cardinality(passed[s][b]) <= hits'[s][b]
        /\ hits'[s][b] <= Cardinality(reached[s][b]) + unanswered'[s][b]
    BY <2>1, <2>2, <2>3 DEF Between
  <2>5. QED BY <2>1, <2>4 DEF Between
<1>9. QED BY <1>6, <1>7, <1>8 DEF LimitInv, CounterBetween

\* A step that begins the counters L of store s again, leaves the others alone,
\* and moves no request except those that are lost.
Resets(s, L) ==
  /\ hits' \in [Stores -> [Budgets -> Nat]]
  /\ unanswered' \in [Stores -> [Budgets -> Nat]]
  /\ passed' \in [Stores -> [Budgets -> SUBSET Requests]]
  /\ reached' \in [Stores -> [Budgets -> SUBSET Requests]]
  /\ \A b \in L : /\ hits'[s][b] = 0 /\ unanswered'[s][b] = 0
                  /\ passed'[s][b] = {} /\ reached'[s][b] = {}
  /\ \A s1 \in Stores, b \in Budgets :
       s1 # s \/ b \notin L =>
         /\ hits'[s1][b] = hits[s1][b]
         /\ unanswered'[s1][b] = unanswered[s1][b]
         /\ passed'[s1][b] = passed[s1][b]
         /\ reached'[s1][b] = reached[s1][b]
  /\ UNCHANGED <<route, at>>
  /\ store' \in [Processes -> Stores]
  /\ stage' \in [Requests -> Places]
  /\ \A r \in Requests : stage'[r] = stage[r] \/ (stage'[r] = "lost" /\ at[r] # None)

\* The counters of some limiters of a store begin again.
LEMMA CountersReset ==
  ASSUME LimitInv, NEW s \in Stores, NEW L \in SUBSET Budgets, Resets(s, L)
  PROVE  LimitInv'
<1> USE DEF Resets
<1>1. CountersTyped'
  BY DEF LimitInv, CountersTyped
<1>2. CountedOnce'
  <2> SUFFICES ASSUME NEW s1 \in Stores, NEW b \in Budgets, NEW r \in reached'[s1][b]
               PROVE  stage'[r] \in Beyond(b)
    BY DEF CountedOnce
  <2>1. r \in Requests
    <3>1. reached'[s1] \in [Budgets -> SUBSET Requests]
      OBVIOUS
    <3>2. QED BY <3>1
  <2>2. r \in reached[s1][b]
    <3>1. ~(s1 = s /\ b \in L)
      OBVIOUS
    <3>2. reached'[s1][b] = reached[s1][b]
      BY <3>1
    <3>3. QED BY <3>2
  <2>3. stage[r] \in Beyond(b)
    BY <2>2 DEF LimitInv, CountedOnce
  <2>4. "lost" \in Beyond(b)
    BY BeyondOrder DEF Ends
  <2>5. stage'[r] = stage[r] \/ stage'[r] = "lost"
    BY <2>1
  <2>6. QED BY <2>3, <2>4, <2>5
<1>3. ASSUME NEW s1 \in Stores, NEW b \in Budgets
      PROVE  Between(s1, b)'
  <2>1. CASE s1 = s /\ b \in L
    <3>1. Limit[kind(b)] \in Nat
      BY LimitOf
    <3>2. /\ hits'[s1][b] = 0 /\ unanswered'[s1][b] = 0
          /\ passed'[s1][b] = {} /\ reached'[s1][b] = {}
      BY <2>1
    <3>3. QED BY <3>1, <3>2, FS_EmptySet DEF Between
  <2>2. CASE ~(s1 = s /\ b \in L)
    BY <2>2 DEF LimitInv, CounterBetween, Between
  <2>3. QED BY <2>1, <2>2
<1>4. QED BY <1>1, <1>2, <1>3 DEF LimitInv, CounterBetween

LEMMA ExitKeepsLimits ==
  ASSUME LimitInv, NEW p \in Processes, Exit(p)
  PROVE  LimitInv'
<1>1. /\ hits' = [hits EXCEPT ![p] = NoHits]
      /\ passed' = [passed EXCEPT ![p] = Nobody]
      /\ reached' = [reached EXCEPT ![p] = Nobody]
      /\ unanswered' = [unanswered EXCEPT ![p] = NoHits]
      /\ store' = [store EXCEPT ![p] = p]
      /\ UNCHANGED <<route, at>>
      /\ stage' = [r \in Requests |->
                     IF at[r] = p /\ InProgress(r) THEN "lost" ELSE stage[r]]
      /\ p \in Stores
  BY DEF Exit, Stores
<1>2. /\ NoHits \in [Budgets -> Nat] /\ Nobody \in [Budgets -> SUBSET Requests]
      /\ \A l \in Budgets : NoHits[l] = 0 /\ Nobody[l] = {}
  BY DEF NoHits, Nobody
<1>3. /\ hits \in [Stores -> [Budgets -> Nat]]
      /\ unanswered \in [Stores -> [Budgets -> Nat]]
      /\ passed \in [Stores -> [Budgets -> SUBSET Requests]]
      /\ reached \in [Stores -> [Budgets -> SUBSET Requests]]
      /\ store \in [Processes -> Stores]
      /\ stage \in [Requests -> Places]
  BY DEF LimitInv, CountersTyped
<1>4. /\ hits' \in [Stores -> [Budgets -> Nat]]
      /\ unanswered' \in [Stores -> [Budgets -> Nat]]
      /\ passed' \in [Stores -> [Budgets -> SUBSET Requests]]
      /\ reached' \in [Stores -> [Budgets -> SUBSET Requests]]
      /\ store' \in [Processes -> Stores]
  BY <1>1, <1>2, <1>3
<1>5. /\ stage' \in [Requests -> Places]
      /\ \A r \in Requests : stage'[r] = stage[r] \/ (stage'[r] = "lost" /\ at[r] # None)
  <2>1. p # None /\ "lost" \in Places
    BY ServerAssumption DEF Places, Ends
  <2>2. QED BY <1>1, <1>3, <2>1
<1>6. /\ \A l \in Budgets : /\ hits'[p][l] = 0 /\ unanswered'[p][l] = 0
                            /\ passed'[p][l] = {} /\ reached'[p][l] = {}
      /\ \A s \in Stores, l \in Budgets :
           s # p =>
             /\ hits'[s][l] = hits[s][l]
             /\ unanswered'[s][l] = unanswered[s][l]
             /\ passed'[s][l] = passed[s][l]
             /\ reached'[s][l] = reached[s][l]
  BY <1>1, <1>2, <1>3
<1>7. Resets(p, Budgets)
  <2>1. UNCHANGED <<route, at>>
    BY <1>1
  <2>2. QED BY <1>4, <1>5, <1>6, <2>1 DEF Resets
<1>8. QED BY <1>1, <1>7, CountersReset

LEMMA WindowKeepsLimits ==
  ASSUME LimitInv, NEW s \in Stores, NEW l \in Budgets, ExpireWindow(s, l)
  PROVE  LimitInv'
<1> DEFINE L == {l}
<1>1. /\ hits' = [hits EXCEPT ![s][l] = 0]
      /\ passed' = [passed EXCEPT ![s][l] = {}]
      /\ reached' = [reached EXCEPT ![s][l] = {}]
      /\ unanswered' = [unanswered EXCEPT ![s][l] = 0]
      /\ UNCHANGED <<store, route, at, stage>>
  BY DEF ExpireWindow, process, requests
<1>2. /\ hits \in [Stores -> [Budgets -> Nat]]
      /\ unanswered \in [Stores -> [Budgets -> Nat]]
      /\ passed \in [Stores -> [Budgets -> SUBSET Requests]]
      /\ reached \in [Stores -> [Budgets -> SUBSET Requests]]
      /\ store \in [Processes -> Stores]
      /\ stage \in [Requests -> Places]
  BY DEF LimitInv, CountersTyped
<1>3. /\ hits' \in [Stores -> [Budgets -> Nat]]
      /\ unanswered' \in [Stores -> [Budgets -> Nat]]
      /\ passed' \in [Stores -> [Budgets -> SUBSET Requests]]
      /\ reached' \in [Stores -> [Budgets -> SUBSET Requests]]
  BY <1>1, <1>2
<1>4. /\ \A k \in L : /\ hits'[s][k] = 0 /\ unanswered'[s][k] = 0
                     /\ passed'[s][k] = {} /\ reached'[s][k] = {}
      /\ \A s1 \in Stores, k \in Budgets :
           s1 # s \/ k \notin L =>
             /\ hits'[s1][k] = hits[s1][k]
             /\ unanswered'[s1][k] = unanswered[s1][k]
             /\ passed'[s1][k] = passed[s1][k]
             /\ reached'[s1][k] = reached[s1][k]
  BY <1>1, <1>2
<1>5. /\ L \in SUBSET Budgets /\ UNCHANGED <<route, at>>
      /\ \A r \in Requests :
           stage'[r] = stage[r] \/ (stage'[r] = "lost" /\ at[r] # None)
  BY <1>1
<1>6. store' \in [Processes -> Stores] /\ stage' \in [Requests -> Places]
  BY <1>1, <1>2
<1> HIDE DEF L
<1>7. Resets(s, L)
  BY <1>3, <1>4, <1>5, <1>6 DEF Resets
<1>8. QED BY <1>5, <1>7, CountersReset

----------------------------------------------------------------------------
(* Actions *)

LEMMA ProcessKeepsLimits ==
  ASSUME LimitInv, NEW p \in Processes, ProcessStep(p)
  PROVE  LimitInv'
<1>1. CASE Exit(p)
  BY <1>1, ExitKeepsLimits
<1>2. CASE UNCHANGED <<counters, requests>> /\ store' \in [Processes -> Stores]
  <2>1. /\ UNCHANGED <<hits, passed, reached, unanswered, route, at, stage>>
        /\ at \in [Requests -> Processes \cup {None}] /\ stage \in [Requests -> Places]
        /\ \A r \in Requests : at[r] = None => stage[r] = "new"
    BY <1>2 DEF counters, requests, LimitInv, CountersTyped
  <2>2. QED BY <1>2, <2>1, RequestsGoOn
<1>3. store \in [Processes -> Stores] /\ "redis" \in Stores
  BY DEF LimitInv, CountersTyped, Stores
<1>4. UNCHANGED store \/ store' = [store EXCEPT ![p] = "redis"] =>
        store' \in [Processes -> Stores]
  BY <1>3
<1>5. Exit(p) \/ Disconnected(p)
        \/ (UNCHANGED <<counters, requests>>
              /\ (UNCHANGED store \/ store' = [store EXCEPT ![p] = "redis"]))
  BY DEF ProcessStep, Launch, connectDatabase, connectRedis,
         Reconnected, Signal, disconnectDatabase, disconnectRedis, Crash, process
<1>6. CASE Disconnected(p)
  <2>1. PICK S \in SUBSET {r \in Requests : at[r] = p /\ AtLimiter(r) /\ store[p] = "redis"} :
          CountedInVain(S)
    BY <1>6 DEF Disconnected
  <2>2. S \in SUBSET {r \in Requests : AtLimiter(r)} /\ UNCHANGED <<route, store, at, stage>>
    BY <1>6 DEF Disconnected, requests
  <2>3. QED BY <2>1, <2>2, SomeAreCountedInVain
<1>7. QED BY <1>1, <1>2, <1>4, <1>5, <1>6

LEMMA InProgressAt ==
  ASSUME LimitInv, NEW r \in Requests, stage[r] # "new"
  PROVE  at[r] # None /\ store[at[r]] \in Stores /\ route[r] \in Routes
BY DEF LimitInv, CountersTyped

LEMMA RequestKeepsLimits ==
  ASSUME LimitInv, NEW r \in Requests, Arrive(r) \/ Handle(r) \/ Abandon(r)
  PROVE  LimitInv'
<1>0. /\ stage \in [Requests -> Places] /\ store \in [Processes -> Stores]
      /\ at \in [Requests -> Processes \cup {None}]
      /\ \A q \in Requests : at[q] = None => stage[q] = "new"
  BY DEF LimitInv, CountersTyped
<1>1. CASE Arrive(r)
  <2>1. PICK p \in Processes : at' = [at EXCEPT ![r] = p]
    BY <1>1 DEF Arrive
  <2>2. PICK t \in {"rl:api:", "answered"} : stage' = [stage EXCEPT ![r] = t]
    BY <1>1 DEF Arrive, Goto
  <2>3. /\ UNCHANGED <<hits, passed, reached, unanswered, route, store>> /\ stage[r] = "new"
    BY <1>1 DEF Arrive, process, counters
  <2>4. t \in Places /\ p # None
    BY ServerAssumption DEF Places, Limiters, Ends
  <2>5. /\ at' \in [Requests -> Processes \cup {None}]
        /\ stage' \in [Requests -> Places]
        /\ \A q \in Requests : at'[q] = None => stage'[q] = "new"
    BY <1>0, <2>1, <2>2, <2>4
  <2>6. \A q \in Requests, b \in Budgets :
          stage[q] \in Beyond(b) => stage'[q] \in Beyond(b)
    BY <1>0, <2>2, <2>3, BeyondOrder
  <2>7. QED BY <1>0, <2>3, <2>5, <2>6, RequestsGoOn
<1>2. CASE countRequest(r)
  <2> DEFINE l == stage[r]
             s == store[at[r]]
             b == Budget(s, l)
  <2>1. /\ AtLimiter(r) /\ Counted(r, s, l) /\ UNCHANGED <<route, store, at>>
    BY <1>2 DEF countRequest
  <2>2. at[r] # None /\ s \in Stores /\ route[r] \in Routes /\ l \in Limiters
    BY <2>1, InProgressAt DEF AtLimiter, Limiters, EmailLeaves
  <2>3. counter(s, l) = b /\ kind(b) = kind(l)
    BY <2>2, BudgetOf
  <2>4. CASE hits[s][b] < Limit[kind(b)]
    <3>1. /\ passed' = [passed EXCEPT ![s][b] = @ \cup {r}]
          /\ Goto(r, After(l, route[r]))
      BY <1>2, <2>3, <2>4 DEF countRequest, Proceed
    <3>2. After(l, route[r]) \in Beyond(l)
      BY <2>2, AfterIsBeyond
    <3>3. QED BY <2>1, <2>2, <2>4, <3>1, <3>2, OneIsCounted
  <2>5. CASE ~(hits[s][b] < Limit[kind(b)])
    <3>1. Goto(r, "answered") /\ UNCHANGED passed
      BY <1>2, <2>3, <2>5 DEF countRequest, Proceed
    <3>2. "answered" \in Beyond(l)
      BY <2>2, BeyondOrder DEF Ends
    <3>3. QED BY <2>1, <2>2, <3>1, <3>2, OneIsCounted
  <2>6. QED BY <2>4, <2>5
<1>3. CASE passOnStoreError(r)
  <2> DEFINE l == stage[r]
             t == After(l, route[r])
  <2>1. /\ AtLimiter(r) /\ UNCHANGED <<route, store, at, counters>> /\ Goto(r, t)
    BY <1>3 DEF passOnStoreError, Proceed
  <2>2. at[r] # None /\ route[r] \in Routes /\ l \in Limiters
    BY <2>1, InProgressAt DEF AtLimiter, Limiters, EmailLeaves
  <2>3. t \in Beyond(l) /\ t \in Places
    BY <2>2, AfterIsBeyond, BeyondOrder
  <2>4. \A k \in Budgets : l \in Beyond(k) => t \in Beyond(k)
    BY <2>2, <2>3, BeyondOrder
  <2>5. UNCHANGED <<hits, passed, reached, unanswered, route, store, at>>
    BY <2>1 DEF counters
  <2> HIDE DEF t
  <2>6. QED BY <2>1, <2>2, <2>3, <2>4, <2>5, OneGoesOn
<1>4. CASE ParseBody(r)
  <2>1. /\ stage[r] = "body" /\ UNCHANGED <<hits, passed, reached, unanswered, route, store, at>>
        /\ Goto(r, AfterBody(route[r])) \/ Goto(r, "answered")
    BY <1>4 DEF ParseBody, Proceed, counters
  <2>2. at[r] # None /\ route[r] \in Routes
    BY <2>1, InProgressAt
  <2>3. /\ "answered" \in Places
        /\ \A b \in Budgets : "answered" \in Beyond(b)
    BY BeyondOrder DEF Places, Ends
  <2>4. CASE Goto(r, "answered")
    BY <2>1, <2>2, <2>3, <2>4, OneGoesOn
  <2>5. CASE Goto(r, AfterBody(route[r]))
    BY <2>1, <2>2, <2>5, AfterBodyIsBeyond, OneGoesOn
  <2>6. QED BY <2>1, <2>4, <2>5
<1>5. CASE Respond(r)
  <2>1. /\ stage[r] = "handler" /\ UNCHANGED <<hits, passed, reached, unanswered, route, store, at>>
        /\ Goto(r, "answered")
    BY <1>5 DEF Respond, process, counters
  <2>2. at[r] # None
    BY <2>1, InProgressAt
  <2>3. /\ "answered" \in Places
        /\ \A b \in Budgets : "answered" \in Beyond(b)
    BY BeyondOrder DEF Places, Ends
  <2>4. QED BY <2>1, <2>2, <2>3, OneGoesOn
<1>6. CASE Abandon(r)
  <2>1. UNCHANGED <<hits, passed, reached, unanswered, route, store, at, stage>>
    BY <1>6 DEF Abandon, process, counters
  <2>2. QED BY <1>0, <2>1, RequestsGoOn
<1>7. QED BY <1>1, <1>2, <1>3, <1>4, <1>5, <1>6 DEF Handle

----------------------------------------------------------------------------
(* The theorems *)

LEMMA InitLimits == Init => LimitInv
<1> SUFFICES ASSUME Init PROVE LimitInv
  OBVIOUS
<1> USE DEF Init
<1>1. CountersTyped
  BY DEF CountersTyped, Stores, NoHits, Nobody, Places
<1>2. \A s \in Stores, b \in Budgets :
        hits[s][b] = 0 /\ unanswered[s][b] = 0 /\ passed[s][b] = {} /\ reached[s][b] = {}
  BY DEF NoHits, Nobody
<1> HIDE DEF Init
<1>3. CountedOnce
  BY <1>2 DEF CountedOnce
<1>4. CounterBetween
  <2>1. IsFiniteSet({}) /\ Cardinality({}) = 0
    BY FS_EmptySet
  <2>2. ASSUME NEW s \in Stores, NEW b \in Budgets
        PROVE  Between(s, b)
    <3>1. /\ hits[s][b] = 0 /\ unanswered[s][b] = 0
          /\ passed[s][b] = {} /\ reached[s][b] = {}
      BY <1>2
    <3>2. /\ IsFiniteSet(passed[s][b]) /\ Cardinality(passed[s][b]) = 0
          /\ IsFiniteSet(reached[s][b]) /\ Cardinality(reached[s][b]) = 0
      BY <2>1, <3>1
    <3>3. Limit[kind(b)] \in Nat
      BY LimitOf
    <3>4. QED BY <3>1, <3>2, <3>3 DEF Between
  <2>3. QED BY <2>2 DEF CounterBetween
<1>5. QED BY <1>1, <1>3, <1>4 DEF LimitInv

\* No start, crash or exit of a process, no request and no end of a window
\* leaves the inductive invariant of the limiters.
THEOREM LimiterInvariance == Spec => []LimitInv
<1>1. LimitInv /\ [Next]_vars => LimitInv'
  <2> SUFFICES ASSUME LimitInv, [Next]_vars PROVE LimitInv'
    OBVIOUS
  <2>1. CASE UNCHANGED vars
    <3>1. UNCHANGED <<hits, passed, reached, unanswered, route, store, at, stage>>
      BY <2>1 DEF vars, process, counters, requests
    <3>2. QED BY <3>1, RequestsGoOn DEF LimitInv, CountersTyped
  <2>2. CASE Next
    BY <2>2, ProcessKeepsLimits, RequestKeepsLimits, WindowKeepsLimits DEF Next
  <2>3. QED BY <2>1, <2>2
<1>2. QED BY InitLimits, <1>1, PTL DEF Spec

\* rateLimitStore.ts and rateLimiter.ts: in a window, the limiters of one kind let
\* no more than their limit through over all server processes that count in
\* Redis, and each limiter does that count in memory; and no counter counts
\* anything but the requests that came to them and the scripts that Redis ran
\* without the answer getting through.
THEOREM LimitersHold == Spec => []LimitsHold
<1>1. LimitInv => LimitsHold
  BY DEF LimitInv, CounterBetween, Between, LimitsHold
<1>2. QED BY LimiterInvariance, <1>1, PTL

----------------------------------------------------------------------------
(* What is counted *)

RequestsTotal == "http_requests_total"
ErrorsTotal == "http_errors_total"
Duration == "http_request_duration_seconds"

LEMMA SetValue ==
  ASSUME NEW reg, NEW s, NEW v, NEW t, NEW o
  PROVE  Value(Set(reg, s, v), t, o) = IF t = s THEN v ELSE Value(reg, t, o)
BY DEF Value, Set

LEMMA NameOfSeries ==
  ASSUME NEW n, NEW l
  PROVE  Series(n, l).name = n
BY DEF Series

LEMMA KeysOf ==
  /\ labelKeysOf(RequestsTotal) = {"method", "route", "status"}
  /\ labelKeysOf(ErrorsTotal) = {"method", "route", "status"}
  /\ labelKeysOf(Duration) = {"method", "route"}
  /\ RequestsTotal \in Counters /\ ErrorsTotal \in Counters /\ Duration \in Histograms
BY DEF labelKeysOf, Plain, PerJobType, PerOperation, PerResponse, Histograms, Counters,
       RequestsTotal, ErrorsTotal, Duration

\* A response is counted under its route and status.
LEMMA ResponseSeries ==
  ASSUME NEW n \in {RequestsTotal, ErrorsTotal}, NEW a, NEW s, NEW b, NEW t
  PROVE  Series(n, LabelsOf(a, s)) = Series(n, LabelsOf(b, t)) <=> a = b /\ s = t
<1> DEFINE K == {"method", "route", "status"}
           L == LabelsOf(a, s)
           M == LabelsOf(b, t)
<1>1. DOMAIN L = K /\ DOMAIN M = K /\ K \cap K = K
  BY DEF LabelsOf
<1>2. labelKeysOf(n) = K
  BY KeysOf
<1>3. L["route"] = a /\ L["status"] = s /\ M["route"] = b /\ M["status"] = t
  BY DEF LabelsOf
<1>4. a = b /\ s = t => L = M
  OBVIOUS
<1> HIDE DEF K, L, M
<1>5. /\ Series(n, L).labels = [k \in K |-> L[k]]
      /\ Series(n, M).labels = [k \in K |-> M[k]]
  BY <1>1, <1>2 DEF Series, Restrict
<1>6. Series(n, L) = Series(n, M) => \A k \in K : L[k] = M[k]
  BY <1>5
<1>7. "route" \in K /\ "status" \in K
  BY DEF K
<1>8. QED BY <1>3, <1>4, <1>6, <1>7 DEF L, M

\* Its duration is counted under its route.
LEMMA DurationSeries ==
  ASSUME NEW a, NEW s, NEW b, NEW t
  PROVE  Series(Duration, LabelsOf(a, s)) = Series(Duration, LabelsOf(b, t)) <=> a = b
<1> DEFINE K == {"method", "route"}
           L == LabelsOf(a, s)
           M == LabelsOf(b, t)
<1>1. K \cap DOMAIN L = K /\ K \cap DOMAIN M = K
  BY DEF LabelsOf
<1>2. labelKeysOf(Duration) = K
  BY KeysOf
<1>3. /\ L["route"] = a /\ M["route"] = b
      /\ L["method"] = "any" /\ M["method"] = "any"
  BY DEF LabelsOf
<1>4. "route" \in K /\ \A k \in K : k \in {"method", "route"}
  OBVIOUS
<1> HIDE DEF K, L, M
<1>5. /\ Series(Duration, L) = [name |-> Duration, labels |-> [k \in K |-> L[k]]]
      /\ Series(Duration, M) = [name |-> Duration, labels |-> [k \in K |-> M[k]]]
  BY <1>1, <1>2 DEF Series, Restrict
<1>6. Series(Duration, L) = Series(Duration, M) => \A k \in K : L[k] = M[k]
  <2>1. /\ Series(Duration, L).labels = [k \in K |-> L[k]]
        /\ Series(Duration, M).labels = [k \in K |-> M[k]]
    BY <1>5
  <2>2. QED BY <2>1
<1>7. a = b => [k \in K |-> L[k]] = [k \in K |-> M[k]]
  BY <1>3, <1>4
<1>8. QED BY <1>3, <1>4, <1>5, <1>6, <1>7 DEF L, M

\* The observations of a route.
Observed(reg, rt) == Value(reg, Series(Duration, LabelsOf(rt, "any")), Unobserved)

LEMMA RenderedCount ==
  ASSUME NEW p, NEW rt
  PROVE  Histogram(p, rt).inf = Observed(registry[p], rt).count
BY DEF Histogram, renderHistogram, Observed, Duration

\* One more, if it is of the kind that is counted.
Plus(n, condition) == IF condition THEN n + 1 ELSE n

Requested(reg, rt, st) == counterValue(reg, RequestsTotal, LabelsOf(rt, st))
Failed(reg, rt, st) == counterValue(reg, ErrorsTotal, LabelsOf(rt, st))

LEMMA OtherNames ==
  ASSUME NEW n, NEW m, n # m, NEW k, NEW l
  PROVE  Series(n, k) # Series(m, l)
BY NameOfSeries

LEMMA IncrementCounts ==
  ASSUME NEW reg, NEW n \in Counters, NEW l, NEW m, NEW k, NEW o
  PROVE  Value(increment(reg, n, l, 1), Series(m, k), o) =
           IF Series(m, k) = Series(n, l) THEN Value(reg, Series(n, l), 0) + 1
           ELSE Value(reg, Series(m, k), o)
<1>1. increment(reg, n, l, 1) = Set(reg, Series(n, l), Value(reg, Series(n, l), 0) + 1)
  BY DEF increment
<1>2. QED BY <1>1, SetValue

LEMMA ObserveCounts ==
  ASSUME NEW reg, NEW v \in Nat, NEW l, NEW m, NEW k, NEW o,
         NEW h, h = Value(reg, Series(Duration, l), Unobserved)
  PROVE  Value(observe(reg, Duration, v, l), Series(m, k), o) =
           IF Series(m, k) = Series(Duration, l)
           THEN [counts |-> [i \in DOMAIN Buckets |->
                               Plus(h.counts[i], i \in BucketOf(v))],
                 count |-> h.count + 1, sum |-> h.sum + v]
           ELSE Value(reg, Series(m, k), o)
<1> DEFINE new == [counts |-> [i \in DOMAIN Buckets |->
                                 IF i \in BucketOf(v) THEN h.counts[i] + 1
                                                      ELSE h.counts[i]],
                   count |-> h.count + 1, sum |-> h.sum + v]
<1>1. observe(reg, Duration, v, l) = Set(reg, Series(Duration, l), new)
  <2>1. Duration \in Histograms /\ ~(v < 0)
    BY KeysOf
  <2>2. QED BY <2>1 DEF observe
<1>2. new = [counts |-> [i \in DOMAIN Buckets |->
                           Plus(h.counts[i], i \in BucketOf(v))],
             count |-> h.count + 1, sum |-> h.sum + v]
  BY DEF Plus
<1> HIDE DEF new
<1>3. QED BY <1>1, <1>2, SetValue

\* What requestHttpMetrics records of a response, in a registry reg.
Recorded(reg, rt, st, seconds) ==
  LET requested == increment(reg, RequestsTotal, LabelsOf(rt, st), 1)
      counted == IF st = "2xx" THEN requested
                 ELSE increment(requested, ErrorsTotal, LabelsOf(rt, st), 1)
  IN observe(counted, Duration, seconds, LabelsOf(rt, st))

LEMMA RecordedIs ==
  ASSUME NEW r, NEW st, NEW seconds
  PROVE  recorded(r, st, seconds)
           = Recorded(registry[at[r]], resolveRouteTemplate(r), st, seconds)
BY DEF recorded, Recorded, labels, LabelsOf, RequestsTotal, ErrorsTotal, Duration

LEMMA RecordedCounts ==
  ASSUME NEW reg, NEW a, NEW s, NEW v \in Nat
  PROVE  LET new == Recorded(reg, a, s, v)
         IN  \A rt :
               /\ \A st :
                    /\ Requested(new, rt, st)
                         = Plus(Requested(reg, rt, st), rt = a /\ st = s)
                    /\ Failed(new, rt, st)
                         = Plus(Failed(reg, rt, st), rt = a /\ st = s /\ st # "2xx")
               /\ Observed(new, rt).count = Plus(Observed(reg, rt).count, rt = a)
               /\ \A i \in DOMAIN Buckets :
                    Observed(new, rt).counts[i]
                      = Plus(Observed(reg, rt).counts[i], rt = a /\ i \in BucketOf(v))
<1> DEFINE L == LabelsOf(a, s)
           one == increment(reg, RequestsTotal, L, 1)
           two == IF s = "2xx" THEN one ELSE increment(one, ErrorsTotal, L, 1)
           new == observe(two, Duration, v, L)
<1>1. Recorded(reg, a, s, v) = new
  BY DEF Recorded
<1>2. /\ RequestsTotal \in Counters /\ ErrorsTotal \in Counters
      /\ RequestsTotal # ErrorsTotal /\ RequestsTotal # Duration /\ ErrorsTotal # Duration
  BY KeysOf DEF RequestsTotal, ErrorsTotal, Duration
<1>3. \A m, k, o : Value(one, Series(m, k), o) =
        IF Series(m, k) = Series(RequestsTotal, L)
        THEN Value(reg, Series(RequestsTotal, L), 0) + 1
        ELSE Value(reg, Series(m, k), o)
  BY <1>2, IncrementCounts
<1>4. \A m, k, o : Value(two, Series(m, k), o) =
        IF s # "2xx" /\ Series(m, k) = Series(ErrorsTotal, L)
        THEN Value(one, Series(ErrorsTotal, L), 0) + 1
        ELSE Value(one, Series(m, k), o)
  BY <1>2, IncrementCounts
<1> DEFINE h == Value(two, Series(Duration, L), Unobserved)
           seen == [counts |-> [i \in DOMAIN Buckets |->
                                  Plus(h.counts[i], i \in BucketOf(v))],
                    count |-> h.count + 1, sum |-> h.sum + v]
<1> HIDE DEF one, two
<1>5. \A m, k, o : Value(new, Series(m, k), o) =
        IF Series(m, k) = Series(Duration, L) THEN seen
        ELSE Value(two, Series(m, k), o)
  <2>1. h = Value(two, Series(Duration, L), Unobserved)
    OBVIOUS
  <2> HIDE DEF h
  <2>2. QED BY <2>1, ObserveCounts
<1> HIDE DEF new
<1>6. h = Observed(reg, a)
  <2>1. Series(Duration, L) = Series(Duration, LabelsOf(a, "any"))
    BY DurationSeries
  <2>2. h = Value(one, Series(Duration, L), Unobserved)
    BY <1>2, <1>4, OtherNames
  <2>3. h = Value(reg, Series(Duration, L), Unobserved)
    BY <1>2, <1>3, <2>2, OtherNames
  <2>4. QED BY <2>1, <2>3 DEF Observed
<1>7. /\ seen.count = h.count + 1
      /\ \A i \in DOMAIN Buckets : seen.counts[i] = Plus(h.counts[i], i \in BucketOf(v))
  OBVIOUS
<1> HIDE DEF h, seen
<1>8. ASSUME NEW rt
      PROVE  Observed(new, rt) = IF rt = a THEN seen ELSE Observed(reg, rt)
  <2> DEFINE S == Series(Duration, LabelsOf(rt, "any"))
  <2>1. S = Series(Duration, L) <=> rt = a
    BY DurationSeries
  <2>2. /\ S # Series(ErrorsTotal, L) /\ S # Series(RequestsTotal, L)
    BY <1>2, OtherNames
  <2>3. Value(two, S, Unobserved) = Value(reg, S, Unobserved)
    BY <1>3, <1>4, <2>2
  <2>4. Value(new, S, Unobserved) = IF rt = a THEN seen ELSE Value(two, S, Unobserved)
    BY <1>5, <2>1
  <2>5. QED BY <2>3, <2>4 DEF Observed
<1>9. ASSUME NEW rt, NEW st
      PROVE  Requested(new, rt, st) = Plus(Requested(reg, rt, st), rt = a /\ st = s)
  <2> DEFINE S == Series(RequestsTotal, LabelsOf(rt, st))
  <2>1. S = Series(RequestsTotal, L) <=> rt = a /\ st = s
    BY ResponseSeries
  <2>2. S # Series(ErrorsTotal, L) /\ S # Series(Duration, L)
    BY <1>2, OtherNames
  <2>3. Value(new, S, 0) = Value(two, S, 0)
    BY <1>5, <2>2
  <2>4. Value(two, S, 0) = Value(one, S, 0)
    BY <1>4, <2>2
  <2>5. Value(one, S, 0) = Plus(Value(reg, S, 0), rt = a /\ st = s)
    BY <1>3, <2>1 DEF Plus
  <2>6. QED BY <2>3, <2>4, <2>5 DEF Requested, counterValue
<1>10. ASSUME NEW rt, NEW st
       PROVE  Failed(new, rt, st)
                = Plus(Failed(reg, rt, st), rt = a /\ st = s /\ st # "2xx")
  <2> DEFINE S == Series(ErrorsTotal, LabelsOf(rt, st))
  <2>1. S = Series(ErrorsTotal, L) <=> rt = a /\ st = s
    BY ResponseSeries
  <2>2. S # Series(RequestsTotal, L) /\ S # Series(Duration, L)
    BY <1>2, OtherNames
  <2>3. Value(new, S, 0) = Value(two, S, 0)
    BY <1>5, <2>2
  <2>4. Value(one, S, 0) = Value(reg, S, 0)
    BY <1>3, <2>2
  <2>5. Value(two, S, 0) = Plus(Value(reg, S, 0), rt = a /\ st = s /\ st # "2xx")
    BY <1>4, <2>1, <2>4 DEF Plus
  <2>6. QED BY <2>3, <2>5 DEF Failed, counterValue
<1>11. ASSUME NEW rt
       PROVE  /\ Observed(new, rt).count = Plus(Observed(reg, rt).count, rt = a)
              /\ \A i \in DOMAIN Buckets :
                   Observed(new, rt).counts[i]
                     = Plus(Observed(reg, rt).counts[i], rt = a /\ i \in BucketOf(v))
  BY <1>6, <1>7, <1>8 DEF Plus
<1>12. QED BY <1>1, <1>9, <1>10, <1>11

----------------------------------------------------------------------------
(* The inductive invariant of the metrics.  A response is recorded when its *)
(* request ends, so that it is a new one; what else a process counts is     *)
(* kept in series of other names.                                           *)

MetricsTyped ==
  /\ registry = [p \in Processes |-> registry[p]]
  /\ finished = [p \in Processes |-> finished[p]]

ResponsesEnded(p) ==
  /\ IsFiniteSet(finished[p])
  /\ \A f \in finished[p] : /\ f.request \in Requests /\ stage[f.request] = "answered"
                            /\ f.seconds \in Nat

InBucket(p, rt, i) == {f \in Finished(p, rt, Statuses) : i \in BucketOf(f.seconds)}

Tells(p, rt) ==
  /\ \A st \in Statuses :
       /\ Requested(registry[p], rt, st) = Cardinality(Finished(p, rt, {st}))
       /\ Failed(registry[p], rt, st) = Cardinality(Finished(p, rt, {st} \ {"2xx"}))
  /\ Observed(registry[p], rt).count = Cardinality(Finished(p, rt, Statuses))
  /\ \A i \in DOMAIN Buckets :
       Observed(registry[p], rt).counts[i] = Cardinality(InBucket(p, rt, i))

MetricsInv ==
  MetricsTyped /\ \A p \in Processes : ResponsesEnded(p) /\ \A rt : Tells(p, rt)

\* A process whose registry has not changed, where it matters.
LEMMA TellsStill ==
  ASSUME NEW p \in Processes, ResponsesEnded(p), \A rt : Tells(p, rt),
         finished'[p] = finished[p],
         \A rt : /\ \A st : /\ Requested(registry'[p], rt, st) = Requested(registry[p], rt, st)
                            /\ Failed(registry'[p], rt, st) = Failed(registry[p], rt, st)
                 /\ Observed(registry'[p], rt) = Observed(registry[p], rt),
         \A r \in Requests : stage[r] = "answered" => stage'[r] = "answered"
  PROVE  ResponsesEnded(p)' /\ \A rt : Tells(p, rt)'
<1>1. ResponsesEnded(p)'
  BY DEF ResponsesEnded
<1>2. \A rt, S : Finished(p, rt, S)' = Finished(p, rt, S)
  BY DEF Finished
<1>3. \A rt, i : InBucket(p, rt, i)' = InBucket(p, rt, i)
  BY <1>2 DEF InBucket
<1>4. ASSUME NEW rt
      PROVE  Tells(p, rt)'
  <2>1. Tells(p, rt)
    OBVIOUS
  <2>2. ASSUME NEW st \in Statuses
        PROVE  /\ Requested(registry'[p], rt, st) = Cardinality(Finished(p, rt, {st})')
               /\ Failed(registry'[p], rt, st)
                    = Cardinality(Finished(p, rt, {st} \ {"2xx"})')
    BY <1>2, <2>1 DEF Tells
  <2>3. /\ Observed(registry'[p], rt).count = Cardinality(Finished(p, rt, Statuses)')
        /\ \A i \in DOMAIN Buckets :
             Observed(registry'[p], rt).counts[i] = Cardinality(InBucket(p, rt, i)')
    BY <1>2, <1>3, <2>1 DEF Tells
  <2>4. QED BY <2>2, <2>3 DEF Tells, Requested, Failed, Observed
<1>5. QED BY <1>1, <1>4

\* A process that starts again has counted nothing.
LEMMA TellsNothing ==
  ASSUME NEW p \in Processes, finished[p] = {}, registry[p] = NoValues
  PROVE  ResponsesEnded(p) /\ \A rt : Tells(p, rt)
<1>1. ResponsesEnded(p)
  BY FS_EmptySet DEF ResponsesEnded
<1>2. \A rt, S : Finished(p, rt, S) = {}
  BY DEF Finished
<1>3. \A rt, i : InBucket(p, rt, i) = {}
  BY <1>2 DEF InBucket
<1>4. \A s, o : Value(registry[p], s, o) = o
  BY DEF Value, NoValues
<1>5. \A rt, st : Requested(registry[p], rt, st) = 0 /\ Failed(registry[p], rt, st) = 0
  BY <1>4 DEF Requested, Failed, counterValue
<1>6. \A rt : /\ Observed(registry[p], rt).count = 0
              /\ \A i \in DOMAIN Buckets : Observed(registry[p], rt).counts[i] = 0
  BY <1>4 DEF Observed, Unobserved
<1>7. Cardinality({}) = 0
  BY FS_EmptySet
<1>8. ASSUME NEW rt
      PROVE  Tells(p, rt)
  BY <1>2, <1>3, <1>5, <1>6, <1>7 DEF Tells
<1>9. QED BY <1>1, <1>8

\* The same of the state after a step.
LEMMA TellsNothingNext ==
  ASSUME NEW p \in Processes, finished'[p] = {}, registry'[p] = NoValues
  PROVE  ResponsesEnded(p)' /\ \A rt : Tells(p, rt)'
<1>1. ResponsesEnded(p)'
  BY FS_EmptySet DEF ResponsesEnded
<1>2. \A rt, S : Finished(p, rt, S)' = {}
  BY DEF Finished
<1>3. \A rt, i : InBucket(p, rt, i)' = {}
  BY <1>2 DEF InBucket
<1>4. \A s, o : Value(registry'[p], s, o) = o
  BY DEF Value, NoValues
<1>5. \A rt, st : Requested(registry'[p], rt, st) = 0 /\ Failed(registry'[p], rt, st) = 0
  BY <1>4 DEF Requested, Failed, counterValue
<1>6. \A rt : /\ Observed(registry'[p], rt).count = 0
              /\ \A i \in DOMAIN Buckets : Observed(registry'[p], rt).counts[i] = 0
  BY <1>4 DEF Observed, Unobserved
<1>7. Cardinality({}) = 0
  BY FS_EmptySet
<1>8. ASSUME NEW rt
      PROVE  Tells(p, rt)'
  BY <1>2, <1>3, <1>5, <1>6, <1>7 DEF Tells, Requested, Failed, Observed
<1>9. QED BY <1>1, <1>8

LEMMA GrowsByOne ==
  ASSUME NEW T, IsFiniteSet(T), NEW e, e \notin T, NEW c \in BOOLEAN, NEW U,
         U = IF c THEN T \cup {e} ELSE T
  PROVE  Cardinality(U) = Plus(Cardinality(T), c)
BY FS_AddElement DEF Plus

\* A response is recorded: seconds of a request r with a status.
LEMMA TellsOneMore ==
  ASSUME NEW p \in Processes, ResponsesEnded(p), \A rt : Tells(p, rt),
         NEW r \in Requests, stage[r] # "answered", DOMAIN stage = Requests,
         stage' = [stage EXCEPT ![r] = "answered"],
         NEW a, NEW s \in Statuses, NEW v \in Nat,
         registry'[p] = Recorded(registry[p], a, s, v),
         finished'[p] = finished[p] \cup
           {[request |-> r, label |-> a, status |-> s, seconds |-> v]}
  PROVE  ResponsesEnded(p)' /\ \A rt : Tells(p, rt)'
<1> DEFINE e == [request |-> r, label |-> a, status |-> s, seconds |-> v]
<1>1. e.request = r /\ e.label = a /\ e.status = s /\ e.seconds = v
      /\ finished'[p] = finished[p] \cup {e}
  OBVIOUS
<1> HIDE DEF e
<1>2. e \notin finished[p] /\ IsFiniteSet(finished[p])
  BY <1>1 DEF ResponsesEnded
<1>3. ResponsesEnded(p)'
  <2>1. IsFiniteSet(finished'[p])
    BY <1>1, <1>2, FS_AddElement
  <2>2. \A f \in finished'[p] : /\ f.request \in Requests
                                /\ stage'[f.request] = "answered"
                                /\ f.seconds \in Nat
    <3>1. stage'[r] = "answered"
      OBVIOUS
    <3>2. \A q \in Requests : stage[q] = "answered" => stage'[q] = "answered"
      OBVIOUS
    <3>3. QED BY <1>1, <3>1, <3>2 DEF ResponsesEnded
  <2>3. QED BY <2>1, <2>2 DEF ResponsesEnded
<1>4. ASSUME NEW rt, NEW S
      PROVE  Cardinality(Finished(p, rt, S)') =
               Plus(Cardinality(Finished(p, rt, S)), rt = a /\ s \in S)
  <2> DEFINE T == Finished(p, rt, S)
             U == Finished(p, rt, S)'
  <2>1. T \subseteq finished[p] /\ IsFiniteSet(T) /\ e \notin T
    BY <1>2, FS_Subset DEF Finished
  <2>2. U = IF rt = a /\ s \in S THEN T \cup {e} ELSE T
    BY <1>1 DEF Finished
  <2> HIDE DEF T, U
  <2>3. (rt = a /\ s \in S) \in BOOLEAN
    OBVIOUS
  <2>4. Cardinality(U) = Plus(Cardinality(T), rt = a /\ s \in S)
    BY <2>1, <2>2, <2>3, GrowsByOne
  <2>5. QED BY <2>4 DEF T, U
<1>5. ASSUME NEW rt, NEW i
      PROVE  Cardinality(InBucket(p, rt, i)') =
               Plus(Cardinality(InBucket(p, rt, i)), rt = a /\ i \in BucketOf(v))
  <2> DEFINE T == InBucket(p, rt, i)
             U == InBucket(p, rt, i)'
  <2>1. T \subseteq finished[p] /\ IsFiniteSet(T) /\ e \notin T
    BY <1>2, FS_Subset DEF InBucket, Finished
  <2>2. U = IF rt = a /\ i \in BucketOf(v) THEN T \cup {e} ELSE T
    BY <1>1 DEF InBucket, Finished
  <2> HIDE DEF T, U
  <2>3. (rt = a /\ i \in BucketOf(v)) \in BOOLEAN
    OBVIOUS
  <2>4. Cardinality(U) = Plus(Cardinality(T), rt = a /\ i \in BucketOf(v))
    BY <2>1, <2>2, <2>3, GrowsByOne
  <2>5. QED BY <2>4 DEF T, U
<1>6. ASSUME NEW rt
      PROVE  Tells(p, rt)'
  <2>1. Tells(p, rt)
    OBVIOUS
  <2>2. /\ \A st :
             /\ Requested(registry'[p], rt, st)
                  = Plus(Requested(registry[p], rt, st), rt = a /\ st = s)
             /\ Failed(registry'[p], rt, st)
                  = Plus(Failed(registry[p], rt, st), rt = a /\ st = s /\ st # "2xx")
        /\ Observed(registry'[p], rt).count = Plus(Observed(registry[p], rt).count, rt = a)
        /\ \A i \in DOMAIN Buckets :
             Observed(registry'[p], rt).counts[i]
               = Plus(Observed(registry[p], rt).counts[i], rt = a /\ i \in BucketOf(v))
    BY RecordedCounts
  <2>3. ASSUME NEW st \in Statuses
        PROVE  Requested(registry'[p], rt, st) = Cardinality(Finished(p, rt, {st})')
    <3>1. Cardinality(Finished(p, rt, {st})')
            = Plus(Cardinality(Finished(p, rt, {st})), rt = a /\ s \in {st})
      BY <1>4
    <3>2. QED BY <2>1, <2>2, <3>1 DEF Tells, Plus
  <2>4. ASSUME NEW st \in Statuses
        PROVE  Failed(registry'[p], rt, st) = Cardinality(Finished(p, rt, {st} \ {"2xx"})')
    <3>1. Cardinality(Finished(p, rt, {st} \ {"2xx"})')
            = Plus(Cardinality(Finished(p, rt, {st} \ {"2xx"})),
                   rt = a /\ s \in {st} \ {"2xx"})
      BY <1>4
    <3>2. QED BY <2>1, <2>2, <3>1 DEF Tells, Plus
  <2>5. Observed(registry'[p], rt).count = Cardinality(Finished(p, rt, Statuses)')
    <3>1. Cardinality(Finished(p, rt, Statuses)')
            = Plus(Cardinality(Finished(p, rt, Statuses)), rt = a /\ s \in Statuses)
      BY <1>4
    <3>2. QED BY <2>1, <2>2, <3>1 DEF Tells, Plus
  <2>6. ASSUME NEW i \in DOMAIN Buckets
        PROVE  Observed(registry'[p], rt).counts[i] = Cardinality(InBucket(p, rt, i)')
    BY <1>5, <2>1, <2>2 DEF Tells, Plus
  <2>7. QED BY <2>3, <2>4, <2>5, <2>6 DEF Tells, Requested, Failed, Observed
<1>7. QED BY <1>3, <1>6

----------------------------------------------------------------------------
(* Steps and the metrics *)

AnsweredStay == \A r \in Requests : stage[r] = "answered" => stage'[r] = "answered"

LEMMA SameMetrics ==
  ASSUME MetricsInv, UNCHANGED metrics, AnsweredStay
  PROVE  MetricsInv'
<1>1. registry' = registry /\ finished' = finished
  BY DEF metrics
<1>2. MetricsTyped'
  BY <1>1 DEF MetricsInv, MetricsTyped
<1>3. ASSUME NEW p \in Processes
      PROVE  ResponsesEnded(p)' /\ \A rt : Tells(p, rt)'
  <2>1. ResponsesEnded(p) /\ \A rt : Tells(p, rt)
    BY DEF MetricsInv
  <2>2. QED BY <1>1, <2>1, TellsStill DEF AnsweredStay
<1>4. QED BY <1>2, <1>3 DEF MetricsInv

\* What happens to the metrics of one process.
LEMMA OtherMetrics ==
  ASSUME MetricsInv, NEW p \in Processes,
         registry' = [registry EXCEPT ![p] = registry'[p]],
         finished' = [finished EXCEPT ![p] = finished'[p]],
         AnsweredStay,
         ResponsesEnded(p)' /\ \A rt : Tells(p, rt)'
  PROVE  MetricsInv'
<1>1. MetricsTyped'
  BY DEF MetricsInv, MetricsTyped
<1>2. ASSUME NEW q \in Processes, q # p
      PROVE  ResponsesEnded(q)' /\ \A rt : Tells(q, rt)'
  <2>1. ResponsesEnded(q) /\ \A rt : Tells(q, rt)
    BY DEF MetricsInv
  <2>2. registry'[q] = registry[q] /\ finished'[q] = finished[q]
    BY <1>2 DEF MetricsInv, MetricsTyped
  <2>3. QED BY <2>1, <2>2, TellsStill DEF AnsweredStay
<1>3. QED BY <1>1, <1>2 DEF MetricsInv

\* A process ends, and its metrics with it.
LEMMA ExitKeepsMetrics ==
  ASSUME LimitInv, MetricsInv, NEW p \in Processes, Exit(p)
  PROVE  MetricsInv'
<1>1. /\ registry' = [registry EXCEPT ![p] = NoValues]
      /\ finished' = [finished EXCEPT ![p] = {}]
  BY DEF Exit
<1>2. AnsweredStay
  BY DEF Exit, AnsweredStay, InProgress, Ends
<1>3. registry'[p] = NoValues /\ finished'[p] = {}
  BY <1>1 DEF MetricsInv, MetricsTyped
<1>4. ResponsesEnded(p)' /\ \A rt : Tells(p, rt)'
  BY <1>3, TellsNothingNext
<1>5. QED BY <1>1, <1>2, <1>3, <1>4, OtherMetrics

\* The Redis client counts its errors in a series of another name.
LEMMA DisconnectedKeepsMetrics ==
  ASSUME MetricsInv, NEW p \in Processes, Disconnected(p)
  PROVE  MetricsInv'
<1> DEFINE N == "redis_connection_errors_total"
           L == [l \in {} |-> None]
           R == increment(registry[p], N, L, 1)
<1>1. /\ registry' = [registry EXCEPT ![p] = R] /\ finished' = finished
      /\ UNCHANGED stage
  BY DEF Disconnected, requests
<1>2. AnsweredStay
  BY <1>1 DEF AnsweredStay
<1>3. registry'[p] = R
  BY <1>1 DEF MetricsInv, MetricsTyped
<1>4. N \in Counters /\ N # RequestsTotal /\ N # ErrorsTotal /\ N # Duration
  BY DEF Counters, Plain, RequestsTotal, ErrorsTotal, Duration
<1> HIDE DEF N, L
<1>5. ASSUME NEW rt
      PROVE  /\ \A st : /\ Requested(R, rt, st) = Requested(registry[p], rt, st)
                        /\ Failed(R, rt, st) = Failed(registry[p], rt, st)
             /\ Observed(R, rt) = Observed(registry[p], rt)
  BY <1>4, OtherNames, IncrementCounts DEF Requested, Failed, Observed, counterValue
<1> HIDE DEF R
<1>6. ResponsesEnded(p)' /\ \A rt : Tells(p, rt)'
  <2>1. ResponsesEnded(p) /\ \A rt : Tells(p, rt)
    BY DEF MetricsInv
  <2>2. QED BY <1>1, <1>2, <1>3, <1>5, <2>1, TellsStill DEF AnsweredStay
<1>7. /\ registry' = [registry EXCEPT ![p] = registry'[p]]
      /\ finished' = [finished EXCEPT ![p] = finished'[p]]
  BY <1>1, <1>3 DEF MetricsInv, MetricsTyped
<1>8. QED BY <1>1, <1>2, <1>6, <1>7, OtherMetrics

\* A request is answered after the middleware of the metrics.
LEMMA AnswerKeepsMetrics ==
  ASSUME LimitInv, MetricsInv, NEW r \in Requests, NEW st \in Statuses,
         stage[r] # "new", stage[r] # "answered", Goto(r, "answered"),
         requestHttpMetrics(r, st)
  PROVE  MetricsInv'
<1>1. /\ stage' = [stage EXCEPT ![r] = "answered"] /\ stage \in [Requests -> Places]
      /\ DOMAIN stage = Requests /\ at[r] \in Processes
  BY DEF Goto, LimitInv, CountersTyped
<1>2. AnsweredStay
  BY <1>1 DEF AnsweredStay
<1>3. CASE UNCHANGED metrics
  BY <1>2, <1>3, SameMetrics
<1>4. CASE \E v \in Durations :
             /\ registry' = [registry EXCEPT ![at[r]] = recorded(r, st, v)]
             /\ finished' = [finished EXCEPT ![at[r]] = @ \cup
                  {[request |-> r, label |-> resolveRouteTemplate(r),
                    status |-> st, seconds |-> v]}]
  <2>0. PICK p \in Processes : p = at[r]
    BY <1>1
  <2>a. PICK a : a = resolveRouteTemplate(r)
    OBVIOUS
  <2>1. PICK v \in Durations :
          /\ registry' = [registry EXCEPT ![p] = recorded(r, st, v)]
          /\ finished' = [finished EXCEPT ![p] = @ \cup
               {[request |-> r, label |-> a, status |-> st, seconds |-> v]}]
    BY <1>4, <2>0, <2>a
  <2>2. v \in Nat
    BY ServerAssumption
  <2>3. recorded(r, st, v) = Recorded(registry[p], a, st, v)
    BY <2>0, <2>a, RecordedIs
  <2>4. /\ registry'[p] = Recorded(registry[p], a, st, v)
        /\ finished'[p] = finished[p] \cup
             {[request |-> r, label |-> a, status |-> st, seconds |-> v]}
    BY <2>1, <2>3 DEF MetricsInv, MetricsTyped
  <2>5. ResponsesEnded(p) /\ \A rt : Tells(p, rt)
    BY DEF MetricsInv
  <2>6. ResponsesEnded(p)' /\ \A rt : Tells(p, rt)'
    BY <1>1, <2>2, <2>4, <2>5, TellsOneMore
  <2>7. /\ registry' = [registry EXCEPT ![p] = registry'[p]]
        /\ finished' = [finished EXCEPT ![p] = finished'[p]]
    BY <2>1, <2>3, <2>4
  <2>8. QED BY <1>2, <2>6, <2>7, OtherMetrics
<1>5. QED BY <1>3, <1>4 DEF requestHttpMetrics

LEMMA ProcessKeepsMetrics ==
  ASSUME LimitInv, MetricsInv, NEW p \in Processes, ProcessStep(p)
  PROVE  MetricsInv'
<1>1. CASE Exit(p)
  BY <1>1, ExitKeepsMetrics
<1>2. CASE Disconnected(p)
  BY <1>2, DisconnectedKeepsMetrics
<1>3. CASE UNCHANGED <<metrics, requests>>
  <2>1. AnsweredStay
    BY <1>3 DEF requests, AnsweredStay
  <2>2. QED BY <1>3, <2>1, SameMetrics
<1>4. Exit(p) \/ Disconnected(p) \/ UNCHANGED <<metrics, requests>>
  BY DEF ProcessStep, Launch, connectDatabase, connectRedis, Reconnected, Signal,
         disconnectDatabase, disconnectRedis, Crash
<1>5. QED BY <1>1, <1>2, <1>3, <1>4

LEMMA RequestKeepsMetrics ==
  ASSUME LimitInv, MetricsInv, NEW r \in Requests, Arrive(r) \/ Handle(r) \/ Abandon(r)
  PROVE  MetricsInv'
<1>1. stage \in [Requests -> Places]
  BY DEF LimitInv, CountersTyped
<1>2. ASSUME NEW s, Goto(r, s), stage[r] # "answered"
      PROVE  AnsweredStay
  BY <1>1, <1>2 DEF Goto, AnsweredStay
<1>3. "4xx" \in Statuses
  BY DEF Statuses
<1>4. CASE Arrive(r)
  <2>1. UNCHANGED metrics /\ stage[r] = "new" /\ \E s : Goto(r, s)
    BY <1>4 DEF Arrive
  <2>2. QED BY <1>2, <2>1, SameMetrics
<1>5. CASE countRequest(r)
  <2>1. stage[r] # "answered" /\ stage[r] # "new"
    BY <1>5 DEF countRequest, AtLimiter, Limiters, EmailLeaves
  <2>2. \/ (\E s : Goto(r, s)) /\ UNCHANGED metrics
        \/ Goto(r, "answered") /\ requestHttpMetrics(r, "4xx")
    BY <1>5 DEF countRequest, Proceed
  <2>3. QED BY <1>2, <1>3, <2>1, <2>2, SameMetrics, AnswerKeepsMetrics
<1>6. CASE passOnStoreError(r)
  <2>1. /\ stage[r] # "answered" /\ UNCHANGED metrics /\ \E s : Goto(r, s)
    BY <1>6 DEF passOnStoreError, AtLimiter, Limiters, EmailLeaves, Proceed
  <2>2. QED BY <1>2, <2>1, SameMetrics
<1>7. CASE ParseBody(r)
  <2>1. stage[r] = "body"
    BY <1>7 DEF ParseBody
  <2>2. \/ (\E s : Goto(r, s)) /\ UNCHANGED metrics
        \/ Goto(r, "answered") /\ requestHttpMetrics(r, "4xx")
    BY <1>7 DEF ParseBody, Proceed
  <2>3. QED BY <1>2, <1>3, <2>1, <2>2, SameMetrics, AnswerKeepsMetrics
<1>8. CASE Respond(r)
  <2>1. stage[r] = "handler" /\ Goto(r, "answered")
    BY <1>8 DEF Respond
  <2>2. \E st \in Statuses : requestHttpMetrics(r, st)
    BY <1>3, <1>8 DEF Respond
  <2>3. QED BY <2>1, <2>2, AnswerKeepsMetrics
<1>9. CASE Abandon(r)
  <2>1. UNCHANGED metrics /\ AnsweredStay
    BY <1>9 DEF Abandon, AnsweredStay
  <2>2. QED BY <2>1, SameMetrics
<1>10. QED BY <1>4, <1>5, <1>6, <1>7, <1>8, <1>9 DEF Handle

LEMMA InitMetrics == Init => MetricsInv
<1> SUFFICES ASSUME Init PROVE MetricsInv
  OBVIOUS
<1>1. registry = [p \in Processes |-> NoValues] /\ finished = [p \in Processes |-> {}]
  BY DEF Init
<1>2. MetricsTyped
  BY <1>1 DEF MetricsTyped
<1>3. ASSUME NEW p \in Processes
      PROVE  ResponsesEnded(p) /\ \A rt : Tells(p, rt)
  <2>1. registry[p] = NoValues /\ finished[p] = {}
    BY <1>1
  <2>2. QED BY <2>1, TellsNothing
<1>4. QED BY <1>2, <1>3 DEF MetricsInv

\* No start, crash or exit of a process and no request leaves the inductive
\* invariant of the metrics.
THEOREM MetricsInvariance == Spec => []MetricsInv
<1>1. LimitInv /\ MetricsInv /\ [Next]_vars => MetricsInv'
  <2> SUFFICES ASSUME LimitInv, MetricsInv, [Next]_vars PROVE MetricsInv'
    OBVIOUS
  <2>1. CASE UNCHANGED vars
    <3>1. UNCHANGED metrics /\ AnsweredStay
      BY <2>1 DEF vars, requests, AnsweredStay
    <3>2. QED BY <3>1, SameMetrics
  <2>2. ASSUME NEW s \in Stores, NEW b \in Budgets, ExpireWindow(s, b)
        PROVE  MetricsInv'
    <3>1. UNCHANGED metrics /\ AnsweredStay
      BY <2>2 DEF ExpireWindow, requests, AnsweredStay
    <3>2. QED BY <3>1, SameMetrics
  <2>3. CASE Next
    BY <2>2, <2>3, ProcessKeepsMetrics, RequestKeepsMetrics DEF Next
  <2>4. QED BY <2>1, <2>3
<1>2. QED BY InitMetrics, LimiterInvariance, <1>1, PTL DEF Spec

\* httpMetrics.ts: of every process, the counters of requests and of errors and
\* the count of the histogram of durations are, under each route and status,
\* those of the responses it has sent since it started, whatever requests were
\* lost, refused or abandoned and whatever else it has counted.
THEOREM CountersHold ==
  Spec => [](\A p \in Processes : \A rt : CountersTell(p, rt))
<1>1. MetricsInv => \A p \in Processes : \A rt : CountersTell(p, rt)
  <2> SUFFICES ASSUME MetricsInv, NEW p \in Processes, NEW rt
               PROVE  CountersTell(p, rt)
    OBVIOUS
  <2>1. Tells(p, rt)
    BY DEF MetricsInv
  <2>2. QED BY <2>1, RenderedCount DEF Tells, CountersTell, Requested, Failed,
              RequestsTotal, ErrorsTotal
<1>2. QED BY MetricsInvariance, <1>1, PTL

\* registry.ts, observe: each response is counted in the one bucket that its
\* duration belongs to, the smallest that fits, and in no other; rendering adds
\* them up.
THEOREM BucketsHold ==
  Spec => [](\A p \in Processes : \A rt : \A i \in DOMAIN Buckets :
               Observed(registry[p], rt).counts[i] = Cardinality(InBucket(p, rt, i)))
<1>1. MetricsInv => \A p \in Processes : \A rt : \A i \in DOMAIN Buckets :
                      Observed(registry[p], rt).counts[i] = Cardinality(InBucket(p, rt, i))
  BY DEF MetricsInv, Tells
<1>2. QED BY MetricsInvariance, <1>1, PTL

----------------------------------------------------------------------------
(* What is rendered.  The running total of the buckets is a recursion over  *)
(* their number, and induction over numbers follows from the fact that      *)
(* every set of numbers has a least one.                                    *)

\* A set of numbers has a least one: they are well-founded.
LEMMA LeastOf ==
  ASSUME NEW S \in SUBSET Nat, S # {}
  PROVE  \E m \in S : \A k \in S : m <= k
PROOF
<1> DEFINE Less == OpToRel(<, Nat)
<1>1. IsWellFoundedOn(Less, Nat)
  BY NatLessThanWellFounded
<1> HIDE DEF Less
<1>2. PICK m \in S : \A k \in S : <<k, m>> \notin Less
  BY <1>1, WFMin
<1>3. ASSUME NEW k \in S PROVE m <= k
  <2>1. k \in Nat /\ m \in Nat /\ <<k, m>> \notin Less
    BY <1>2
  <2>2. ~(k < m)
    BY <2>1 DEF Less, OpToRel
  <2> QED
    BY <2>1, <2>2
<1> QED
  BY <1>3

\* Induction for a set of numbers.
LEMMA AllNumbers ==
  ASSUME NEW P \in SUBSET Nat, 0 \in P, \A n \in P : n + 1 \in P
  PROVE  P = Nat
<1> DEFINE Others == Nat \ P
<1>1. CASE Others # {}
  <2>1. PICK m \in Others : \A k \in Others : m <= k
    BY <1>1, LeastOf
  <2>2. m \in Nat /\ m # 0 /\ m \notin P
    OBVIOUS
  <2>3. m - 1 \in Nat
    BY <2>2
  <2>4. m - 1 \in P
    BY <2>1, <2>2, <2>3
  <2>5. (m - 1) + 1 = m
    BY <2>2
  <2>6. QED BY <2>2, <2>4, <2>5
<1>2. QED BY <1>1

\* renderPrometheus adds the counts up bucket by bucket.
LEMMA CumulativeIs ==
  ASSUME NEW counts
  PROVE  /\ Cumulative(counts)[0] = 0
         /\ \A i \in DOMAIN Buckets :
              Cumulative(counts)[i] = Cumulative(counts)[i - 1] + counts[i]
<1> DEFINE n == Len(Buckets)
           Total(f, m) ==
             f = [i \in 0 .. m |-> IF i = 0 THEN 0 ELSE f[i - 1] + counts[i]]
           Reached == {m \in Nat : \E f : Total(f, m)}
<1>1. n \in Nat /\ DOMAIN Buckets = 1 .. n
  BY BucketsAssumption
<1>2. 0 \in Reached
  <2> DEFINE f == [i \in 0 .. 0 |-> 0]
  <2>1. Total(f, 0)
    OBVIOUS
  <2>2. QED BY <2>1
<1>3. ASSUME NEW m \in Reached PROVE m + 1 \in Reached
  <2>1. m \in Nat
    OBVIOUS
  <2>2. PICK f : Total(f, m)
    OBVIOUS
  <2> DEFINE g == [i \in 0 .. m + 1 |->
                     IF i = m + 1 THEN f[m] + counts[m + 1] ELSE f[i]]
             h == [i \in 0 .. m + 1 |-> IF i = 0 THEN 0 ELSE g[i - 1] + counts[i]]
  <2>3. ASSUME NEW i \in 0 .. m + 1 PROVE g[i] = h[i]
    <3>1. CASE i = m + 1
      <4>1. g[m] = f[m] /\ g[i] = f[m] + counts[m + 1]
        BY <2>1, <3>1
      <4>2. h[i] = g[m] + counts[m + 1]
        BY <2>1, <3>1
      <4>3. QED BY <4>1, <4>2
    <3>2. CASE i # m + 1
      <4>1. i \in 0 .. m /\ g[i] = f[i]
        BY <2>1, <3>2
      <4>2. f[i] = IF i = 0 THEN 0 ELSE f[i - 1] + counts[i]
        BY <2>2, <4>1
      <4>3. i # 0 => g[i - 1] = f[i - 1]
        BY <2>1, <4>1
      <4>4. h[i] = IF i = 0 THEN 0 ELSE g[i - 1] + counts[i]
        OBVIOUS
      <4>5. QED BY <4>1, <4>2, <4>3, <4>4
    <3>3. QED BY <3>1, <3>2
  <2>4. DOMAIN g = 0 .. m + 1 /\ DOMAIN h = 0 .. m + 1
    OBVIOUS
  <2>5. g = [i \in 0 .. m + 1 |-> g[i]] /\ h = [i \in 0 .. m + 1 |-> h[i]]
    OBVIOUS
  <2>6. g = h
    <3> HIDE DEF g, h
    <3>1. QED BY <2>3, <2>4, <2>5
  <2>7. Total(g, m + 1)
    BY <2>6
  <2> HIDE DEF g
  <2>8. QED BY <2>1, <2>7
<1>4. Reached = Nat
  <2>1. Reached \in SUBSET Nat
    OBVIOUS
  <2> HIDE DEF Reached
  <2>2. QED BY <1>2, <1>3, <2>1, AllNumbers
<1>5. Cumulative(counts) = CHOOSE f : Total(f, n)
  BY DEF Cumulative
<1>6. \E f : Total(f, n)
  BY <1>1, <1>4
<1>7. Total(Cumulative(counts), n)
  <2> HIDE DEF Total
  <2>1. QED BY <1>5, <1>6
<1> DEFINE c == Cumulative(counts)
<1> HIDE DEF c
<1>8. c = [i \in 0 .. n |-> IF i = 0 THEN 0 ELSE c[i - 1] + counts[i]]
  BY <1>7 DEF c
<1>9. c[0] = 0 /\ \A i \in 1 .. n : c[i] = c[i - 1] + counts[i]
  BY <1>1, <1>8
<1>10. QED BY <1>1, <1>9 DEF c

\* The responses of a route that took no longer than the bound of a bucket.
AtMost(p, rt, i) == {f \in Finished(p, rt, Statuses) : f.seconds <= Buckets[i]}

\* Those of one bucket are those of the bucket before it and its own.
LEMMA AtMostGrows ==
  ASSUME NEW p \in Processes, ResponsesEnded(p), NEW rt, NEW i \in DOMAIN Buckets
  PROVE  /\ IsFiniteSet(AtMost(p, rt, i)) /\ IsFiniteSet(InBucket(p, rt, i))
         /\ i = 1 => AtMost(p, rt, i) = InBucket(p, rt, i)
         /\ i # 1 => /\ i - 1 \in DOMAIN Buckets
                     /\ AtMost(p, rt, i) = AtMost(p, rt, i - 1) \cup InBucket(p, rt, i)
                     /\ AtMost(p, rt, i - 1) \cap InBucket(p, rt, i) = {}
<1> DEFINE F == Finished(p, rt, Statuses)
<1>1. F \subseteq finished[p] /\ IsFiniteSet(F) /\ \A f \in F : f.seconds \in Nat
  BY FS_Subset DEF Finished, ResponsesEnded
<1>2. /\ DOMAIN Buckets = 1 .. Len(Buckets) /\ Len(Buckets) \in Nat
      /\ \A j \in DOMAIN Buckets : Buckets[j] \in Nat
      /\ \A j, k \in DOMAIN Buckets : j < k => Buckets[j] < Buckets[k]
  BY BucketsAssumption
<1>3. /\ AtMost(p, rt, i) = {f \in F : f.seconds <= Buckets[i]}
      /\ AtMost(p, rt, i - 1) = {f \in F : f.seconds <= Buckets[i - 1]}
      /\ InBucket(p, rt, i) = {f \in F : i \in BucketOf(f.seconds)}
  BY DEF AtMost, InBucket
<1> HIDE DEF F
<1>4. IsFiniteSet(AtMost(p, rt, i)) /\ IsFiniteSet(InBucket(p, rt, i))
  BY <1>1, <1>3, FS_Subset
<1>5. ASSUME NEW f \in F
      PROVE  i \in BucketOf(f.seconds)
               <=> f.seconds <= Buckets[i] /\ (i # 1 => ~(f.seconds <= Buckets[i - 1]))
  <2> DEFINE v == f.seconds
  <2>1. v \in Nat
    BY <1>1
  <2> HIDE DEF v
  <2>2. i \in BucketOf(v)
          <=> v <= Buckets[i] /\ \A j \in 1 .. i - 1 : v > Buckets[j]
    BY DEF BucketOf
  <2>3. ASSUME i = 1 PROVE i \in BucketOf(v) <=> v <= Buckets[i]
    BY <2>2, <2>3
  <2>4. ASSUME i # 1
        PROVE  i \in BucketOf(v) <=> v <= Buckets[i] /\ ~(v <= Buckets[i - 1])
    <3>1. /\ i - 1 \in 1 .. i - 1 /\ i - 1 \in DOMAIN Buckets
          /\ \A j \in 1 .. i - 1 : j \in DOMAIN Buckets
      BY <1>2, <2>4
    <3>2. \A j \in 1 .. i - 1 : Buckets[j] <= Buckets[i - 1]
      <4>1. ASSUME NEW j \in 1 .. i - 1 PROVE Buckets[j] <= Buckets[i - 1]
        <5>1. j < i - 1 \/ j = i - 1
          BY <1>2
        <5>2. QED BY <1>2, <3>1, <5>1
      <4>2. QED BY <4>1
    <3>3. ~(v <= Buckets[i - 1]) => \A j \in 1 .. i - 1 : v > Buckets[j]
      BY <1>2, <2>1, <3>1, <3>2
    <3>4. (\A j \in 1 .. i - 1 : v > Buckets[j]) => ~(v <= Buckets[i - 1])
      BY <1>2, <2>1, <3>1
    <3>5. QED BY <2>2, <2>4, <3>3, <3>4
  <2>5. QED BY <2>3, <2>4 DEF v
<1>6. i = 1 => AtMost(p, rt, i) = InBucket(p, rt, i)
  BY <1>3, <1>5
<1>7. ASSUME i # 1
      PROVE  /\ i - 1 \in DOMAIN Buckets
             /\ AtMost(p, rt, i) = AtMost(p, rt, i - 1) \cup InBucket(p, rt, i)
             /\ AtMost(p, rt, i - 1) \cap InBucket(p, rt, i) = {}
  <2>1. i - 1 \in DOMAIN Buckets /\ Buckets[i - 1] < Buckets[i]
    BY <1>2, <1>7
  <2>2. \A f \in F : f.seconds <= Buckets[i - 1] => f.seconds <= Buckets[i]
    BY <1>1, <1>2, <2>1
  <2>3. QED BY <1>3, <1>5, <1>7, <2>1, <2>2
<1>8. QED BY <1>4, <1>6, <1>7

\* The running totals are the numbers of responses within each bound.
LEMMA CumulativeTells ==
  ASSUME NEW p \in Processes, ResponsesEnded(p), NEW rt, NEW counts,
         \A i \in DOMAIN Buckets : counts[i] = Cardinality(InBucket(p, rt, i))
  PROVE  \A i \in DOMAIN Buckets :
           Cumulative(counts)[i] = Cardinality(AtMost(p, rt, i))
<1> DEFINE c == Cumulative(counts)
           Right == {m \in Nat : m \in DOMAIN Buckets
                                   => c[m] = Cardinality(AtMost(p, rt, m))}
<1>1. DOMAIN Buckets = 1 .. Len(Buckets) /\ Len(Buckets) \in Nat
  BY BucketsAssumption
<1>2. c[0] = 0 /\ \A i \in DOMAIN Buckets : c[i] = c[i - 1] + counts[i]
  BY CumulativeIs
<1> HIDE DEF c
<1>3. 0 \in Right
  BY <1>1
<1>4. ASSUME NEW m \in Right PROVE m + 1 \in Right
  <2>1. m \in Nat
    OBVIOUS
  <2> DEFINE i == m + 1
             U == AtMost(p, rt, i)
             O == InBucket(p, rt, i)
  <2>2. ASSUME i \in DOMAIN Buckets PROVE c[i] = Cardinality(U)
    <3>1. IsFiniteSet(U) /\ IsFiniteSet(O) /\ Cardinality(O) \in Nat
      BY <2>2, AtMostGrows, FS_CardinalityType
    <3>2. c[i] = c[m] + Cardinality(O)
      <4>1. i - 1 = m
        BY <2>1
      <4>2. QED BY <1>2, <2>2, <4>1
    <3>3. CASE m = 0
      <4>1. U = O
        BY <2>2, <3>3, AtMostGrows
      <4>2. QED BY <1>2, <3>1, <3>2, <3>3, <4>1
    <3>4. CASE m # 0
      <4> DEFINE T == AtMost(p, rt, m)
      <4>1. i # 1 /\ i - 1 = m
        BY <2>1, <3>4
      <4>2. m \in DOMAIN Buckets /\ U = T \cup O /\ T \cap O = {}
        BY <2>2, <4>1, AtMostGrows
      <4>3. IsFiniteSet(T) /\ c[m] = Cardinality(T) /\ Cardinality(T) \in Nat
        BY <4>2, AtMostGrows, FS_CardinalityType
      <4> HIDE DEF T, U, O
      <4>4. Cardinality(T \cup O) = Cardinality(T) + Cardinality(O) - Cardinality(T \cap O)
        BY <3>1, <4>3, FS_Union
      <4>5. Cardinality(T \cap O) = 0
        BY <4>2, FS_EmptySet
      <4>6. QED BY <3>1, <3>2, <4>2, <4>3, <4>4, <4>5
    <3>5. QED BY <3>3, <3>4
  <2>3. i \in Nat
    BY <2>1
  <2>4. QED BY <2>2, <2>3
<1>5. Right = Nat
  <2>1. Right \in SUBSET Nat
    OBVIOUS
  <2> HIDE DEF Right
  <2>2. QED BY <1>3, <1>4, <2>1, AllNumbers
<1>6. \A i \in DOMAIN Buckets : c[i] = Cardinality(AtMost(p, rt, i))
  BY <1>1, <1>5
<1>7. QED BY <1>6 DEF c

\* httpMetrics.ts, registry.ts: what a process renders tells its responses, by
\* route, status and duration, for any number of requests and any buckets.
THEOREM MetricsTell == Spec => []MetricsTellResponses
<1>1. MetricsInv => \A p \in Processes : \A rt : BucketsTell(p, rt)
  <2> SUFFICES ASSUME MetricsInv, NEW p \in Processes, NEW rt
               PROVE  BucketsTell(p, rt)
    OBVIOUS
  <2> DEFINE counts == Observed(registry[p], rt).counts
  <2>1. ResponsesEnded(p) /\ \A i \in DOMAIN Buckets :
                               counts[i] = Cardinality(InBucket(p, rt, i))
    BY DEF MetricsInv, Tells
  <2>2. \A i \in DOMAIN Buckets : Histogram(p, rt).le[i] = Cumulative(counts)[i]
    BY DEF Histogram, renderHistogram, Observed, Duration
  <2> HIDE DEF counts
  <2>3. \A i \in DOMAIN Buckets :
          Cumulative(counts)[i] = Cardinality(AtMost(p, rt, i))
    <3>1. ASSUME NEW k, k = counts
          PROVE  \A i \in DOMAIN Buckets :
                   Cumulative(k)[i] = Cardinality(AtMost(p, rt, i))
      BY <2>1, <3>1, CumulativeTells
    <3>2. QED BY <3>1
  <2>4. QED BY <2>2, <2>3 DEF BucketsTell, AtMost
<1>2. (\A p \in Processes : \A rt : CountersTell(p, rt))
        /\ (\A p \in Processes : \A rt : BucketsTell(p, rt)) => MetricsTellResponses
  BY DEF MetricsTellResponses
<1>3. QED BY CountersHold, MetricsInvariance, <1>1, <1>2, PTL
=============================================================================
