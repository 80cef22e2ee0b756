------------------------- MODULE MobileSessionProofs -------------------------
(***************************************************************************)
(* Proofs about MobileSession, for any calls, faults and expiries: the     *)
(* inductive invariant, and what it says of the refresh tokens that the    *)
(* app presents and stores.                                                *)
(*                                                                         *)
(* Control says who renews the session: one call at a time.  TokensFit     *)
(* says which tokens the calls hold, LiveFit which of them the server      *)
(* accepts.  Most steps are quiet: they hand out no token and store none.  *)
(***************************************************************************)
EXTENDS MobileSession, TLAPS

Kinds ==
  {"get", "mutate", "login", "logout", "restore", "recover", "unsure"}
Stages ==
  {"idle", "attach", "sent", "refused", "shared", "read", "presented", "save",
   "saveRefresh", "clear", "clearRefresh", "again", "login", "logout", "revoke"}
    \cup Ends
Tokens == Nat \cup {None}

TypeOK ==
  /\ access \in Tokens /\ refresh \in Tokens
  /\ status \in {"initializing", "authenticated", "unauthenticated"}
  /\ flight \in Calls \cup {None}
  /\ kind \in [Calls -> Kinds]
  /\ pc \in [Calls -> Stages]
  /\ header \in [Calls -> Tokens]
  /\ retried \in [Calls -> BOOLEAN]
  /\ held \in [Calls -> Tokens]
  /\ late \in [Calls -> {"no", "clear", "clearRefresh"}]
  /\ issued \in Nat /\ live \subseteq Nat /\ valid \subseteq Nat /\ spent \subseteq Nat
  /\ faults \in 0 .. MaxFaults /\ expiries \in 0 .. MaxExpiries
  /\ harmed \in BOOLEAN /\ denied \in BOOLEAN

\* c was given a pair of tokens that it has not stored yet.
Pending(c) == pc[c] \in {"save", "saveRefresh"}
Presented(c) == pc[c] = "presented"
Revoking(c) == pc[c] = "revoke"
Renewing(c) ==
  \/ pc[c] \in {"read", "presented"}
  \/ Pending(c) /\ kind[c] # "login"

\* A call is where its kind can be.
KindFits(c) ==
  /\ kind[c] \in {"restore", "recover"} <=> c = Boot
  /\ kind[c] = "login" => pc[c] \in {"idle", "login", "save", "saveRefresh"} \cup Ends
  /\ pc[c] = "again" => c = Boot
  /\ pc[c] = "login" => kind[c] = "login"
  /\ pc[c] \in {"logout", "revoke"} => kind[c] = "logout"

\* Nothing else runs until the session is restored.
LaunchAlone ==
  /\ pc[Boot] \notin Ends => \A c \in Calls \ {Boot} : Idle(c)
  /\ pc[Boot] = "idle" => status = "initializing" /\ \A c \in Calls : late[c] = "no"

\* The shared refresh is the only one that a request has begun.
FlightIsRenewed(c) == Renewing(c) /\ kind[c] # "recover" => flight = c

Control == LaunchAlone /\ \A c \in Calls : KindFits(c) /\ FlightIsRenewed(c)

Past(n) == n \in Nat /\ n <= issued

\* No two calls hold one new pair, and the stored refresh token is spent only
\* while its successor is being stored, or when that has been lost.
TokensFit ==
  /\ refresh # None => Past(refresh)
  /\ \A n \in spent : Past(n)
  /\ \A c \in Calls :
       Pending(c) => Past(held[c]) /\ held[c] \notin spent /\ refresh # held[c]
  /\ \A c \in Calls :
       Presented(c) => Past(held[c]) /\ (held[c] \in spent => held[c] \in astray)
  /\ \A c, d \in Calls :
       Pending(c) /\ (Pending(d) \/ Presented(d)) /\ c # d => held[c] # held[d]
  /\ refresh \in spent =>
       refresh \in astray \/ \E c \in Calls : Pending(c) /\ kind[c] # "login"

\* c is about to overwrite or to clear the stored refresh token.
Replaces(c) ==
  \/ Pending(c) /\ kind[c] # "login"
  \/ pc[c] \in {"clear", "clearRefresh"}
  \/ late[c] # "no"

\* Without faults a new pair is live, and so is the stored token unless it is
\* about to be replaced.  A logout revokes no pair that is being stored.
LiveFit ==
  /\ \A c \in Calls : Revoking(c) => Past(held[c])
  /\ \A c, d \in Calls : Revoking(c) /\ Pending(d) => held[c] # held[d]
  /\ ~harmed => \A c \in Calls : Pending(c) => held[c] \in live
  /\ ~harmed /\ refresh # None => refresh \in live \/ \E c \in Calls : Replaces(c)

IInv == TypeOK /\ Control /\ TokensFit /\ LiveFit

----------------------------------------------------------------------------
(* What the parts of an action do to the types *)

LEMMA RefreshEndsTypes ==
  ASSUME TypeOK, NEW c \in Calls, NEW ok \in BOOLEAN, RefreshEnds(c, ok)
  PROVE  /\ status' \in {"initializing", "authenticated", "unauthenticated"}
         /\ flight' \in Calls \cup {None}
         /\ pc' \in [Calls -> Stages]
         /\ retried' \in [Calls -> BOOLEAN]
         /\ denied' \in BOOLEAN
<1>1. denied' \in BOOLEAN
  <2>1. denied' = (denied \/ ~ok)
    BY DEF RefreshEnds
  <2> QED BY <2>1, Zenon DEF TypeOK
<1>2. status' \in {"initializing", "authenticated", "unauthenticated"}
  BY DEF RefreshEnds, TypeOK
<1>3. CASE kind[c] = "recover"
  <2>1. /\ pc' = [pc EXCEPT ![c] = IF ok THEN "answered" ELSE "clear"]
        /\ UNCHANGED <<flight, retried>>
    BY <1>3 DEF RefreshEnds, Goto
  <2> QED BY <1>1, <1>2, <2>1 DEF TypeOK, Stages, Ends
<1>4. CASE kind[c] # "recover"
  <2>1. flight' = None
    BY <1>4 DEF RefreshEnds
  <2>2. pc' \in [Calls -> Stages]
    <3>1. pc' = [d \in Calls |->
                   IF d = c \/ pc[d] = "shared" THEN IF ok THEN "attach" ELSE "clear"
                   ELSE pc[d]]
      BY <1>4 DEF RefreshEnds, Woken
    <3> QED BY <3>1 DEF TypeOK, Stages
  <2>3. retried' \in [Calls -> BOOLEAN]
    <3>1. retried' = [d \in Calls |-> retried[d] \/ (ok /\ (d = c \/ Woken(d, ok)))]
      BY <1>4, Zenon DEF RefreshEnds
    <3> QED BY <3>1, Zenon DEF TypeOK
  <2> QED BY <1>1, <1>2, <2>1, <2>2, <2>3
<1> QED BY <1>3, <1>4

LEMMA IssueTypes ==
  ASSUME TypeOK, NEW revoked, Issue(revoked)
  PROVE  /\ issued' = issued + 1 /\ issued' \in Nat
         /\ live' \subseteq Nat /\ valid' \subseteq Nat
<1>1. issued' = issued + 1 /\ issued + 1 \in Nat
  BY DEF TypeOK, Issue
<1>2. live' = (live \ revoked) \cup {issued + 1} /\ valid' = valid \cup {issued + 1}
  BY DEF Issue
<1>3. live \subseteq Nat /\ valid \subseteq Nat
  BY DEF TypeOK
<1> QED BY <1>1, <1>2, <1>3, Zenon

LEMMA BoundsTypes ==
  ASSUME TypeOK, Fault \/ UNCHANGED bounds
  PROVE  /\ faults' \in 0 .. MaxFaults /\ expiries' \in 0 .. MaxExpiries
         /\ harmed' \in BOOLEAN
<1>1. CASE Fault
  <2>1. faults > 0 /\ faults' = faults - 1 /\ harmed' = TRUE /\ expiries' = expiries
    BY <1>1 DEF Fault
  <2> QED BY <2>1, SessionAssumption DEF TypeOK
<1>2. CASE UNCHANGED bounds
  BY <1>2 DEF bounds, TypeOK
<1> QED BY <1>1, <1>2

----------------------------------------------------------------------------
(* Renewing and quiet steps *)

\* One call at a time renews the session: the launch is alone, and requests share
\* the refresh in flight.
LEMMA OneRenews ==
  ASSUME TypeOK, Control, NEW c \in Calls, NEW d \in Calls, Renewing(c), Renewing(d)
  PROVE  c = d
<1>1. ~Idle(c) /\ ~Idle(d)
  BY DEF Renewing, Pending, Idle, Ends
<1>2. CASE kind[c] = "recover" \/ kind[d] = "recover"
  <2>1. c = Boot \/ d = Boot
    BY <1>2 DEF Control, KindFits
  <2> QED BY <1>1, <2>1 DEF Control, LaunchAlone, Idle
<1>3. CASE kind[c] # "recover" /\ kind[d] # "recover"
  BY <1>3 DEF Control, FlightIsRenewed
<1> QED BY <1>2, <1>3

\* A step that hands out no pair of tokens and stores none.
Quiet ==
  /\ refresh' \in {refresh, None}
  /\ spent' = spent /\ astray' = astray
  /\ issued' \in Nat /\ issued <= issued'
  /\ \A c \in Calls :
       /\ Pending(c)' => Pending(c) /\ held'[c] = held[c]
       /\ Presented(c)' => Presented(c) /\ held'[c] = held[c]
       /\ Pending(c) /\ kind[c] # "login" => Pending(c)' /\ kind'[c] # "login"

LEMMA QuietTokens ==
  ASSUME TypeOK, TokensFit, Quiet
  PROVE  TokensFit'
<1>1. \A n : Past(n) => Past(n)'
  BY DEF Quiet, Past, TypeOK
<1>2. /\ refresh' # None => Past(refresh)'
      /\ \A n \in spent' : Past(n)'
  BY <1>1 DEF Quiet, TokensFit
<1>3. \A c \in Calls :
        Pending(c)' => Past(held[c])' /\ held'[c] \notin spent' /\ refresh' # held'[c]
  BY <1>1, SessionAssumption DEF Quiet, TokensFit, Past
<1>4. \A c \in Calls :
        Presented(c)' => Past(held[c])' /\ (held'[c] \in spent' => held'[c] \in astray')
  BY <1>1 DEF Quiet, TokensFit
<1>5. \A c, d \in Calls :
        Pending(c)' /\ (Pending(d)' \/ Presented(d)') /\ c # d => held'[c] # held'[d]
  BY DEF Quiet, TokensFit
<1>6. refresh' \in spent' =>
        refresh' \in astray' \/ \E c \in Calls : Pending(c)' /\ kind'[c] # "login"
  BY SessionAssumption DEF Quiet, TokensFit, TypeOK
<1> QED BY <1>2, <1>3, <1>4, <1>5, <1>6 DEF TokensFit

\* The same for what is live: nothing is revoked without a fault.
QuietLive ==
  /\ ~harmed' => ~harmed /\ live \subseteq live'
  /\ refresh' \in {refresh, None}
  /\ issued' \in Nat /\ issued <= issued'
  /\ \A c \in Calls :
       /\ Pending(c)' => Pending(c) /\ held'[c] = held[c]
       /\ Revoking(c)' => Revoking(c) /\ held'[c] = held[c]
  /\ ~harmed' /\ refresh' # None => \A c \in Calls : Replaces(c) => Replaces(c)'

LEMMA QuietLiveFit ==
  ASSUME TypeOK, LiveFit, QuietLive
  PROVE  LiveFit'
<1>1. \A c \in Calls : Revoking(c)' => Past(held[c])'
  BY DEF LiveFit, QuietLive, Past, TypeOK
<1>2. \A c, d \in Calls : Revoking(c)' /\ Pending(d)' => held'[c] # held'[d]
  BY DEF LiveFit, QuietLive
<1>3. ~harmed' => \A c \in Calls : Pending(c)' => held'[c] \in live'
  BY DEF LiveFit, QuietLive
<1>4. ~harmed' /\ refresh' # None =>
        refresh' \in live' \/ \E c \in Calls : Replaces(c)'
  BY DEF LiveFit, QuietLive
<1> QED BY <1>1, <1>2, <1>3, <1>4 DEF LiveFit

----------------------------------------------------------------------------
(* ApiClient *)

LEMMA BeginKeeps ==
  ASSUME TypeOK, Control, TokensFit, LiveFit, NEW c \in Calls, Begin(c)
  PROVE  IInv'
<1>1. TypeOK'
  BY SessionAssumption, SMTT(30) DEF TypeOK, Begin, Goto, Keep, keychain, server,
     bounds, Idle, Ends, Kinds, Stages, Tokens
<1>2. Control'
  BY SessionAssumption, SMTT(30) DEF TypeOK, Control, KindFits, LaunchAlone,
     FlightIsRenewed, Renewing, Pending, Begin, Goto, Keep, keychain, server,
     bounds, Idle, Kinds, Stages, Ends
<1>3. Quiet
  BY SessionAssumption, SMTT(30) DEF TypeOK, Control, KindFits, Quiet, Pending,
     Presented, Begin, Goto, Keep, keychain, server, bounds, Idle, Kinds, Stages,
     Ends
<1>4. QuietLive
  BY SessionAssumption, SMTT(30) DEF TypeOK, Control, KindFits, QuietLive, Pending,
     Revoking, Replaces, Begin, Goto, Keep, keychain, server, bounds, Idle, Kinds,
     Stages, Ends
<1> QED BY <1>1, <1>2, <1>3, <1>4, QuietTokens, QuietLiveFit DEF IInv

LEMMA AttachKeeps ==
  ASSUME TypeOK, Control, TokensFit, LiveFit, NEW c \in Calls, Attach(c)
  PROVE  IInv'
<1>1. TypeOK'
  BY SessionAssumption, SMTT(30) DEF TypeOK, Attach, Goto, Local, Keep, keychain,
     server, bounds, Kinds, Stages, Tokens, Ends
<1>2. Control'
  BY SessionAssumption, SMTT(30) DEF TypeOK, Control, KindFits, LaunchAlone,
     FlightIsRenewed, Renewing, Pending, Attach, Goto, Local, Keep, keychain,
     server, bounds, Idle, Kinds, Stages, Ends
<1>3. Quiet
  BY SessionAssumption, SMTT(30) DEF TypeOK, Control, KindFits, Quiet, Pending,
     Presented, Attach, Goto, Local, Keep, keychain, server, bounds, Kinds, Stages,
     Ends
<1>4. QuietLive
  BY SessionAssumption, SMTT(30) DEF TypeOK, Control, KindFits, QuietLive, Pending,
     Revoking, Replaces, Attach, Goto, Local, Keep, keychain, server, bounds, Kinds,
     Stages, Ends
<1> QED BY <1>1, <1>2, <1>3, <1>4, QuietTokens, QuietLiveFit DEF IInv

LEMMA ServeKeeps ==
  ASSUME TypeOK, Control, TokensFit, LiveFit, NEW c \in Calls, Serve(c)
  PROVE  IInv'
<1>1. TypeOK'
  BY SessionAssumption, SMTT(30) DEF TypeOK, Serve, Goto, Keep, keychain, server,
     bounds, Kinds, Stages, Tokens, Ends
<1>2. Control'
  BY SessionAssumption, SMTT(30) DEF TypeOK, Control, KindFits, LaunchAlone,
     FlightIsRenewed, Renewing, Pending, Serve, Goto, Keep, keychain, server,
     bounds, Idle, Kinds, Stages, Ends
<1>3. Quiet
  BY SessionAssumption, SMTT(30) DEF TypeOK, Control, KindFits, Quiet, Pending,
     Presented, Serve, Goto, Keep, keychain, server, bounds, Kinds, Stages, Ends
<1>4. QuietLive
  BY SessionAssumption, SMTT(30) DEF TypeOK, Control, KindFits, QuietLive, Pending,
     Revoking, Replaces, Serve, Goto, Keep, keychain, server, bounds, Kinds, Stages,
     Ends
<1> QED BY <1>1, <1>2, <1>3, <1>4, QuietTokens, QuietLiveFit DEF IInv

LEMMA LoseRequestKeeps ==
  ASSUME TypeOK, Control, TokensFit, LiveFit, NEW c \in Calls, LoseRequest(c)
  PROVE  IInv'
<1>1. TypeOK'
  BY SessionAssumption, SMTT(30) DEF TypeOK, LoseRequest, Goto, Local, Keep, Fault,
     keychain, server, Kinds, Stages, Tokens, Ends
<1>2. Control'
  BY SessionAssumption, SMTT(30) DEF TypeOK, Control, KindFits, LaunchAlone,
     FlightIsRenewed, Renewing, Pending, LoseRequest, Goto, Local, Keep, Fault,
     keychain, server, Idle, Kinds, Stages, Ends
<1>3. Quiet
  BY SessionAssumption, SMTT(30) DEF TypeOK, Control, KindFits, Quiet, Pending,
     Presented, LoseRequest, Goto, Local, Keep, Fault, keychain, server, Kinds,
     Stages, Ends
<1>4. QuietLive
  BY SessionAssumption, SMTT(30) DEF TypeOK, Control, KindFits, QuietLive, Pending,
     Revoking, Replaces, LoseRequest, Goto, Local, Keep, Fault, keychain, server,
     Kinds, Stages, Ends
<1> QED BY <1>1, <1>2, <1>3, <1>4, QuietTokens, QuietLiveFit DEF IInv

LEMMA RefusedKeeps ==
  ASSUME TypeOK, Control, TokensFit, LiveFit, NEW c \in Calls, Refused(c)
  PROVE  IInv'
<1>1. TypeOK'
  BY SessionAssumption, SMTT(30) DEF TypeOK, Refused, Goto, Keep, keychain, server,
     bounds, ShareRefresh, Kinds, Stages, Tokens, Ends
<1>2. Control'
  BY SessionAssumption, SMTT(30) DEF TypeOK, Control, KindFits, LaunchAlone,
     FlightIsRenewed, Renewing, Pending, Refused, Goto, Keep, keychain, server,
     bounds, ShareRefresh, Idle, Kinds, Stages, Ends
<1>3. Quiet
  BY SessionAssumption, SMTT(30) DEF TypeOK, Control, KindFits, Quiet, Pending,
     Presented, Refused, Goto, Keep, keychain, server, bounds, ShareRefresh, Kinds,
     Stages, Ends
<1>4. QuietLive
  BY SessionAssumption, SMTT(30) DEF TypeOK, Control, KindFits, QuietLive, Pending,
     Revoking, Replaces, Refused, Goto, Keep, keychain, server, bounds,
     ShareRefresh, Kinds, Stages, Ends
<1> QED BY <1>1, <1>2, <1>3, <1>4, QuietTokens, QuietLiveFit DEF IInv

----------------------------------------------------------------------------
(* AuthRepository.refreshSession *)

LEMMA ReadRefreshTypes ==
  ASSUME TypeOK, NEW c \in Calls, ReadRefresh(c)
  PROVE  TypeOK'
<1>1. /\ held' = [held EXCEPT ![c] = refresh]
      /\ UNCHANGED <<keychain, header, server, bounds, kind, late, spent, astray>>
  BY DEF ReadRefresh, Local, Keep
<1>2. CASE refresh = None
  <2>1. RefreshEnds(c, FALSE)
    BY <1>2 DEF ReadRefresh
  <2> QED BY <1>1, <2>1, RefreshEndsTypes DEF TypeOK, Tokens, keychain, server, bounds
<1>3. CASE refresh # None
  <2>1. Goto(c, "presented") /\ Local
    BY <1>3 DEF ReadRefresh
  <2> QED BY <1>1, <2>1 DEF TypeOK, Goto, Local, Keep, Stages, Tokens, keychain,
         server, bounds
<1> QED BY <1>2, <1>3

LEMMA ReadRefreshTokens ==
  ASSUME TypeOK, Control, TokensFit, NEW c \in Calls, ReadRefresh(c)
  PROVE  TokensFit'
<1>1. CASE refresh = None
  <2>1. Quiet
    BY <1>1 DEF TypeOK, Quiet, Pending, Presented, ReadRefresh, RefreshEnds, Woken,
       Goto, keychain, server, Stages, Ends
  <2> QED BY <2>1, QuietTokens
<1>2. CASE refresh # None
  <2>1. /\ pc[c] = "read" /\ pc' = [pc EXCEPT ![c] = "presented"]
        /\ held' = [held EXCEPT ![c] = refresh]
        /\ UNCHANGED <<refresh, spent, astray, issued, kind>>
    BY <1>2 DEF ReadRefresh, Goto, Local, Keep, keychain, server
  <2>2. refresh \in spent => refresh \in astray
    <3> SUFFICES ASSUME refresh \in spent, refresh \notin astray PROVE FALSE
      OBVIOUS
    <3>1. PICK d \in Calls : Pending(d) /\ kind[d] # "login"
      BY DEF TokensFit
    <3>2. c = d
      BY <2>1, <3>1, OneRenews DEF Renewing
    <3> QED BY <2>1, <3>1, <3>2 DEF Pending
  <2>3. \A d \in Calls :
          /\ Pending(d)' => Pending(d) /\ d # c /\ held'[d] = held[d]
          /\ Presented(d)' => \/ d = c /\ held'[d] = refresh
                              \/ d # c /\ Presented(d) /\ held'[d] = held[d]
    BY <2>1 DEF TypeOK, Pending, Presented
  <2>4. \A n : Past(n) => Past(n)'
    BY <2>1 DEF Past
  <2>5. \A d \in Calls :
          Pending(d)' => Past(held[d])' /\ held'[d] \notin spent' /\ refresh' # held'[d]
    BY <2>1, <2>3, <2>4 DEF TokensFit
  <2>6. \A d \in Calls :
          Presented(d)' => Past(held[d])' /\ (held'[d] \in spent' => held'[d] \in astray')
    BY <1>2, <2>1, <2>2, <2>3, <2>4 DEF TokensFit
  <2>7. \A d, e \in Calls :
          Pending(d)' /\ (Pending(e)' \/ Presented(e)') /\ d # e => held'[d] # held'[e]
    BY <2>1, <2>3 DEF TokensFit
  <2> QED BY <2>1, <2>2, <2>4, <2>5, <2>6, <2>7 DEF TokensFit
<1> QED BY <1>1, <1>2

LEMMA ReadRefreshKeeps ==
  ASSUME TypeOK, Control, TokensFit, LiveFit, NEW c \in Calls, ReadRefresh(c)
  PROVE  IInv'
<1>1. TypeOK'
  BY ReadRefreshTypes
<1>2. Control'
  BY SessionAssumption, SMTT(30) DEF TypeOK, Control, KindFits, LaunchAlone,
     FlightIsRenewed, Renewing, Pending, ReadRefresh, Goto, Local, Keep, keychain,
     server, bounds, RefreshEnds, Woken, Idle, Kinds, Stages, Ends
<1>3. TokensFit'
  BY ReadRefreshTokens
<1>4. QuietLive
  BY SessionAssumption, SMTT(30) DEF TypeOK, Control, KindFits, QuietLive, Pending,
     Revoking, Replaces, ReadRefresh, Goto, Local, Keep, keychain, server, bounds,
     RefreshEnds, Woken, Kinds, Stages, Ends
<1> QED BY <1>1, <1>2, <1>3, <1>4, QuietLiveFit DEF IInv

LEMMA RotateTypes ==
  ASSUME TypeOK, NEW c \in Calls, Rotate(c)
  PROVE  TypeOK'
<1>1. UNCHANGED <<keychain, kind, header, late, bounds>>
  BY DEF Rotate
<1>2. CASE held[c] \in live
  <2>1. /\ Issue({held[c]})
        /\ spent' = spent \cup {held[c]}
        /\ held' = [held EXCEPT ![c] = issued + 1]
        /\ Goto(c, "save")
        /\ UNCHANGED <<status, flight, retried, denied>>
    BY <1>2 DEF Rotate
  <2>2. issued' \in Nat /\ live' \subseteq Nat /\ valid' \subseteq Nat
    BY <2>1, IssueTypes
  <2>3. spent' \subseteq Nat
    BY <1>2, <2>1 DEF TypeOK
  <2>4. held' \in [Calls -> Tokens] /\ pc' \in [Calls -> Stages]
    BY <2>1 DEF TypeOK, Tokens, Goto, Stages
  <2> QED BY <1>1, <2>1, <2>2, <2>3, <2>4 DEF TypeOK, keychain, bounds
<1>3. CASE held[c] \notin live
  <2>1. RefreshEnds(c, FALSE) /\ UNCHANGED <<held, server, spent>>
    BY <1>3 DEF Rotate
  <2> QED BY <1>1, <2>1, RefreshEndsTypes DEF TypeOK, keychain, bounds, server
<1> QED BY <1>2, <1>3

LEMMA RotateTokens ==
  ASSUME TypeOK, Control, TokensFit, NEW c \in Calls, Rotate(c)
  PROVE  TokensFit'
<1>1. CASE held[c] \notin live
  <2>1. Quiet
    BY <1>1 DEF TypeOK, Quiet, Pending, Presented, Rotate, RefreshEnds, Woken,
       Goto, keychain, server, Stages, Ends
  <2> QED BY <2>1, QuietTokens
<1>2. CASE held[c] \in live
  <2>1. /\ pc[c] = "presented" /\ pc' = [pc EXCEPT ![c] = "save"]
        /\ held' = [held EXCEPT ![c] = issued + 1]
        /\ issued' = issued + 1 /\ issued \in Nat
        /\ spent' = spent \cup {held[c]} /\ astray' = astray
        /\ UNCHANGED <<refresh, kind>>
    BY <1>2 DEF Rotate, Issue, Goto, keychain, TypeOK
  <2>2. kind[c] # "login"
    BY <2>1 DEF Control, KindFits, Ends
  <2>3. \A d \in Calls : Presented(d) => d = c
    BY <2>1, OneRenews DEF Renewing, Presented
  <2>4. \A d \in Calls :
          /\ Pending(d)' => \/ d = c /\ held'[d] = issued'
                            \/ /\ d # c /\ Pending(d) /\ held'[d] = held[d]
                               /\ held[d] # held[c]
          /\ ~Presented(d)'
    <3>1. \A d \in Calls : Pending(d) => held[d] # held[c]
      BY <2>1 DEF TokensFit, Presented, Pending
    <3> QED BY <2>1, <2>3, <3>1 DEF TypeOK, Pending, Presented
  <2>5. /\ \A n : Past(n) => Past(n)' /\ n # issued'
        /\ Past(issued)'
    BY <2>1 DEF Past
  <2>6. Past(held[c])
    BY <2>1 DEF TokensFit, Presented
  <2>7. \A n \in spent' : Past(n) /\ Past(n)'
    BY <2>1, <2>5, <2>6 DEF TokensFit
  <2>8. \A d \in Calls :
          Pending(d)' => Past(held[d])' /\ held'[d] \notin spent' /\ refresh' # held'[d]
    <3> SUFFICES ASSUME NEW d \in Calls, Pending(d)'
                 PROVE  Past(held[d])' /\ held'[d] \notin spent' /\ refresh' # held'[d]
      OBVIOUS
    <3>1. CASE d = c
      <4>1. issued' # None
        BY <2>1, SessionAssumption
      <4>2. refresh # issued'
        BY <2>5, <4>1 DEF TokensFit
      <4> QED BY <2>1, <2>4, <2>5, <2>7, <3>1, <4>2
    <3>2. CASE d # c
      BY <2>1, <2>4, <2>5, <3>2 DEF TokensFit
    <3> QED BY <3>1, <3>2
  <2>9. \A d, e \in Calls :
          Pending(d)' /\ (Pending(e)' \/ Presented(e)') /\ d # e => held'[d] # held'[e]
    BY <2>4, <2>5 DEF TokensFit
  <2>10. Pending(c)' /\ kind'[c] # "login"
    BY <2>1, <2>2 DEF TypeOK, Pending
  <2> QED BY <2>1, <2>4, <2>5, <2>7, <2>8, <2>9, <2>10 DEF TokensFit
<1> QED BY <1>1, <1>2

LEMMA RotateLive ==
  ASSUME TypeOK, Control, TokensFit, LiveFit, NEW c \in Calls, Rotate(c)
  PROVE  LiveFit'
<1>1. CASE held[c] \notin live
  <2>1. QuietLive
    BY <1>1 DEF TypeOK, QuietLive, Pending, Revoking, Replaces, Rotate, RefreshEnds,
       Woken, Goto, keychain, server, bounds, Stages, Ends
  <2> QED BY <2>1, QuietLiveFit
<1>2. CASE held[c] \in live
  <2>1. /\ pc[c] = "presented" /\ pc' = [pc EXCEPT ![c] = "save"]
        /\ held' = [held EXCEPT ![c] = issued + 1]
        /\ issued' = issued + 1 /\ issued \in Nat
        /\ live' = (live \ {held[c]}) \cup {issued + 1}
        /\ UNCHANGED <<refresh, kind, harmed, late>>
    BY <1>2 DEF Rotate, Issue, Goto, keychain, bounds, TypeOK
  <2>2. \A d \in Calls :
          /\ Pending(d)' => \/ d = c /\ held'[d] = issued'
                            \/ /\ d # c /\ Pending(d) /\ held'[d] = held[d]
                               /\ held[d] # held[c]
          /\ Revoking(d)' => d # c /\ Revoking(d) /\ held'[d] = held[d]
    <3>1. \A d \in Calls : Pending(d) => held[d] # held[c]
      BY <2>1 DEF TokensFit, Presented, Pending
    <3> QED BY <2>1, <3>1 DEF TypeOK, Pending, Revoking
  <2>3. \A n : Past(n) => Past(n)' /\ n # issued'
    BY <2>1 DEF Past
  <2>4. Replaces(c)'
    <3>1. kind[c] # "login"
      BY <2>1 DEF Control, KindFits, Ends
    <3> QED BY <2>1, <3>1 DEF TypeOK, Replaces, Pending
  <2>5. \A d, e \in Calls : Revoking(d)' /\ Pending(e)' => held'[d] # held'[e]
    BY <2>2, <2>3 DEF LiveFit
  <2>6. ~harmed' => \A d \in Calls : Pending(d)' => held'[d] \in live'
    BY <2>1, <2>2 DEF LiveFit
  <2> QED BY <2>2, <2>3, <2>4, <2>5, <2>6 DEF LiveFit
<1> QED BY <1>1, <1>2

LEMMA RotateKeeps ==
  ASSUME TypeOK, Control, TokensFit, LiveFit, NEW c \in Calls, Rotate(c)
  PROVE  IInv'
<1>1. TypeOK'
  BY RotateTypes
<1>2. Control'
  BY SessionAssumption, SMTT(30) DEF TypeOK, Control, KindFits, LaunchAlone,
     FlightIsRenewed, Renewing, Pending, Rotate, Goto, keychain, server, bounds,
     RefreshEnds, Woken, Issue, Idle, Kinds, Stages, Ends
<1>3. TokensFit'
  BY RotateTokens
<1>4. LiveFit'
  BY RotateLive
<1> QED BY <1>1, <1>2, <1>3, <1>4 DEF IInv

LEMMA LoseRotationTypes ==
  ASSUME TypeOK, NEW c \in Calls, LoseRotation(c)
  PROVE  TypeOK'
<1>1. /\ Fault /\ RefreshEnds(c, FALSE)
      /\ UNCHANGED <<keychain, kind, header, held, late>>
  BY DEF LoseRotation
<1>2. issued' \in Nat /\ live' \subseteq Nat /\ valid' \subseteq Nat
  <2>1. CASE Issue({held[c]})
    BY <2>1, IssueTypes
  <2>2. CASE UNCHANGED server
    BY <2>2 DEF server, TypeOK
  <2> QED BY <2>1, <2>2 DEF LoseRotation
<1>3. faults' \in 0 .. MaxFaults /\ expiries' \in 0 .. MaxExpiries /\ harmed' \in BOOLEAN
  BY <1>1, BoundsTypes
<1>4. spent' \subseteq Nat
  BY DEF LoseRotation, TypeOK
<1> QED BY <1>1, <1>2, <1>3, <1>4, RefreshEndsTypes DEF TypeOK, keychain

LEMMA LoseRotationTokens ==
  ASSUME TypeOK, Control, TokensFit, NEW c \in Calls, LoseRotation(c)
  PROVE  TokensFit'
<1>1. CASE UNCHANGED <<server, spent, astray>>
  <2>1. Quiet
    BY <1>1 DEF TypeOK, Quiet, Pending, Presented, LoseRotation, RefreshEnds, Woken,
       Goto, keychain, server, Stages, Ends
  <2> QED BY <2>1, QuietTokens
<1>2. CASE held[c] \in live /\ Issue({held[c]}) /\ spent' = spent \cup {held[c]}
              /\ astray' = astray \cup {held[c]}
  <2>1. /\ pc[c] = "presented"
        /\ issued' = issued + 1 /\ issued \in Nat
        /\ UNCHANGED <<refresh, kind, held>>
    BY <1>2 DEF LoseRotation, Issue, keychain, TypeOK
  <2>2. \A d \in Calls :
          /\ Pending(d)' => Pending(d) /\ held[d] # held[c]
          /\ Pending(d) => Pending(d)'
          /\ ~Presented(d)'
    <3>1. \A d \in Calls : Presented(d) => d = c
      BY <2>1, OneRenews DEF Renewing, Presented
    <3>2. \A d \in Calls :
            /\ Pending(d)' <=> Pending(d)
            /\ Presented(d)' => Presented(d) /\ d # c
      BY <2>1 DEF TypeOK, LoseRotation, RefreshEnds, Woken, Goto, Pending, Presented,
         Stages, Ends
    <3>3. \A d \in Calls : Pending(d) => held[d] # held[c]
      BY <2>1 DEF TokensFit, Presented, Pending
    <3> QED BY <3>1, <3>2, <3>3
  <2>3. \A n : Past(n) => Past(n)'
    BY <2>1 DEF Past
  <2>4. Past(held[c])
    BY <2>1 DEF TokensFit, Presented
  <2>5. /\ refresh' # None => Past(refresh)'
        /\ \A n \in spent' : Past(n)'
    BY <1>2, <2>1, <2>3, <2>4 DEF TokensFit
  <2>6. \A d \in Calls :
          Pending(d)' => Past(held[d])' /\ held'[d] \notin spent' /\ refresh' # held'[d]
    BY <1>2, <2>1, <2>2, <2>3 DEF TokensFit
  <2>7. \A d, e \in Calls :
          Pending(d)' /\ (Pending(e)' \/ Presented(e)') /\ d # e => held'[d] # held'[e]
    BY <2>1, <2>2 DEF TokensFit
  <2>8. refresh' \in spent' =>
          refresh' \in astray' \/ \E d \in Calls : Pending(d)' /\ kind'[d] # "login"
    BY <1>2, <2>1, <2>2 DEF TokensFit
  <2> QED BY <2>2, <2>5, <2>6, <2>7, <2>8 DEF TokensFit
<1> QED BY <1>1, <1>2 DEF LoseRotation

LEMMA LoseRotationKeeps ==
  ASSUME TypeOK, Control, TokensFit, LiveFit, NEW c \in Calls, LoseRotation(c)
  PROVE  IInv'
<1>1. TypeOK'
  BY LoseRotationTypes
<1>2. Control'
  BY SessionAssumption, SMTT(30) DEF TypeOK, Control, KindFits, LaunchAlone,
     FlightIsRenewed, Renewing, Pending, LoseRotation, Goto, Fault, keychain,
     server, RefreshEnds, Woken, Issue, Idle, Kinds, Stages, Ends
<1>3. TokensFit'
  BY LoseRotationTokens
<1>4. QuietLive
  BY SessionAssumption, SMTT(30) DEF TypeOK, Control, KindFits, QuietLive, Pending,
     Revoking, Replaces, LoseRotation, Goto, Fault, keychain, server, RefreshEnds,
     Woken, Issue, Kinds, Stages, Ends
<1> QED BY <1>1, <1>2, <1>3, <1>4, QuietLiveFit DEF IInv

LEMMA SaveKeeps ==
  ASSUME TypeOK, Control, TokensFit, LiveFit, NEW c \in Calls, Save(c)
  PROVE  IInv'
<1>1. TypeOK'
  BY SessionAssumption, SMTT(30) DEF TypeOK, Save, Goto, Local, Keep, server,
     bounds, Kinds, Stages, Tokens, Ends
<1>2. Control'
  BY SessionAssumption, SMTT(30) DEF TypeOK, Control, KindFits, LaunchAlone,
     FlightIsRenewed, Renewing, Pending, Save, Goto, Local, Keep, server, bounds,
     Idle, Kinds, Stages, Ends
<1>3. Quiet
  BY SessionAssumption, SMTT(30) DEF TypeOK, Control, KindFits, Quiet, Pending,
     Presented, Save, Goto, Local, Keep, server, bounds, Kinds, Stages, Ends
<1>4. QuietLive
  BY SessionAssumption, SMTT(30) DEF TypeOK, Control, KindFits, QuietLive, Pending,
     Revoking, Replaces, Save, Goto, Local, Keep, server, bounds, Kinds, Stages,
     Ends
<1> QED BY <1>1, <1>2, <1>3, <1>4, QuietTokens, QuietLiveFit DEF IInv

LEMMA SaveRefreshTypes ==
  ASSUME TypeOK, NEW c \in Calls, SaveRefresh(c)
  PROVE  TypeOK'
<1>1. /\ refresh' = held[c]
      /\ UNCHANGED <<access, kind, header, held, late, server, bounds, spent, astray>>
  BY DEF SaveRefresh, NewRefresh
<1>2. CASE kind[c] = "login"
  <2>1. /\ Goto(c, "answered")
        /\ status' = "authenticated"
        /\ UNCHANGED <<flight, retried, denied>>
    BY <1>2 DEF SaveRefresh
  <2> QED BY <1>1, <2>1 DEF TypeOK, Goto, Stages, Ends, server, bounds
<1>3. CASE kind[c] # "login"
  <2>1. RefreshEnds(c, TRUE)
    BY <1>3 DEF SaveRefresh
  <2> QED BY <1>1, <2>1, RefreshEndsTypes DEF TypeOK, server, bounds
<1> QED BY <1>2, <1>3

LEMMA SaveRefreshTokens ==
  ASSUME TypeOK, Control, TokensFit, NEW c \in Calls, SaveRefresh(c)
  PROVE  TokensFit'
<1>1. /\ pc[c] = "saveRefresh" /\ refresh' = held[c]
      /\ UNCHANGED <<held, spent, astray, issued, kind>>
  BY DEF SaveRefresh, NewRefresh, server
<1>2. \A d \in Calls :
        /\ Pending(d)' => Pending(d) /\ d # c
        /\ Presented(d)' => Presented(d)
  BY DEF TypeOK, SaveRefresh, RefreshEnds, Woken, Goto, Pending, Presented, Ends
<1>3. Pending(c) /\ Past(held[c]) /\ held[c] \notin spent
  BY <1>1 DEF Pending, TokensFit
<1>4. \A n : Past(n) => Past(n)'
  BY <1>1 DEF Past
<1>5. \A d \in Calls :
        Pending(d)' => Past(held[d])' /\ held'[d] \notin spent' /\ refresh' # held'[d]
  BY <1>1, <1>2, <1>3, <1>4 DEF TokensFit
<1>6. \A d \in Calls :
        Presented(d)' => Past(held[d])' /\ (held'[d] \in spent' => held'[d] \in astray')
  BY <1>1, <1>2, <1>4 DEF TokensFit
<1>7. \A d, e \in Calls :
        Pending(d)' /\ (Pending(e)' \/ Presented(e)') /\ d # e => held'[d] # held'[e]
  BY <1>1, <1>2 DEF TokensFit
<1> QED BY <1>1, <1>3, <1>4, <1>5, <1>6, <1>7 DEF TokensFit

LEMMA SaveRefreshLive ==
  ASSUME TypeOK, Control, LiveFit, NEW c \in Calls, SaveRefresh(c)
  PROVE  LiveFit'
<1>1. /\ pc[c] = "saveRefresh" /\ refresh' = held[c]
      /\ UNCHANGED <<held, live, issued, harmed>>
  BY DEF SaveRefresh, NewRefresh, server, bounds
<1>2. \A d \in Calls :
        /\ Pending(d)' => Pending(d)
        /\ Revoking(d)' => Revoking(d)
  BY DEF TypeOK, SaveRefresh, RefreshEnds, Woken, Goto, Pending, Revoking, Ends
<1>3. \A n : Past(n) => Past(n)'
  BY <1>1 DEF Past
<1>4. ~harmed' => refresh' \in live'
  BY <1>1 DEF LiveFit, Pending
<1> QED BY <1>1, <1>2, <1>3, <1>4 DEF LiveFit

LEMMA SaveRefreshKeeps ==
  ASSUME TypeOK, Control, TokensFit, LiveFit, NEW c \in Calls, SaveRefresh(c)
  PROVE  IInv'
<1>1. TypeOK'
  BY SaveRefreshTypes
<1>2. Control'
  BY SessionAssumption, SMTT(30) DEF TypeOK, Control, KindFits, LaunchAlone,
     FlightIsRenewed, Renewing, Pending, SaveRefresh, Goto, server, bounds,
     RefreshEnds, Woken, NewRefresh, Idle, Kinds, Stages, Ends
<1>3. TokensFit'
  BY SaveRefreshTokens
<1>4. LiveFit'
  BY SaveRefreshLive
<1> QED BY <1>1, <1>2, <1>3, <1>4 DEF IInv

----------------------------------------------------------------------------
(* clear and forceSessionExpired *)

LEMMA ClearKeeps ==
  ASSUME TypeOK, Control, TokensFit, LiveFit, NEW c \in Calls, Clear(c)
  PROVE  IInv'
<1>1. TypeOK'
  BY SessionAssumption, SMTT(30) DEF TypeOK, Clear, Goto, Local, Keep, server,
     bounds, Kinds, Stages, Tokens, Ends
<1>2. Control'
  BY SessionAssumption, SMTT(30) DEF TypeOK, Control, KindFits, LaunchAlone,
     FlightIsRenewed, Renewing, Pending, Clear, Goto, Local, Keep, server, bounds,
     Idle, Kinds, Stages, Ends
<1>3. Quiet
  BY SessionAssumption, SMTT(30) DEF TypeOK, Control, KindFits, Quiet, Pending,
     Presented, Clear, Goto, Local, Keep, server, bounds, Kinds, Stages, Ends
<1>4. QuietLive
  BY SessionAssumption, SMTT(30) DEF TypeOK, Control, KindFits, QuietLive, Pending,
     Revoking, Replaces, Clear, Goto, Local, Keep, server, bounds, Kinds, Stages,
     Ends
<1> QED BY <1>1, <1>2, <1>3, <1>4, QuietTokens, QuietLiveFit DEF IInv

LEMMA ClearRefreshKeeps ==
  ASSUME TypeOK, Control, TokensFit, LiveFit, NEW c \in Calls, ClearRefresh(c)
  PROVE  IInv'
<1>1. TypeOK'
  BY SessionAssumption, SMTT(30) DEF TypeOK, ClearRefresh, Goto, server, bounds,
     Kinds, Stages, Tokens, Ends
<1>2. Control'
  BY SessionAssumption, SMTT(30) DEF TypeOK, Control, KindFits, LaunchAlone,
     FlightIsRenewed, Renewing, Pending, ClearRefresh, Goto, server, bounds, Idle,
     Kinds, Stages, Ends
<1>3. Quiet
  BY SessionAssumption, SMTT(30) DEF TypeOK, Control, KindFits, Quiet, Pending,
     Presented, ClearRefresh, Goto, server, bounds, Kinds, Stages, Ends
<1>4. QuietLive
  BY SessionAssumption, SMTT(30) DEF TypeOK, Control, KindFits, QuietLive, Pending,
     Revoking, Replaces, ClearRefresh, Goto, server, bounds, Kinds, Stages, Ends
<1> QED BY <1>1, <1>2, <1>3, <1>4, QuietTokens, QuietLiveFit DEF IInv

LEMMA ForceSessionExpiredKeeps ==
  ASSUME TypeOK, Control, TokensFit, LiveFit, NEW c \in Calls, ForceSessionExpired(c)
  PROVE  IInv'
<1>1. TypeOK'
  BY SessionAssumption, SMTT(30) DEF TypeOK, ForceSessionExpired, server, bounds,
     Kinds, Stages, Tokens, Ends
<1>2. Control'
  BY SessionAssumption, SMTT(30) DEF TypeOK, Control, KindFits, LaunchAlone,
     FlightIsRenewed, Renewing, Pending, ForceSessionExpired, server, bounds, Idle,
     Kinds, Stages, Ends
<1>3. Quiet
  BY SessionAssumption, SMTT(30) DEF TypeOK, Control, KindFits, Quiet, Pending,
     Presented, ForceSessionExpired, server, bounds, Kinds, Stages, Ends
<1>4. QuietLive
  BY SessionAssumption, SMTT(30) DEF TypeOK, Control, KindFits, QuietLive, Pending,
     Revoking, Replaces, ForceSessionExpired, server, bounds, Kinds, Stages, Ends
<1> QED BY <1>1, <1>2, <1>3, <1>4, QuietTokens, QuietLiveFit DEF IInv

----------------------------------------------------------------------------
(* AuthController *)

LEMMA RecoverKeeps ==
  ASSUME TypeOK, Control, TokensFit, LiveFit, NEW c \in Calls, Recover(c)
  PROVE  IInv'
<1>1. TypeOK'
  BY SessionAssumption, SMTT(30) DEF TypeOK, Recover, Goto, Keep, keychain, server,
     bounds, Kinds, Stages, Tokens, Ends
<1>2. Control'
  BY SessionAssumption, SMTT(30) DEF TypeOK, Control, KindFits, LaunchAlone,
     FlightIsRenewed, Renewing, Pending, Recover, Goto, Keep, keychain, server,
     bounds, Idle, Kinds, Stages, Ends
<1>3. Quiet
  BY SessionAssumption, SMTT(30) DEF TypeOK, Control, KindFits, Quiet, Pending,
     Presented, Recover, Goto, Keep, keychain, server, bounds, Kinds, Stages, Ends
<1>4. QuietLive
  BY SessionAssumption, SMTT(30) DEF TypeOK, Control, KindFits, QuietLive, Pending,
     Revoking, Replaces, Recover, Goto, Keep, keychain, server, bounds, Kinds,
     Stages, Ends
<1> QED BY <1>1, <1>2, <1>3, <1>4, QuietTokens, QuietLiveFit DEF IInv

LEMMA LoginTypes ==
  ASSUME TypeOK, NEW c \in Calls, Login(c)
  PROVE  TypeOK'
<1>1. Local /\ UNCHANGED <<keychain, header>>
  BY DEF Login
<1>2. pc' \in [Calls -> Stages]
  BY DEF Login, Goto, TypeOK, Stages, Ends
<1>3. held' \in [Calls -> Tokens]
  BY DEF Login, TypeOK, Tokens
<1>4. issued' \in Nat /\ live' \subseteq Nat /\ valid' \subseteq Nat
  <2>1. CASE Issue({})
    BY <2>1, IssueTypes
  <2>2. CASE UNCHANGED server
    BY <2>2 DEF server, TypeOK
  <2> QED BY <2>1, <2>2 DEF Login
<1>5. faults' \in 0 .. MaxFaults /\ expiries' \in 0 .. MaxExpiries /\ harmed' \in BOOLEAN
  <2>1. Fault \/ UNCHANGED bounds
    BY DEF Login
  <2> QED BY <2>1, BoundsTypes
<1> QED BY <1>1, <1>2, <1>3, <1>4, <1>5 DEF TypeOK, Local, Keep, keychain

LEMMA LoginTokens ==
  ASSUME TypeOK, Control, TokensFit, NEW c \in Calls, Login(c)
  PROVE  TokensFit'
<1>1. CASE Goto(c, "failed")
  <2>1. /\ pc[c] = "login" /\ pc' = [pc EXCEPT ![c] = "failed"]
        /\ UNCHANGED <<refresh, spent, astray, kind>>
    BY <1>1 DEF Login, Goto, Local, Keep, keychain
  <2>2. held' = held
    BY <1>1, <2>1 DEF Login, Goto, TypeOK, Stages
  <2>3. issued' \in Nat /\ issued <= issued'
    BY DEF Login, Issue, server, TypeOK
  <2>4. Quiet
    BY <2>1, <2>2, <2>3 DEF TypeOK, Quiet, Pending, Presented
  <2> QED BY <2>4, QuietTokens
<1>2. CASE Goto(c, "save")
  <2>1. /\ pc[c] = "login" /\ pc' = [pc EXCEPT ![c] = "save"]
        /\ held' = [held EXCEPT ![c] = issued + 1]
        /\ issued' = issued + 1 /\ issued \in Nat
        /\ UNCHANGED <<refresh, spent, astray, kind>>
    BY <1>2 DEF Login, Issue, Goto, Local, Keep, keychain, TypeOK, Stages
  <2>2. \A d \in Calls :
          /\ Pending(d)' => \/ d = c /\ held'[d] = issued'
                            \/ d # c /\ Pending(d) /\ held'[d] = held[d]
          /\ Presented(d)' => d # c /\ Presented(d) /\ held'[d] = held[d]
          /\ Pending(d) => Pending(d)'
    BY <2>1 DEF TypeOK, Pending, Presented
  <2>3. /\ \A n : Past(n) => Past(n)' /\ n # issued'
        /\ Past(issued)'
    BY <2>1 DEF Past
  <2>4. refresh # issued' /\ issued' \notin spent
    <3>1. issued' # None
      BY <2>1, SessionAssumption
    <3> QED BY <2>3, <3>1 DEF TokensFit
  <2>5. \A d \in Calls :
          Pending(d)' => Past(held[d])' /\ held'[d] \notin spent' /\ refresh' # held'[d]
    BY <2>1, <2>2, <2>3, <2>4 DEF TokensFit
  <2>6. \A d \in Calls :
          Presented(d)' => Past(held[d])' /\ (held'[d] \in spent' => held'[d] \in astray')
    BY <2>1, <2>2, <2>3 DEF TokensFit
  <2>7. \A d, e \in Calls :
          Pending(d)' /\ (Pending(e)' \/ Presented(e)') /\ d # e => held'[d] # held'[e]
    BY <2>2, <2>3 DEF TokensFit
  <2> QED BY <2>1, <2>2, <2>3, <2>5, <2>6, <2>7 DEF TokensFit
<1> QED BY <1>1, <1>2 DEF Login

LEMMA LoginLive ==
  ASSUME TypeOK, Control, LiveFit, NEW c \in Calls, Login(c)
  PROVE  LiveFit'
<1>1. /\ pc[c] = "login" /\ UNCHANGED <<refresh, kind, late>>
      /\ ~harmed' => ~harmed
      /\ issued' \in Nat /\ issued <= issued'
      /\ live \subseteq live'
  BY DEF Login, Local, Keep, Fault, Issue, TypeOK, keychain, server, bounds
<1>2. CASE Goto(c, "failed")
  <2>1. /\ pc' = [pc EXCEPT ![c] = "failed"] /\ held' = held
    BY <1>1, <1>2 DEF Login, Goto, TypeOK, Stages
  <2>2. QuietLive
    BY <1>1, <2>1 DEF TypeOK, QuietLive, Pending, Revoking, Replaces
  <2> QED BY <2>2, QuietLiveFit
<1>3. CASE Goto(c, "save")
  <2>1. /\ pc' = [pc EXCEPT ![c] = "save"]
        /\ held' = [held EXCEPT ![c] = issued']
        /\ issued' = issued + 1 /\ issued \in Nat
        /\ issued' \in live'
    BY <1>1, <1>3 DEF Login, Issue, Goto, TypeOK, Stages
  <2>2. \A d \in Calls :
          /\ Pending(d)' => \/ d = c /\ held'[d] = issued'
                            \/ d # c /\ Pending(d) /\ held'[d] = held[d]
          /\ Revoking(d)' => d # c /\ Revoking(d) /\ held'[d] = held[d]
          /\ Replaces(d) => Replaces(d)'
    BY <1>1, <2>1 DEF TypeOK, Pending, Revoking, Replaces
  <2>3. \A n : Past(n) => Past(n)' /\ n # issued'
    BY <2>1 DEF Past
  <2>4. \A d, e \in Calls : Revoking(d)' /\ Pending(e)' => held'[d] # held'[e]
    BY <2>2, <2>3 DEF LiveFit
  <2>5. ~harmed' => \A d \in Calls : Pending(d)' => held'[d] \in live'
    BY <1>1, <2>1, <2>2 DEF LiveFit
  <2>6. ~harmed' /\ refresh' # None =>
          refresh' \in live' \/ \E d \in Calls : Replaces(d)'
    BY <1>1, <2>2 DEF LiveFit
  <2> QED BY <2>2, <2>3, <2>4, <2>5, <2>6 DEF LiveFit
<1> QED BY <1>2, <1>3 DEF Login

LEMMA LoginKeeps ==
  ASSUME TypeOK, Control, TokensFit, LiveFit, NEW c \in Calls, Login(c)
  PROVE  IInv'
<1>1. TypeOK'
  BY LoginTypes
<1>2. Control'
  BY SessionAssumption, SMTT(30) DEF TypeOK, Control, KindFits, LaunchAlone,
     FlightIsRenewed, Renewing, Pending, Login, Goto, Local, Keep, Fault, keychain,
     server, bounds, Issue, Idle, Kinds, Stages, Ends
<1>3. TokensFit'
  BY LoginTokens
<1>4. LiveFit'
  BY LoginLive
<1> QED BY <1>1, <1>2, <1>3, <1>4 DEF IInv

LEMMA LogoutLive ==
  ASSUME TypeOK, TokensFit, LiveFit, NEW c \in Calls, Logout(c)
  PROVE  LiveFit'
<1>1. /\ pc[c] = "logout"
      /\ pc' = [pc EXCEPT ![c] = IF refresh = None THEN "clear" ELSE "revoke"]
      /\ held' = [held EXCEPT ![c] = refresh]
      /\ UNCHANGED <<refresh, kind, late, live, issued, harmed>>
  BY DEF Logout, Goto, Local, Keep, keychain, server, bounds
<1>2. \A d \in Calls :
        /\ Pending(d)' => d # c /\ Pending(d) /\ held'[d] = held[d]
        /\ Revoking(d)' => \/ d = c /\ refresh # None /\ held'[d] = refresh
                           \/ d # c /\ Revoking(d) /\ held'[d] = held[d]
        /\ Replaces(d) => Replaces(d)'
  BY <1>1 DEF TypeOK, Pending, Revoking, Replaces
<1>3. \A n : Past(n) => Past(n)'
  BY <1>1 DEF Past
<1>4. \A d \in Calls : Revoking(d)' => Past(held[d])'
  BY <1>2, <1>3 DEF LiveFit, TokensFit
<1>5. \A d, e \in Calls : Revoking(d)' /\ Pending(e)' => held'[d] # held'[e]
  BY <1>2 DEF LiveFit, TokensFit
<1> QED BY <1>1, <1>2, <1>4, <1>5 DEF LiveFit

LEMMA LogoutKeeps ==
  ASSUME TypeOK, Control, TokensFit, LiveFit, NEW c \in Calls, Logout(c)
  PROVE  IInv'
<1>1. TypeOK'
  BY SessionAssumption, SMTT(30) DEF TypeOK, Logout, Goto, Local, Keep, keychain,
     server, bounds, Kinds, Stages, Tokens, Ends
<1>2. Control'
  BY SessionAssumption, SMTT(30) DEF TypeOK, Control, KindFits, LaunchAlone,
     FlightIsRenewed, Renewing, Pending, Logout, Goto, Local, Keep, keychain,
     server, bounds, Idle, Kinds, Stages, Ends
<1>3. Quiet
  BY SessionAssumption, SMTT(30) DEF TypeOK, Control, KindFits, Quiet, Pending,
     Presented, Logout, Goto, Local, Keep, keychain, server, bounds, Kinds, Stages,
     Ends
<1>4. LiveFit'
  BY LogoutLive
<1> QED BY <1>1, <1>2, <1>3, <1>4, QuietTokens DEF IInv

LEMMA RevokeTypes ==
  ASSUME TypeOK, NEW c \in Calls, Revoke(c)
  PROVE  TypeOK'
<1>1. /\ Goto(c, "clear") /\ Keep
      /\ UNCHANGED <<keychain, status, flight, header, retried, held, issued, valid>>
  BY DEF Revoke
<1>2. live' \subseteq Nat
  BY DEF Revoke, TypeOK
<1>3. kind' \in [Calls -> Kinds]
  BY DEF Revoke, TypeOK, Kinds
<1>4. faults' \in 0 .. MaxFaults /\ expiries' \in 0 .. MaxExpiries /\ harmed' \in BOOLEAN
  <2>1. Fault \/ UNCHANGED bounds
    BY DEF Revoke, bounds
  <2> QED BY <2>1, BoundsTypes
<1> QED BY <1>1, <1>2, <1>3, <1>4 DEF TypeOK, Goto, Keep, keychain, Stages

LEMMA RevokeLive ==
  ASSUME TypeOK, LiveFit, NEW c \in Calls, Revoke(c)
  PROVE  LiveFit'
<1>1. /\ pc[c] = "revoke" /\ pc' = [pc EXCEPT ![c] = "clear"]
      /\ UNCHANGED <<refresh, held, issued>>
      /\ ~harmed' => ~harmed
      /\ live' \in {live, live \ {held[c]}}
  BY DEF Revoke, Goto, Keep, Fault, keychain, bounds
<1>2. \A d \in Calls :
        /\ Pending(d)' => Pending(d) /\ held[d] # held[c]
        /\ Revoking(d)' => Revoking(d)
  BY <1>1 DEF TypeOK, Pending, Revoking, LiveFit
<1>3. Replaces(c)'
  BY <1>1 DEF TypeOK, Replaces
<1>4. \A n : Past(n) => Past(n)'
  BY <1>1 DEF Past
<1>5. ~harmed' => \A d \in Calls : Pending(d)' => held'[d] \in live'
  BY <1>1, <1>2 DEF LiveFit
<1> QED BY <1>1, <1>2, <1>3, <1>4, <1>5 DEF LiveFit

LEMMA RevokeKeeps ==
  ASSUME TypeOK, Control, TokensFit, LiveFit, NEW c \in Calls, Revoke(c)
  PROVE  IInv'
<1>1. TypeOK'
  BY RevokeTypes
<1>2. Control'
  BY SessionAssumption, SMTT(30) DEF TypeOK, Control, KindFits, LaunchAlone,
     FlightIsRenewed, Renewing, Pending, Revoke, Goto, Keep, Fault, keychain,
     bounds, Idle, Kinds, Stages, Ends
<1>3. Quiet
  BY SessionAssumption, SMTT(30) DEF TypeOK, Control, KindFits, Quiet, Pending,
     Presented, Revoke, Goto, Keep, Fault, keychain, bounds, Kinds, Stages, Ends
<1>4. LiveFit'
  BY RevokeLive
<1> QED BY <1>1, <1>2, <1>3, <1>4, QuietTokens DEF IInv

----------------------------------------------------------------------------
(* The environment *)

LEMMA AccessExpiresKeeps ==
  ASSUME TypeOK, Control, TokensFit, LiveFit, AccessExpires
  PROVE  IInv'
<1>1. TypeOK'
  BY SessionAssumption, SMTT(30) DEF TypeOK, AccessExpires, Local, Keep, keychain,
     Kinds, Stages, Tokens, Ends
<1>2. Control'
  BY SessionAssumption, SMTT(30) DEF TypeOK, Control, KindFits, LaunchAlone,
     FlightIsRenewed, Renewing, Pending, AccessExpires, Local, Keep, keychain, Idle,
     Kinds, Stages, Ends
<1>3. Quiet
  BY SessionAssumption, SMTT(30) DEF TypeOK, Control, KindFits, Quiet, Pending,
     Presented, AccessExpires, Local, Keep, keychain, Kinds, Stages, Ends
<1>4. QuietLive
  BY SessionAssumption, SMTT(30) DEF TypeOK, Control, KindFits, QuietLive, Pending,
     Revoking, Replaces, AccessExpires, Local, Keep, keychain, Kinds, Stages, Ends
<1> QED BY <1>1, <1>2, <1>3, <1>4, QuietTokens, QuietLiveFit DEF IInv

LEMMA RevokeAllKeeps ==
  ASSUME TypeOK, Control, TokensFit, LiveFit, RevokeAll
  PROVE  IInv'
<1>1. TypeOK'
  BY SessionAssumption, SMTT(30) DEF TypeOK, RevokeAll, Local, Keep, Fault,
     keychain, Kinds, Stages, Tokens, Ends
<1>2. Control'
  BY SessionAssumption, SMTT(30) DEF TypeOK, Control, KindFits, LaunchAlone,
     FlightIsRenewed, Renewing, Pending, RevokeAll, Local, Keep, Fault, keychain,
     Idle, Kinds, Stages, Ends
<1>3. Quiet
  BY SessionAssumption, SMTT(30) DEF TypeOK, Control, KindFits, Quiet, Pending,
     Presented, RevokeAll, Local, Keep, Fault, keychain, Kinds, Stages, Ends
<1>4. QuietLive
  BY SessionAssumption, SMTT(30) DEF TypeOK, Control, KindFits, QuietLive, Pending,
     Revoking, Replaces, RevokeAll, Local, Keep, Fault, keychain, Kinds, Stages,
     Ends
<1> QED BY <1>1, <1>2, <1>3, <1>4, QuietTokens, QuietLiveFit DEF IInv

LEMMA RestartTokens ==
  ASSUME TypeOK, TokensFit, Restart
  PROVE  TokensFit'
<1>1. \A c \in Calls : ~Pending(c)' /\ ~Presented(c)'
  BY DEF Restart, Idle, Ends, Pending, Presented
<1>2. /\ UNCHANGED <<refresh, issued, spent>>
      /\ astray' = astray \cup (spent \cap {refresh})
  BY DEF Restart, keychain, server
<1>3. /\ refresh # None => Past(refresh)'
      /\ \A n \in spent' : Past(n)'
  BY <1>2 DEF TokensFit, Past
<1>4. refresh' \in spent' => refresh' \in astray'
  BY <1>2
<1> QED BY <1>1, <1>2, <1>3, <1>4 DEF TokensFit

LEMMA RestartKeeps ==
  ASSUME TypeOK, Control, TokensFit, LiveFit, Restart
  PROVE  IInv'
<1>1. TypeOK'
  BY SessionAssumption, SMTT(30) DEF TypeOK, Restart, Fault, keychain, server, Idle,
     Ends, Kinds, Stages, Tokens
<1>2. Control'
  BY SessionAssumption, SMTT(30) DEF TypeOK, Control, KindFits, LaunchAlone,
     FlightIsRenewed, Renewing, Pending, Restart, Fault, keychain, server, Idle,
     Kinds, Stages, Ends
<1>3. TokensFit'
  BY RestartTokens
<1>4. QuietLive
  BY SessionAssumption, SMTT(30) DEF TypeOK, Control, KindFits, QuietLive, Pending,
     Revoking, Replaces, Restart, Fault, keychain, server, Idle, Kinds, Stages, Ends
<1> QED BY <1>1, <1>2, <1>3, <1>4, QuietLiveFit DEF IInv

----------------------------------------------------------------------------
(* The invariant *)

LEMMA InitIInv == Init => IInv
<1> SUFFICES ASSUME Init PROVE IInv
  OBVIOUS
<1>1. TypeOK
  <2>1. /\ access \in Tokens /\ refresh \in Tokens
        /\ issued \in Nat /\ live \subseteq Nat /\ valid \subseteq Nat
    BY DEF Init, Tokens
  <2>2. kind \in [Calls -> Kinds]
    BY DEF Init, Kinds
  <2>3. pc \in [Calls -> Stages] /\ retried \in [Calls -> BOOLEAN]
    BY DEF Init, Stages
  <2>4. /\ header \in [Calls -> Tokens] /\ held \in [Calls -> Tokens]
        /\ late \in [Calls -> {"no", "clear", "clearRefresh"}]
    BY DEF Init, Tokens
  <2>5. /\ status \in {"initializing", "authenticated", "unauthenticated"}
        /\ flight \in Calls \cup {None} /\ spent \subseteq Nat
        /\ faults \in 0 .. MaxFaults /\ expiries \in 0 .. MaxExpiries
        /\ harmed \in BOOLEAN /\ denied \in BOOLEAN
    BY DEF Init
  <2> QED BY <2>1, <2>2, <2>3, <2>4, <2>5 DEF TypeOK
<1>2. Control
  <2>1. \A c \in Calls : pc[c] = "idle" /\ late[c] = "no" /\ Idle(c)
    BY DEF Init, Idle
  <2>2. \A c \in Calls : KindFits(c)
    <3>1. \A c \in Calls : kind[c] \in {"get", "mutate", "login", "logout", "restore"}
      BY DEF Init
    <3>2. \A c \in Calls : kind[c] = "restore" <=> c = Boot
      BY DEF Init
    <3>3. ASSUME NEW c \in Calls PROVE KindFits(c)
      <4>1. pc[c] = "idle"
        BY <2>1
      <4>2. kind[c] # "recover"
        BY <3>1
      <4> QED BY <3>2, <4>1, <4>2, Zenon DEF KindFits
    <3> QED BY <3>3
  <2>3. LaunchAlone
    BY <2>1 DEF Init, LaunchAlone
  <2> QED BY <2>1, <2>2, <2>3 DEF Control, FlightIsRenewed, Renewing, Pending
<1>3. TokensFit
  BY SessionAssumption DEF Init, TokensFit, Past, Pending, Presented
<1>4. LiveFit
  BY SessionAssumption DEF Init, LiveFit, Pending, Revoking
<1> QED BY <1>1, <1>2, <1>3, <1>4 DEF IInv

LEMMA NextKeeps ==
  ASSUME IInv, [Next]_vars
  PROVE  IInv'
<1>1. TypeOK /\ Control /\ TokensFit /\ LiveFit
  BY DEF IInv
<1>2. ASSUME NEW c \in Calls, Begin(c) \/ Step(c) \/ LoseRequest(c) \/ LoseRotation(c)
      PROVE  IInv'
  <2>1. CASE Begin(c)
    BY <1>1, <2>1, BeginKeeps
  <2>2. CASE Attach(c)
    BY <1>1, <2>2, AttachKeeps
  <2>3. CASE Serve(c)
    BY <1>1, <2>3, ServeKeeps
  <2>4. CASE LoseRequest(c)
    BY <1>1, <2>4, LoseRequestKeeps
  <2>5. CASE Refused(c)
    BY <1>1, <2>5, RefusedKeeps
  <2>6. CASE ReadRefresh(c)
    BY <1>1, <2>6, ReadRefreshKeeps
  <2>7. CASE Rotate(c)
    BY <1>1, <2>7, RotateKeeps
  <2>8. CASE LoseRotation(c)
    BY <1>1, <2>8, LoseRotationKeeps
  <2>9. CASE Save(c)
    BY <1>1, <2>9, SaveKeeps
  <2>10. CASE SaveRefresh(c)
    BY <1>1, <2>10, SaveRefreshKeeps
  <2>11. CASE Clear(c)
    BY <1>1, <2>11, ClearKeeps
  <2>12. CASE ClearRefresh(c)
    BY <1>1, <2>12, ClearRefreshKeeps
  <2>13. CASE ForceSessionExpired(c)
    BY <1>1, <2>13, ForceSessionExpiredKeeps
  <2>14. CASE Recover(c)
    BY <1>1, <2>14, RecoverKeeps
  <2>15. CASE Login(c)
    BY <1>1, <2>15, LoginKeeps
  <2>16. CASE Logout(c)
    BY <1>1, <2>16, LogoutKeeps
  <2>17. CASE Revoke(c)
    BY <1>1, <2>17, RevokeKeeps
  <2> QED BY <1>2, <2>1, <2>2, <2>3, <2>4, <2>5, <2>6, <2>7, <2>8, <2>9, <2>10,
       <2>11, <2>12, <2>13, <2>14, <2>15, <2>16, <2>17 DEF Step
<1>3. CASE AccessExpires
  BY <1>1, <1>3, AccessExpiresKeeps
<1>4. CASE RevokeAll
  BY <1>1, <1>4, RevokeAllKeeps
<1>5. CASE Restart
  BY <1>1, <1>5, RestartKeeps
<1>6. CASE UNCHANGED vars
  <2>1. UNCHANGED <<access, refresh, status, flight, kind, pc, header, retried, held,
                    late, issued, live, valid, faults, expiries, harmed, spent, astray,
                    denied>>
    BY <1>6 DEF vars, keychain, server, bounds
  <2>2. TypeOK'
    BY <1>1, <2>1 DEF TypeOK
  <2>3. Control'
    BY <1>1, <2>1 DEF Control, LaunchAlone, KindFits, FlightIsRenewed, Renewing, Pending,
       Idle
  <2>4. TokensFit'
    BY <1>1, <2>1 DEF TokensFit, Past, Pending, Presented
  <2>5. LiveFit'
    BY <1>1, <2>1 DEF LiveFit, Past, Pending, Revoking, Replaces
  <2> QED BY <2>2, <2>3, <2>4, <2>5 DEF IInv
<1> QED BY <1>2, <1>3, <1>4, <1>5, <1>6 DEF Next

----------------------------------------------------------------------------
\* Whatever requests, logins and logouts overlap, and whatever is lost or
\* revoked, one call at a time renews the session of api_client.dart, and the
\* tokens are those that TokensFit and LiveFit say.
THEOREM Invariance == Spec => []IInv
<1>1. Init => IInv
  BY InitIInv
<1>2. IInv /\ [Next]_vars => IInv'
  BY NextKeeps
<1>3. QED BY <1>1, <1>2, PTL DEF Spec

\* api_client.dart, _tryRefreshOnce, and auth_repository.dart, refreshSession: a
\* refresh token that was rotated is presented again only if its successor never
\* reached the keychain, because the answer was lost or the app was killed.
THEOREM PresentedOnce == Spec => []RotatedTokensAreReplaced
<1>1. IInv => RotatedTokensAreReplaced
  BY DEF IInv, TokensFit, Presented, RotatedTokensAreReplaced
<1>2. QED BY <1>1, Invariance, PTL

\* Without faults, the refresh token that AuthTokenStore keeps when nothing is
\* under way is one that the server accepts.
THEOREM StoredIsLive == Spec => []StoredTokenIsLive
<1>1. IInv => StoredTokenIsLive
  <2> SUFFICES ASSUME IInv, \A c \in Calls : Idle(c) /\ late[c] = "no",
                      ~harmed, refresh # None
               PROVE  refresh \in live
    BY DEF StoredTokenIsLive
  <2>1. \A c \in Calls : ~Replaces(c)
    BY DEF Replaces, Pending, Idle, Ends
  <2> QED BY <2>1 DEF IInv, LiveFit
<1>2. QED BY <1>1, Invariance, PTL
=============================================================================
