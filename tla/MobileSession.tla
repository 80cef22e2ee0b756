---------------------------- MODULE MobileSession ----------------------------
(***************************************************************************)
(* The session of the mobile app: ApiClient (bearer tokens, 401s, the      *)
(* shared refresh and the retry), AuthRepository and AuthTokenStore (the   *)
(* tokens in the keychain) and AuthController (restoring, signing in and   *)
(* out), with the part of the server they talk to.                         *)
(*                                                                         *)
(* Dart runs one callback at a time; a step ends at an await: a read or a  *)
(* write of the keychain, or a request.  Pair n of tokens is the n-th that *)
(* the server has issued.  A call is one request of the app, or one        *)
(* operation of AuthController.                                            *)
(***************************************************************************)
EXTENDS Integers

CONSTANTS
  Calls, Boot,   \* Boot restores the session at launch
  MaxFaults,     \* bound: lost requests and answers, revocations, restarts
  MaxExpiries,   \* bound: access tokens that expire
  None

ASSUME SessionAssumption ==
  /\ Boot \in Calls
  /\ MaxFaults \in Nat /\ MaxExpiries \in Nat
  /\ None \notin Nat \cup Calls

VARIABLES
  access, refresh, \* keychain: auth_access_token, auth_refresh_token
  status,          \* of the AuthController
  flight,          \* _refreshInFlight: the call whose refresh is shared
  kind, pc,        \* what a call is, and how far
  header,          \* its Authorization header
  retried,         \* _auth_retried
  held,            \* the refresh token it presents, or the pair it was given
  late,            \* calls whose forceSessionExpired is still to come
  issued,          \* server: pairs issued,
  live, valid,     \*   refresh tokens not revoked, access tokens not expired
  faults, expiries,\* how many are left
  harmed,          \* ghost: there was a fault
  spent,           \* ghost: refresh tokens that were rotated
  astray,          \* ghost: those whose successor never reached the keychain
  denied           \* ghost: a refresh has failed

keychain == <<access, refresh>>
server == <<issued, live, valid>>
bounds == <<faults, expiries, harmed>>
vars == <<keychain, status, flight, kind, pc, header, retried, held, late,
          server, bounds, spent, astray, denied>>

Ends == {"answered", "failed"}
Idle(c) == pc[c] \in Ends \cup {"idle"}

Init ==
  /\ \/ access = 1 /\ refresh = 1 /\ issued = 1 /\ live = {1} /\ valid \in {{}, {1}}
     \/ access = None /\ refresh = None /\ issued = 0 /\ live = {} /\ valid = {}
  /\ status = "initializing"
  /\ flight = None
  /\ kind \in {k \in [Calls -> {"get", "mutate", "login", "logout", "restore"}] :
                 \A c \in Calls : k[c] = "restore" <=> c = Boot}
  /\ pc = [c \in Calls |-> "idle"]
  /\ header = [c \in Calls |-> None]
  /\ retried = [c \in Calls |-> FALSE]
  /\ held = [c \in Calls |-> None]
  /\ late = [c \in Calls |-> "no"]
  /\ faults \in 0 .. MaxFaults
  /\ expiries \in 0 .. MaxExpiries
  /\ harmed = FALSE
  /\ spent = {}
  /\ astray = {}
  /\ denied = FALSE

-----------------------------------------------------------------------------
Goto(c, stage) == pc' = [pc EXCEPT ![c] = stage]
Fault == faults > 0 /\ faults' = faults - 1 /\ harmed' = TRUE /\ UNCHANGED expiries

\* What most steps leave alone.
Keep == UNCHANGED <<late, spent, astray, denied>>
Local == Keep /\ UNCHANGED <<status, flight, kind, retried>>

\* The user opens the app, or uses it where its pages are shown.
Begin(c) ==
  /\ pc[c] = "idle"
  /\ CASE kind[c] = "restore" -> status = "initializing"
       [] kind[c] = "login"   -> status = "unauthenticated" /\ Idle(Boot)
       [] OTHER               -> status = "authenticated" /\ Idle(Boot)
  /\ IF kind[c] = "restore" /\ access = None /\ refresh = None
     THEN Goto(c, "failed") /\ status' = "unauthenticated"
     ELSE /\ Goto(c, CASE kind[c] = "login"  -> "login"
                       [] kind[c] = "logout" -> "logout"
                       [] OTHER              -> "attach")
          /\ UNCHANGED status
  /\ Keep
  /\ UNCHANGED <<keychain, flight, kind, header, retried, held, server, bounds>>

-----------------------------------------------------------------------------
(* ApiClient *)

\* _onRequest: putIfAbsent leaves a header alone that is there already, as in
\* the options of a retry, which are a copy of those of the failed request.
Attach(c) ==
  /\ pc[c] = "attach"
  /\ header' = [header EXCEPT ![c] = IF @ = None THEN access ELSE @]
  /\ Goto(c, "sent")
  /\ Local
  /\ UNCHANGED <<keychain, held, server, bounds>>

\* The server accepts the access token, or its 401 is under way.
Serve(c) ==
  /\ pc[c] = "sent"
  /\ IF header[c] \in valid
     THEN /\ Goto(c, "answered")
          /\ status' = IF kind[c] = "restore" THEN "authenticated" ELSE status
     ELSE Goto(c, "refused") /\ UNCHANGED status
  /\ Keep
  /\ UNCHANGED <<keychain, flight, kind, header, retried, held, server, bounds>>

\* A timeout, or an answer other than 401, is passed on.
LoseRequest(c) ==
  /\ pc[c] = "sent"
  /\ Fault
  /\ Goto(c, IF kind[c] = "restore" THEN "again" ELSE "failed")
  /\ Local
  /\ UNCHANGED <<keychain, header, held, server>>

\* Mutant: every caller begins a refresh of its own.
RefreshAlone == FALSE

\* _tryRefreshOnce shares the refresh that is under way.
ShareRefresh == flight # None

\* _onError, for a 401.
Refused(c) ==
  /\ pc[c] = "refused"
  /\ IF kind[c] = "mutate" THEN Goto(c, "failed") /\ UNCHANGED flight
     ELSE IF retried[c] THEN Goto(c, "clear") /\ UNCHANGED flight
     ELSE IF ShareRefresh THEN Goto(c, "shared") /\ UNCHANGED flight
     ELSE Goto(c, "read") /\ flight' = c
  /\ Keep
  /\ UNCHANGED <<keychain, status, kind, header, retried, held, server, bounds>>

\* Mutant: those who share a refresh are forgotten when it fails.
WokenBySuccess(d, ok) == pc[d] = "shared" /\ ok

Woken(d, ok) == pc[d] = "shared"

\* The refresh of c has ended: its caller, and those who share it, retry or
\* expire the session.  restoreSession calls the repository directly.
RefreshEnds(c, ok) ==
  /\ denied' = (denied \/ ~ok)
  /\ status' = IF ok THEN "authenticated" ELSE status
  /\ IF kind[c] = "recover"
     THEN /\ Goto(c, IF ok THEN "answered" ELSE "clear")
          /\ UNCHANGED <<flight, retried>>
     ELSE /\ flight' = None
          /\ pc' = [d \in Calls |->
                      IF d = c \/ Woken(d, ok) THEN IF ok THEN "attach" ELSE "clear"
                      ELSE pc[d]]
          /\ retried' = [d \in Calls |->
                           retried[d] \/ (ok /\ (d = c \/ Woken(d, ok)))]

-----------------------------------------------------------------------------
(* AuthRepository.refreshSession *)

ReadRefresh(c) ==
  /\ pc[c] = "read"
  /\ held' = [held EXCEPT ![c] = refresh]
  /\ IF refresh = None
     THEN RefreshEnds(c, FALSE) /\ UNCHANGED <<kind, late, spent, astray>>
     ELSE Goto(c, "presented") /\ Local
  /\ UNCHANGED <<keychain, header, server, bounds>>

\* The server rotates the token: a new pair, and the old one is revoked.
Issue(revoked) ==
  /\ issued' = issued + 1
  /\ live' = (live \ revoked) \cup {issued + 1}
  /\ valid' = valid \cup {issued + 1}

Rotate(c) ==
  /\ pc[c] = "presented"
  /\ IF held[c] \in live
     THEN /\ Issue({held[c]})
          /\ spent' = spent \cup {held[c]}
          /\ held' = [held EXCEPT ![c] = issued + 1]
          /\ Goto(c, "save")
          /\ UNCHANGED <<status, flight, retried, denied>>
     ELSE RefreshEnds(c, FALSE) /\ UNCHANGED <<held, server, spent>>
  /\ UNCHANGED <<keychain, kind, header, late, bounds, astray>>

\* The request is lost or, when the server has rotated the token, its answer.
LoseRotation(c) ==
  /\ pc[c] = "presented"
  /\ Fault
  /\ RefreshEnds(c, FALSE)
  /\ \/ /\ held[c] \in live
        /\ Issue({held[c]})
        /\ spent' = spent \cup {held[c]}
        /\ astray' = astray \cup {held[c]}
     \/ UNCHANGED <<server, spent, astray>>
  /\ UNCHANGED <<keychain, kind, header, held, late>>

\* saveSession writes one token after the other.
Save(c) ==
  /\ pc[c] = "save"
  /\ access' = held[c]
  /\ Goto(c, "saveRefresh")
  /\ Local
  /\ UNCHANGED <<refresh, header, held, server, bounds>>

\* Mutant: the rotated refresh token is not stored.
KeepRefresh(c) == IF kind[c] = "login" THEN held[c] ELSE refresh

NewRefresh(c) == held[c]

SaveRefresh(c) ==
  /\ pc[c] = "saveRefresh"
  /\ refresh' = NewRefresh(c)
  /\ IF kind[c] = "login"
     THEN /\ Goto(c, "answered")
          /\ status' = "authenticated"
          /\ UNCHANGED <<flight, retried, denied>>
     ELSE RefreshEnds(c, TRUE)
  /\ UNCHANGED <<access, kind, header, held, late, server, bounds, spent, astray>>

-----------------------------------------------------------------------------
(* clear and forceSessionExpired *)

Clear(c) ==
  /\ pc[c] = "clear"
  /\ access' = None
  /\ Goto(c, "clearRefresh")
  /\ Local
  /\ UNCHANGED <<refresh, header, held, server, bounds>>

\* _expireSession does not wait for forceSessionExpired.
ClearRefresh(c) ==
  /\ pc[c] = "clearRefresh"
  /\ refresh' = None
  /\ Goto(c, CASE kind[c] = "logout" -> "answered"
               [] kind[c] = "restore" -> "again"
               [] OTHER -> "failed")
  /\ IF kind[c] \in {"logout", "recover"}
     THEN status' = "unauthenticated" /\ UNCHANGED late
     ELSE /\ late' = IF kind[c] = "unsure" THEN late
                     ELSE [late EXCEPT ![c] = "clear"]
          /\ UNCHANGED status
  /\ UNCHANGED <<access, flight, kind, header, retried, held, server, bounds,
                 spent, astray, denied>>

ForceSessionExpired(c) ==
  /\ \/ /\ late[c] = "clear"
        /\ access' = None
        /\ late' = [late EXCEPT ![c] = "clearRefresh"]
        /\ UNCHANGED <<refresh, status>>
     \/ /\ late[c] = "clearRefresh"
        /\ refresh' = None
        /\ status' = "unauthenticated"
        /\ late' = [late EXCEPT ![c] = "no"]
        /\ UNCHANGED access
  /\ UNCHANGED <<flight, kind, pc, header, retried, held, server, bounds,
                 spent, astray, denied>>

-----------------------------------------------------------------------------
(* AuthController *)

\* restoreSession has no user: a refresh may help.
Recover(c) ==
  /\ pc[c] = "again"
  /\ kind' = [kind EXCEPT ![c] = "recover"]
  /\ Goto(c, "read")
  /\ Keep
  /\ UNCHANGED <<keychain, status, flight, header, retried, held, server, bounds>>

\* login and register, which the server may refuse.
Login(c) ==
  /\ pc[c] = "login"
  /\ \/ /\ Issue({})
        /\ held' = [held EXCEPT ![c] = issued + 1]
        /\ Goto(c, "save")
        /\ UNCHANGED bounds
     \/ /\ Goto(c, "failed")
        /\ UNCHANGED <<held, server, bounds>>
     \/ /\ Fault
        /\ Issue({}) \/ UNCHANGED server
        /\ Goto(c, "failed")
        /\ UNCHANGED held
  /\ Local
  /\ UNCHANGED <<keychain, header>>

Logout(c) ==
  /\ pc[c] = "logout"
  /\ held' = [held EXCEPT ![c] = refresh]
  /\ Goto(c, IF refresh = None THEN "clear" ELSE "revoke")
  /\ Local
  /\ UNCHANGED <<keychain, header, server, bounds>>

\* The tokens are cleared whatever the server answers, but an error is passed
\* on before the status is set.
Revoke(c) ==
  /\ pc[c] = "revoke"
  /\ \/ live' = live \ {held[c]} /\ UNCHANGED <<kind, bounds>>
     \/ /\ Fault
        /\ live' \in {live, live \ {held[c]}}
        /\ kind' = [kind EXCEPT ![c] = "unsure"]
  /\ Goto(c, "clear")
  /\ Keep
  /\ UNCHANGED <<keychain, status, flight, header, retried, held, issued, valid>>

-----------------------------------------------------------------------------
(* The environment *)

AccessExpires ==
  /\ expiries > 0 /\ expiries' = expiries - 1
  /\ \E n \in valid : valid' = valid \ {n}
  /\ Local
  /\ UNCHANGED <<keychain, pc, header, held, issued, live, faults, harmed>>

\* All sessions are revoked, as by a password reset.
RevokeAll ==
  /\ Fault
  /\ live # {} /\ live' = {}
  /\ Local
  /\ UNCHANGED <<keychain, pc, header, held, issued, valid>>

\* The app is killed, with the new pair if there was one, and opened again.
Restart ==
  /\ Fault
  /\ ~(pc[Boot] = "idle")
  /\ pc' = [c \in Calls |->
              IF c = Boot THEN "idle" ELSE IF Idle(c) THEN pc[c] ELSE "failed"]
  /\ kind' = [kind EXCEPT ![Boot] = "restore"]
  /\ header' = [header EXCEPT ![Boot] = None]
  /\ retried' = [retried EXCEPT ![Boot] = FALSE]
  /\ late' = [c \in Calls |-> "no"]
  /\ status' = "initializing"
  /\ flight' = None
  /\ astray' = astray \cup (spent \cap {refresh})
  /\ UNCHANGED <<keychain, held, server, spent, denied>>

-----------------------------------------------------------------------------
Step(c) ==
  \/ Attach(c) \/ Serve(c) \/ Refused(c)
  \/ ReadRefresh(c) \/ Rotate(c) \/ Save(c) \/ SaveRefresh(c)
  \/ Clear(c) \/ ClearRefresh(c) \/ ForceSessionExpired(c)
  \/ Recover(c) \/ Login(c) \/ Logout(c) \/ Revoke(c)

Next ==
  \/ \E c \in Calls : Begin(c) \/ Step(c) \/ LoseRequest(c) \/ LoseRotation(c)
  \/ AccessExpires \/ RevokeAll \/ Restart

Spec == Init /\ [][Next]_vars

\* Every request has a timeout of 15 seconds, and the event loop goes on.
FairSpec == Spec /\ \A c \in Calls : WF_vars(Step(c))

-----------------------------------------------------------------------------
(* Properties *)

\* "401 storms on parallel GETs never rotate twice" (api_client.dart:203): the app
\* presents a refresh token that was rotated only if its successor has never
\* reached the keychain, because the answer was lost or the app killed before it
\* was stored.  In these cases it does, and is refused.
RotatedTokensAreReplaced ==
  \A c \in Calls : pc[c] = "presented" /\ held[c] \in spent => held[c] \in astray

\* Without faults the app is never left with a refresh token that is of no
\* use: what is stored when nothing is under way can be rotated.
StoredTokenIsLive ==
  (/\ \A c \in Calls : Idle(c) /\ late[c] = "no"
   /\ ~harmed
   /\ refresh # None) => refresh \in live

\* Calls end, also those that wait for the refresh of another one.
CallsEnd == \A c \in Calls : ~Idle(c) ~> Idle(c)

\* "Dispatches onSessionExpired to clear stored tokens and redirect to
\* sign-in when a refresh fails" (README.md:64): no session is expired while
\* every refresh succeeds.
ExpiredWhenRefreshFails ==
  \A c \in Calls : pc[c] = "clear" /\ kind[c] \in {"get", "restore"} => denied
=============================================================================
