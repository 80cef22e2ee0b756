--------------------------- MODULE DistributedLock ---------------------------
(***************************************************************************)
(* The Redis lock of backend/src/redis/distributedLock.ts.                 *)
(*                                                                         *)
(* A process of this module is ONE call of withLock: acquire draws a fresh *)
(* random token for every call, so the call itself stands for its token    *)
(* and lock[r] = p reads "the key of r holds the token of call p".  The    *)
(* key disappears by an explicit release or when its TTL runs out; a Redis *)
(* error may be reported before or after the command took effect.          *)
(***************************************************************************)
CONSTANTS Procs,      \* the calls of withLock
          Resources,  \* what lock keys are made from
          NoProc      \* "the key does not exist"

ASSUME NoProcAssumption == NoProc \notin Procs

VARIABLES lock,    \* the token stored under each key
          hold,    \* what each call believes about its token
          lapsed,  \* ghost: calls whose token Redis expired
          wants    \* the key each call locks

lockVars == <<lock, hold, lapsed>>

\* "idle"    acquire has not answered yet
\* "token"   the call got the lock and runs its operation
\* "bare"    acquire failed, the operation runs without coordination
\* "refused" another token was there: DistributedLockConflictError
\* "done"    the call returned, "gone" its process died
HoldStates == {"idle", "token", "bare", "refused", "done", "gone"}

TypeOK ==
  /\ lock \in [Resources -> Procs \cup {NoProc}]
  /\ hold \in [Procs -> HoldStates]
  /\ lapsed \in SUBSET Procs
  /\ wants \in [Procs -> Resources]

LockInit ==
  /\ lock = [r \in Resources |-> NoProc]
  /\ hold = [p \in Procs |-> "idle"]
  /\ lapsed = {}

Init == LockInit /\ wants \in [Procs -> Resources]

Becomes(p, state) == hold' = [hold EXCEPT ![p] = state]
Stores(r, token) == lock' = [lock EXCEPT ![r] = token]

-----------------------------------------------------------------------------
(* acquire: SET key token PX ttl NX *)

\* Mutation of Acquire: SET without NX.
AcquireWithoutNX(p) ==
  /\ hold[p] = "idle"
  /\ Stores(wants[p], p)
  /\ Becomes(p, "token")
  /\ UNCHANGED lapsed

Acquire(p) ==
  /\ hold[p] = "idle"
  /\ lock[wants[p]] = NoProc
  /\ Stores(wants[p], p)
  /\ Becomes(p, "token")
  /\ UNCHANGED lapsed

Refuse(p) ==
  /\ hold[p] = "idle"
  /\ lock[wants[p]] # NoProc
  /\ Becomes(p, "refused")
  /\ UNCHANGED <<lock, lapsed>>

\* Redis answered with an error: withLock runs the operation anyway and
\* keeps no token.  The SET may still have been executed, and then the key
\* stays until its TTL with nobody to release it.
AcquireError(p) ==
  /\ hold[p] = "idle"
  /\ \/ UNCHANGED lock
     \/ lock[wants[p]] = NoProc /\ Stores(wants[p], p)
  /\ Becomes(p, "bare")
  /\ UNCHANGED lapsed

(* the finally block: the compare-and-delete script, when there is a token *)

\* Mutation of OwnKeyDeleted: DEL without comparing the token.
AnyKeyDeleted(p) == lock' = [lock EXCEPT ![wants[p]] = NoProc]

OwnKeyDeleted(p) ==
  lock' = [lock EXCEPT ![wants[p]] = IF @ = p THEN NoProc ELSE @]

Release(p) ==
  /\ hold[p] = "token"
  /\ OwnKeyDeleted(p)
  /\ Becomes(p, "done")
  /\ UNCHANGED lapsed

\* The script failed before or after Redis ran it; the error is only logged.
ReleaseError(p) ==
  /\ hold[p] = "token"
  /\ UNCHANGED lock \/ OwnKeyDeleted(p)
  /\ Becomes(p, "done")
  /\ UNCHANGED lapsed

\* A call without a token has nothing to release.
ReturnBare(p) ==
  /\ hold[p] = "bare"
  /\ Becomes(p, "done")
  /\ UNCHANGED <<lock, lapsed>>

(* the environment: process death and the TTL *)

Crash(p) ==
  /\ hold[p] \in {"idle", "token", "bare"}
  /\ Becomes(p, "gone")
  /\ UNCHANGED <<lock, lapsed>>

\* Mutation of Expire: SET without PX.
NeverExpire(r) == lock[r] # NoProc /\ FALSE

Expire(r) ==
  /\ lock[r] # NoProc
  /\ Stores(r, NoProc)
  /\ lapsed' = lapsed \cup {lock[r]}
  /\ UNCHANGED hold

-----------------------------------------------------------------------------
Call(p) == \/ Acquire(p) \/ Refuse(p) \/ AcquireError(p)
           \/ Release(p) \/ ReleaseError(p) \/ ReturnBare(p) \/ Crash(p)

Next ==
  /\ \/ \E p \in Procs : Call(p)
     \/ \E r \in Resources : Expire(r)
  /\ UNCHANGED wants

vars == <<lock, hold, lapsed, wants>>

Spec == Init /\ [][Next]_vars

\* Redis always drops a key whose TTL has run out.
FairSpec == Spec /\ \A r \in Resources : WF_vars(Expire(r) /\ UNCHANGED wants)

-----------------------------------------------------------------------------
(* A call that believes it holds the lock does hold it, unless its TTL ran *)
(* out: withLock never claims a lock it lost to somebody else's release,   *)
(* which is what the token comparison of RELEASE_SCRIPT is for.            *)
TokenIsStored ==
  \A p \in Procs : hold[p] = "token" => p \in lapsed \/ lock[wants[p]] = p

(* The inductive invariant of the lock. *)
LockInv == TypeOK /\ TokenIsStored

(* Two calls on one key run their operations at the same time only when    *)
(* one of them outlived its TTL (or runs bare, without a token).           *)
CoordinatedExclusion ==
  \A p, q \in Procs :
    /\ p # q
    /\ wants[p] = wants[q]
    /\ hold[p] = "token"
    /\ hold[q] = "token"
    => p \in lapsed \/ q \in lapsed

(* A stored token leaves Redis only by its own call's release or by its    *)
(* TTL: no call deletes, or overwrites, the token of another one.          *)
OnlyOwnerOrTTLFrees ==
  [][\A r \in Resources, p \in Procs :
       lock[r] = p /\ lock'[r] # p =>
         \/ p \in lapsed'
         \/ hold[p] = "token" /\ hold'[p] = "done"]_vars

(* A holder that crashed, or whose release never reached Redis, cannot     *)
(* block its key for good: every stored token eventually goes away.        *)
LockEventuallyFreed ==
  \A r \in Resources, p \in Procs : lock[r] = p ~> lock[r] # p
=============================================================================
