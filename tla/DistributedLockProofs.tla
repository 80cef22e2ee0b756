------------------------ MODULE DistributedLockProofs ------------------------
(***************************************************************************)
(* The Redis lock of DistributedLock, for any number of calls and keys.    *)
(***************************************************************************)
EXTENDS DistributedLock, TLAPS

LEMMA InitLockInv == Init => LockInv
BY DEF Init, LockInit, LockInv, TypeOK, HoldStates, TokenIsStored

\* What one call of withLock, or one expiry, does to the invariant.
LEMMA CallKeepsLockInv ==
  ASSUME LockInv, NEW p \in Procs, Call(p), UNCHANGED wants
  PROVE  LockInv'
<1> USE NoProcAssumption DEF LockInv, TypeOK, HoldStates, TokenIsStored,
        Becomes, Stores
<1>1. CASE Acquire(p)       BY <1>1 DEF Acquire
<1>2. CASE Refuse(p)        BY <1>2 DEF Refuse
<1>3. CASE AcquireError(p)  BY <1>3 DEF AcquireError
<1>4. CASE Release(p)       BY <1>4 DEF Release, OwnKeyDeleted
<1>5. CASE ReleaseError(p)  BY <1>5 DEF ReleaseError, OwnKeyDeleted
<1>6. CASE ReturnBare(p)    BY <1>6 DEF ReturnBare
<1>7. CASE Crash(p)         BY <1>7 DEF Crash
<1>8. QED BY <1>1, <1>2, <1>3, <1>4, <1>5, <1>6, <1>7 DEF Call

LEMMA ExpireKeepsLockInv ==
  ASSUME LockInv, NEW r \in Resources, Expire(r), UNCHANGED wants
  PROVE  LockInv'
BY NoProcAssumption
   DEF LockInv, TypeOK, HoldStates, TokenIsStored, Expire, Stores

(* A call that believes it holds the lock does hold it until its TTL runs  *)
(* out, for any number of calls and keys.                                  *)
THEOREM LockInvariant == Spec => []LockInv
<1>1. Init => LockInv
  BY InitLockInv
<1>2. LockInv /\ [Next]_vars => LockInv'
  <2> SUFFICES ASSUME LockInv, [Next]_vars PROVE LockInv'
    OBVIOUS
  <2>1. CASE UNCHANGED vars
    BY <2>1 DEF vars, LockInv, TypeOK, TokenIsStored
  <2>2. CASE Next
    BY <2>2, CallKeepsLockInv, ExpireKeepsLockInv DEF Next
  <2>3. QED BY <2>1, <2>2
<1>3. QED BY <1>1, <1>2, PTL DEF Spec

(* Two calls run under one key only if one of them has outlived its TTL.   *)
THEOREM LockExcludes == Spec => []CoordinatedExclusion
<1>1. LockInv => CoordinatedExclusion
  BY DEF LockInv, TypeOK, TokenIsStored, CoordinatedExclusion
<1>2. QED BY <1>1, LockInvariant, PTL

(* RELEASE_SCRIPT deletes nothing but the caller's own token.              *)
THEOREM ReleaseIsOwn == Spec => OnlyOwnerOrTTLFrees
<1>1. LockInv /\ [Next]_vars =>
        [\A r \in Resources, p \in Procs :
           lock[r] = p /\ lock'[r] # p =>
             \/ p \in lapsed'
             \/ hold[p] = "token" /\ hold'[p] = "done"]_vars
  <2> SUFFICES ASSUME LockInv, Next,
                      NEW r \in Resources, NEW p \in Procs,
                      lock[r] = p, lock'[r] # p
               PROVE  \/ p \in lapsed'
                      \/ hold[p] = "token" /\ hold'[p] = "done"
    OBVIOUS
  <2> USE NoProcAssumption
          DEF LockInv, TypeOK, Becomes, Stores, OwnKeyDeleted
  <2>1. ASSUME NEW q \in Procs, Call(q)
        PROVE  hold[p] = "token" /\ hold'[p] = "done"
    BY <2>1 DEF Call, Acquire, Refuse, AcquireError, Release, ReleaseError,
                ReturnBare, Crash
  <2>2. ASSUME NEW s \in Resources, Expire(s)
        PROVE  p \in lapsed'
    BY <2>2 DEF Expire
  <2>3. QED BY <2>1, <2>2 DEF Next
<1>2. QED BY <1>1, LockInvariant, PTL DEF Spec, OnlyOwnerOrTTLFrees
=============================================================================
