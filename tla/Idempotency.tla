----------------------------- MODULE Idempotency -----------------------------
(***************************************************************************)
(* The decision of backend/src/modules/idempotency/reconcile.ts: what a    *)
(* stored idempotency record means for a request that carries its key.     *)
(*                                                                         *)
(* A record is [user, hash, completed, resource, expired], a context is    *)
(* [user, hash].  The hash is the hashed body itself: SHA-256 is taken to  *)
(* be free of collisions.  The order of the tests is the code's: a foreign *)
(* user is refused even when the record has expired, a different body only *)
(* while it is live.                                                       *)
(***************************************************************************)

\* "replay"        return the recorded settlement
\* "reuse"         the record expired, the key starts a new life
\* "key_reused"    409 IDEMPOTENCY_KEY_REUSED
\* "invalid_state" 409 IDEMPOTENCY_INVALID_STATE
\* "conflict"      409 IDEMPOTENCY_CONFLICT
Reconcile(record, context, noResource) ==
  IF record.user # context.user           THEN "key_reused"
  ELSE IF record.expired                  THEN "reuse"
  ELSE IF record.hash # context.hash      THEN "key_reused"
  ELSE IF ~record.completed               THEN "conflict"
  ELSE IF record.resource = noResource    THEN "invalid_state"
  ELSE "replay"
=============================================================================
