----------------------------- MODULE Settlements -----------------------------
(***************************************************************************)
(* Recording a settlement: POST /groups/:id/settlements.                   *)
(*   settlement.controller.ts / settlement.service.ts  createSettlement    *)
(*   settlement.repository.ts  createSettlement, replaySettlement          *)
(* together with the Redis lock (module DistributedLock), the idempotency  *)
(* records and the group operations that run concurrently with it.         *)
(*                                                                         *)
(* An attempt is one execution of the handler; a client that retries makes *)
(* a new attempt with the same request.  Each await of the handler ends an *)
(* action, so that attempts interleave where the code lets them.           *)
(*                                                                         *)
(* The database is PostgreSQL at Read Committed.  The variables hold only  *)
(* committed data; what an open transaction has written follows from its   *)
(* pc: at "reclaim" it has deleted the expired record of its key, at       *)
(* "write" it has inserted its own record, at "commit" also its settlement *)
(* and activity event.  A statement on a key that another open transaction *)
(* has written waits for that transaction to end.                          *)
(***************************************************************************)
EXTENDS Idempotency, Naturals

CONSTANTS Attempts, Users, Keys, Groups,
          Requests,    \* the possible [user, key, group, payer, payee, amount]
          Owner,       \* the creator of each group
          NoAttempt    \* "no settlement", "no record", "no token"

ASSUME NoAttemptAssumption == NoAttempt \notin Attempts
ASSUME OwnerAssumption == Owner \in [Groups -> Users]
ASSUME RequestsAssumption ==
  Requests \subseteq [user : Users, key : Keys, group : Groups,
                     payer : Users, payee : Users, amount : Nat]

VARIABLES
  members,  \* database: members of each group, {} when the group is deleted
  record,   \* database: the idempotency record of each key
  book,     \* database: the settlements (with their activity events), each
            \* named by the attempt that created it
  lock, hold, lapsed,  \* Redis, and what withLock knows: see DistributedLock
  request,  \* what each attempt asks for
  pc,       \* how far its handler is
  seen,     \* the id that the handler read from an idempotency record
  status,   \* the outcome decided so far
  answer,   \* the settlement it returns with status "created"
  ended     \* ghost: settlements whose key has outlived its 24 hours

dbVars == <<members, record, book, ended>>
redisVars == <<lock, hold, lapsed>>
handlerVars == <<pc, seen, status, answer>>
vars == <<dbVars, redisVars, handlerVars, request>>

L == INSTANCE DistributedLock WITH
       Procs <- Attempts, Resources <- Groups, NoProc <- NoAttempt,
       wants <- [a \in Attempts |-> request[a].group]

Stages == {"new", "group", "members", "lock", "find", "drop", "claim",
           "reclaim", "write", "commit", "fallback", "replay", "release",
           "replied", "crashed"}

\* "none": not decided.  "created": 201.  The rest are error replies.
Statuses == {"none", "created", "not_found", "forbidden", "bad_request",
             "locked", "key_reused", "conflict", "invalid_state",
             "server_error"}

MaybeAttempt == Attempts \cup {NoAttempt}

\* A row copies the user and the body hash of the request that claimed it.
Rows == [claim : MaybeAttempt, completed : BOOLEAN,
         resource : MaybeAttempt, expired : BOOLEAN]

NoRow == [claim |-> NoAttempt, completed |-> FALSE,
          resource |-> NoAttempt, expired |-> FALSE]

TypeOK ==
  /\ members \in [Groups -> SUBSET Users]
  /\ record \in [Keys -> Rows]
  /\ book \in SUBSET Attempts
  /\ ended \in SUBSET MaybeAttempt
  /\ lock \in [Groups -> MaybeAttempt]
  /\ hold \in [Attempts -> L!HoldStates]
  /\ lapsed \in SUBSET Attempts
  /\ request \in [Attempts -> Requests]
  /\ pc \in [Attempts -> Stages]
  /\ seen \in [Attempts -> MaybeAttempt]
  /\ status \in [Attempts -> Statuses]
  /\ answer \in [Attempts -> MaybeAttempt]

Init ==
  /\ members \in [Groups -> SUBSET Users]
  /\ \A g \in Groups : Owner[g] \in members[g]
  /\ record = [k \in Keys |-> NoRow]
  /\ book = {}
  /\ ended = {}
  /\ L!LockInit
  /\ request \in [Attempts -> Requests]
  /\ pc = [a \in Attempts |-> "new"]
  /\ seen = [a \in Attempts |-> NoAttempt]
  /\ status = [a \in Attempts |-> "none"]
  /\ answer = [a \in Attempts |-> NoAttempt]

-----------------------------------------------------------------------------
(* What the handlers read *)

Group(a) == request[a].group
Key(a) == request[a].key
Exists(g) == members[g] # {}

\* Mutation of Hash: the amount is left out of the fingerprint.
HashWithoutAmount(r) == <<r.group, r.payer, r.payee>>

\* createRequestHash covers the group and the body, not the requester.
Hash(r) == <<r.group, r.payer, r.payee, r.amount>>

Context(a) == [user |-> request[a].user, hash |-> Hash(request[a])]

Stored(row) ==
  [user |-> request[row.claim].user, hash |-> Hash(request[row.claim]),
   completed |-> row.completed, resource |-> row.resource,
   expired |-> row.expired]

Reconciled(a) == Reconcile(Stored(record[Key(a)]), Context(a), NoAttempt)

\* One is a retry of the other.
Same(a, b) == request[a] = request[b]

\* Mutation of KeyLocked: the insert runs on another connection than the
\* delete, and so waits for its own transaction.
KeyLockedByAnyone(a) ==
  \E b \in Attempts :
    Key(b) = Key(a) /\ pc[b] \in {"reclaim", "write", "commit"}

\* Open transactions: another one has written the row of a's key.
KeyLocked(a) ==
  \E b \in Attempts \ {a} :
    Key(b) = Key(a) /\ pc[b] \in {"reclaim", "write", "commit"}

(* How a handler moves on *)

Goto(a, stage) == pc' = [pc EXCEPT ![a] = stage]
Decide(a, outcome) == status' = [status EXCEPT ![a] = outcome]

\* An error inside the locked section: any open transaction rolls back and
\* withLock's finally block runs next.
Fail(a, outcome) ==
  /\ Goto(a, "release")
  /\ Decide(a, outcome)
  /\ UNCHANGED <<seen, answer>>

\* An error before the locked section is answered at once.
Reject(a, outcome) ==
  /\ Goto(a, "replied")
  /\ Decide(a, outcome)
  /\ UNCHANGED <<seen, answer>>

Advance(a, stage) == Goto(a, stage) /\ UNCHANGED <<seen, status, answer>>
Remember(a, id, stage) ==
  /\ seen' = [seen EXCEPT ![a] = id]
  /\ Goto(a, stage)
  /\ UNCHANGED <<status, answer>>

-----------------------------------------------------------------------------
(* settlement.service.ts: validation, then the lock *)

Arrive(a) ==
  /\ pc[a] = "new"
  /\ Advance(a, "group")
  /\ UNCHANGED <<dbVars, redisVars, request>>

FindGroup(a) ==
  /\ pc[a] = "group"
  /\ IF Exists(Group(a)) THEN Advance(a, "members")
                         ELSE Reject(a, "not_found")
  /\ UNCHANGED <<dbVars, redisVars, request>>

Refusal(r, memberIds) ==
  IF r.user \notin memberIds                     THEN "forbidden"
  ELSE IF r.payer = r.payee                      THEN "bad_request"
  ELSE IF ~({r.payer, r.payee} \subseteq memberIds) THEN "forbidden"
  ELSE "none"

CheckMembers(a) ==
  LET refusal == Refusal(request[a], members[Group(a)])
  IN /\ pc[a] = "members"
     /\ IF refusal = "none" THEN Advance(a, "lock") ELSE Reject(a, refusal)
     /\ UNCHANGED <<dbVars, redisVars, request>>

\* With the lock, or without it when Redis failed, the operation starts.
EnterLock(a) ==
  /\ pc[a] = "lock"
  /\ L!Acquire(a) \/ L!AcquireError(a)
  /\ Advance(a, "find")
  /\ UNCHANGED <<dbVars, request>>

LockRefused(a) ==
  /\ pc[a] = "lock"
  /\ L!Refuse(a)
  /\ Reject(a, "locked")
  /\ UNCHANGED <<dbVars, request>>

-----------------------------------------------------------------------------
(* settlement.repository.ts: the transaction *)

FindRecord(a) ==
  /\ pc[a] = "find"
  /\ LET row == record[Key(a)]
     IN IF row.claim = NoAttempt THEN Advance(a, "claim")
        ELSE IF Reconciled(a) = "replay" THEN Remember(a, row.resource, "replay")
        ELSE IF Reconciled(a) = "reuse" THEN Remember(a, row.claim, "drop")
        ELSE Fail(a, Reconciled(a))
  /\ UNCHANGED <<dbVars, redisVars, request>>

\* Mutation of DropExpired: the row is deleted by its key, not by its id.
DropByKey(a) ==
  /\ pc[a] = "drop"
  /\ ~KeyLocked(a)
  /\ Advance(a, "reclaim")
  /\ UNCHANGED <<dbVars, redisVars, request>>

\* deleteMany by id: deletes nothing when the row has been replaced meanwhile.
DropExpired(a) ==
  /\ pc[a] = "drop"
  /\ ~KeyLocked(a)
  /\ Advance(a, IF record[Key(a)].claim = seen[a] THEN "reclaim" ELSE "claim")
  /\ UNCHANGED <<dbVars, redisVars, request>>

\* Mutation of Claim: the key column is not unique.
ClaimNotUnique(a) ==
  /\ pc[a] \in {"claim", "reclaim"}
  /\ Advance(a, "write")
  /\ UNCHANGED <<dbVars, redisVars, request>>

\* The insert of the unique key: P2002 aborts the transaction when a
\* committed row has the key and this transaction has not deleted it.
Claim(a) ==
  /\ pc[a] \in {"claim", "reclaim"}
  /\ ~KeyLocked(a)
  /\ Advance(a, IF pc[a] = "reclaim" \/ record[Key(a)].claim = NoAttempt
                THEN "write" ELSE "fallback")
  /\ UNCHANGED <<dbVars, redisVars, request>>

\* Mutation of Write: the settlement is created outside of the transaction.
WriteOutsideTransaction(a) ==
  /\ pc[a] = "write"
  /\ Exists(Group(a))
  /\ book' = book \cup {a}
  /\ Advance(a, "commit")
  /\ UNCHANGED <<members, record, ended, redisVars, request>>

\* The settlement, its activity event and the record's COMPLETED update.
\* The foreign key fails when the group is gone, and locks it otherwise.
Write(a) ==
  /\ pc[a] = "write"
  /\ IF Exists(Group(a)) THEN Advance(a, "commit")
                         ELSE Fail(a, "server_error")
  /\ UNCHANGED <<dbVars, redisVars, request>>

\* Mutations of CompletedRow: the status or the resource id is not updated.
PendingRow(a) ==
  [claim |-> a, completed |-> FALSE, resource |-> a, expired |-> FALSE]
RowWithoutResource(a) ==
  [claim |-> a, completed |-> TRUE, resource |-> NoAttempt, expired |-> FALSE]

CompletedRow(a) ==
  [claim |-> a, completed |-> TRUE, resource |-> a, expired |-> FALSE]

\* The commit, whose acknowledgement may be lost.
Commit(a) ==
  /\ pc[a] = "commit"
  /\ record' = [record EXCEPT ![Key(a)] = CompletedRow(a)]
  /\ book' = book \cup {a}
  /\ \/ Decide(a, "created") /\ answer' = [answer EXCEPT ![a] = a]
     \/ Decide(a, "server_error") /\ UNCHANGED answer
  /\ Goto(a, "release")
  /\ UNCHANGED <<members, ended, seen, redisVars, request>>

\* The catch branch of P2002, outside of the aborted transaction.
Fallback(a) ==
  /\ pc[a] = "fallback"
  /\ LET row == record[Key(a)]
     IN IF row.claim # NoAttempt /\ Reconciled(a) = "replay"
        THEN Remember(a, row.resource, "replay")
        ELSE Fail(a, IF row.claim = NoAttempt \/ Reconciled(a) = "reuse"
                     THEN "conflict" ELSE Reconciled(a))
  /\ UNCHANGED <<dbVars, redisVars, request>>

Replay(a) ==
  /\ pc[a] = "replay"
  /\ IF seen[a] \in book
     THEN /\ Goto(a, "release")
          /\ Decide(a, "created")
          /\ answer' = [answer EXCEPT ![a] = seen[a]]
          /\ UNCHANGED seen
     ELSE Fail(a, "invalid_state")
  /\ UNCHANGED <<dbVars, redisVars, request>>

-----------------------------------------------------------------------------
(* The end of withLock, errors and process death *)

Release(a) ==
  /\ pc[a] = "release"
  /\ L!Release(a) \/ L!ReleaseError(a) \/ L!ReturnBare(a)
  /\ Advance(a, "replied")
  /\ UNCHANGED <<dbVars, request>>

\* A statement fails, or Prisma's transaction timeout fires: 500.
DatabaseError(a) ==
  /\ \/ pc[a] \in {"group", "members"} /\ Reject(a, "server_error")
     \/ /\ pc[a] \in {"find", "drop", "claim", "reclaim", "write", "commit",
                      "fallback", "replay"}
        /\ Fail(a, "server_error")
  /\ UNCHANGED <<dbVars, redisVars, request>>

Crash(a) ==
  /\ pc[a] \notin {"new", "replied", "crashed"}
  /\ L!Crash(a)
  /\ Advance(a, "crashed")
  /\ UNCHANGED <<dbVars, request>>

-----------------------------------------------------------------------------
(* What else happens to the same data *)

AddMember(g, u) ==
  /\ Exists(g)
  /\ u \notin members[g]
  /\ members' = [members EXCEPT ![g] = @ \cup {u}]
  /\ UNCHANGED <<record, book, ended, redisVars, handlerVars, request>>

RemoveMember(g, u) ==
  /\ u \in members[g] \ {Owner[g]}
  /\ members' = [members EXCEPT ![g] = @ \ {u}]
  /\ UNCHANGED <<record, book, ended, redisVars, handlerVars, request>>

\* Cascades to the settlements; idempotency records are not tied to a group.
\* Waits for the transactions that hold a foreign-key lock on the group.
DeleteGroup(g) ==
  /\ Exists(g)
  /\ \A a \in Attempts : pc[a] = "commit" => Group(a) # g
  /\ members' = [members EXCEPT ![g] = {}]
  /\ book' = {s \in book : Group(s) # g}
  /\ UNCHANGED <<record, ended, redisVars, handlerVars, request>>

\* expiresAt passes: IDEMPOTENCY_RECORD_TTL_MS after the claim.
ExpireRecord(k) ==
  /\ record[k].claim # NoAttempt
  /\ ~record[k].expired
  /\ record' = [record EXCEPT ![k].expired = TRUE]
  /\ ended' = ended \cup {record[k].resource}
  /\ UNCHANGED <<members, book, redisVars, handlerVars, request>>

ExpireLock(g) ==
  /\ L!Expire(g)
  /\ UNCHANGED <<dbVars, handlerVars, request>>

-----------------------------------------------------------------------------
\* The steps of a running handler; what may also befall it.
Step(a) ==
  \/ FindGroup(a) \/ CheckMembers(a) \/ EnterLock(a) \/ LockRefused(a)
  \/ FindRecord(a) \/ DropExpired(a) \/ Claim(a) \/ Write(a) \/ Commit(a)
  \/ Fallback(a) \/ Replay(a) \/ Release(a)

Environment ==
  \/ \E g \in Groups, u \in Users : AddMember(g, u) \/ RemoveMember(g, u)
  \/ \E g \in Groups : DeleteGroup(g) \/ ExpireLock(g)
  \/ \E k \in Keys : ExpireRecord(k)

Next ==
  \/ \E a \in Attempts : Arrive(a) \/ Step(a) \/ DatabaseError(a) \/ Crash(a)
  \/ Environment

Spec == Init /\ [][Next]_vars

\* The event loop runs every pending continuation, the database answers every
\* statement or fails it.  Nothing is assumed of clients, crashes or time.
FairSpec == Spec /\ \A a \in Attempts : WF_vars(Step(a))

-----------------------------------------------------------------------------
(* Properties *)

\* Stages inside the section that withLock protects, and those with a row
\* lock on the idempotency key.
Protected == {"find", "drop", "claim", "reclaim", "write", "commit",
              "fallback", "replay", "release"}
Writing == {"reclaim", "write", "commit"}

(* The idempotency table promises one settlement per key and lifetime: two *)
(* settlements recorded under one key mean that the 24 hours of one of     *)
(* them are over, however attempts, retries, expiry and lock outages       *)
(* interleave with the statements of createSettlement.                     *)
AtMostOncePerKeyLife ==
  \A s, t \in book : s # t /\ Key(s) = Key(t) => s \in ended \/ t \in ended

(* A 201 names a settlement recorded for this very request (same user,     *)
(* key, group and body), by this attempt or by an earlier one, and that    *)
(* settlement is there as long as its group is: no answer from a rolled    *)
(* back transaction, none for another request with the same key.           *)
CreatedMeansRecorded ==
  \A a \in Attempts : status[a] = "created" =>
    /\ answer[a] \in Attempts
    /\ Same(answer[a], a)
    /\ answer[a] \in book \/ ~Exists(Group(a))

(* Whoever is refused recorded nothing, and neither did a replay: only a   *)
(* 500 or a lost answer leaves the client in doubt, and then a retry with  *)
(* the same key is the way to find out (README "Failed operation").        *)
RefusedRecordsNothing ==
  \A a \in book :
    /\ pc[a] \in {"release", "replied", "crashed"}
    /\ \/ status[a] = "created" /\ answer[a] = a
       \/ status[a] = "server_error"

(* Every committed row is COMPLETED and points at a settlement of its own  *)
(* key that exists, or went with its group; a live settlement is always    *)
(* the one its key replays.                                                *)
RecordsMatchBook ==
  /\ \A k \in Keys : LET row == record[k] IN
       row.claim # NoAttempt =>
         /\ row.completed
         /\ row.resource = row.claim
         /\ Key(row.claim) = k
         /\ row.claim \in book \/ ~Exists(Group(row.claim))
         /\ row.claim \in ended <=> row.expired
  /\ \A s \in book \ ended : record[Key(s)].claim = s

(* The Redis lock serialises the settlements of a group: two handlers are  *)
(* inside the protected section together only if one of them runs without  *)
(* a token (Redis failed) or has outlived its TTL.                         *)
GroupSerialised ==
  \A a, b \in Attempts :
    /\ a # b /\ Group(a) = Group(b)
    /\ pc[a] \in Protected /\ pc[b] \in Protected
    => \/ {a, b} \cap lapsed # {}
       \/ hold[a] = "bare" \/ hold[b] = "bare"

\* The invariant behind GroupSerialised.
HoldFollowsPc ==
  \A a \in Attempts :
    /\ pc[a] \in {"new", "group", "members", "lock"} => hold[a] = "idle"
    /\ pc[a] \in Protected => hold[a] \in {"token", "bare"}

TokenIsStored ==
  \A a \in Attempts :
    hold[a] = "token" => a \in lapsed \/ lock[Group(a)] = a

(* "A request with this key is already being processed" is never the       *)
(* answer to the loser of a race for a live key: the winner it waited for  *)
(* has committed, so the loser replays it.  The 409 takes a record that    *)
(* expired in between.                                                     *)
ConflictOnlyAfterExpiry ==
  [][\A a \in Attempts :
       status[a] = "none" /\ status'[a] = "conflict"
         => record[Key(a)].expired]_vars

(* The inductive invariant of this specification, checked by TLC and       *)
(* proved in SettlementsProofs.  Beside RecordsMatchBook and               *)
(* RefusedRecordsNothing it says what an open transaction may rely on: row *)
(* locks keep the writers of one key apart, an attempt writes only while   *)
(* the key is free or expired, and ids read earlier still mean the same.   *)
Finished == {"release", "replied", "crashed"}

UndecidedUntilFinished ==
  \A a \in Attempts :
    /\ pc[a] \notin Finished => status[a] = "none"
    /\ status[a] # "created" => answer[a] = NoAttempt

RowsBelongToFinished ==
  /\ \A k \in Keys : LET row == record[k] IN
       /\ row.claim = NoAttempt => row = NoRow
       /\ row.claim # NoAttempt => pc[row.claim] \in Finished
  /\ \A s \in ended : s \in Attempts /\ pc[s] \in Finished

OneWriterPerKey ==
  \A a \in Attempts : pc[a] \in Writing =>
    /\ ~KeyLocked(a)
    /\ record[Key(a)].claim = NoAttempt \/ record[Key(a)].expired

\* CANNOT_REMOVE_OWNER keeps a group from losing its last member.
OwnerIsMember == \A g \in Groups : Exists(g) => Owner[g] \in members[g]

WriterHoldsGroup ==
  \A a \in Attempts : pc[a] = "commit" => Exists(Group(a))

SeenStaysTrue ==
  \A a \in Attempts :
    /\ pc[a] = "replay" => seen[a] \in Attempts /\ Same(seen[a], a)
    /\ pc[a] = "drop" =>
         /\ seen[a] \in Attempts
         /\ pc[seen[a]] \in Finished
         /\ record[Key(a)].claim = seen[a] => record[Key(a)].expired
    /\ pc[a] = "fallback" => record[Key(a)].claim # NoAttempt

IInv ==
  /\ TypeOK
  /\ UndecidedUntilFinished
  /\ RowsBelongToFinished
  /\ RecordsMatchBook
  /\ RefusedRecordsNothing
  /\ CreatedMeansRecorded
  /\ OneWriterPerKey
  /\ OwnerIsMember
  /\ WriterHoldsGroup
  /\ SeenStaysTrue

(* Every request gets an answer unless its process dies: nobody waits for  *)
(* ever for a row lock, for the Redis lock or for another transaction.     *)
EveryAttemptAnswered ==
  \A a \in Attempts : pc[a] = "group" ~> pc[a] \in {"replied", "crashed"}

-----------------------------------------------------------------------------
(* What all of this implements: a ledger that applies each keyed request   *)
(* at most once per key lifetime (module IdempotentLedger).                *)
Ledger == INSTANCE IdempotentLedger WITH
  current <- [k \in Keys |-> IF record[k].expired THEN NoAttempt
                                                  ELSE record[k].resource],
  ledger <- book,
  groups <- {g \in Groups : Exists(g)}

ImplementsLedger == Ledger!Spec
=============================================================================
