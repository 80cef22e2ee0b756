-------------------------- MODULE SettlementsProofs --------------------------
(***************************************************************************)
(* Settlement creation, for any attempts, requests, users, keys and        *)
(* groups: the inductive invariant IInv of Settlements and what follows.   *)
(***************************************************************************)
EXTENDS Settlements, TLAPS

-----------------------------------------------------------------------------
(* Typing *)

LEMMA RequestType ==
  ASSUME TypeOK, NEW a \in Attempts
  PROVE  Key(a) \in Keys /\ Group(a) \in Groups
BY RequestsAssumption DEF TypeOK, Key, Group

LEMMA InitType == Init => TypeOK
BY DEF Init, TypeOK, L!LockInit, Rows, NoRow, MaybeAttempt, Stages, Statuses,
       L!HoldStates

LEMMA ReconcileType ==
  ASSUME NEW row, NEW context, NEW none
  PROVE  Reconcile(row, context, none) \in
           {"key_reused", "reuse", "conflict", "invalid_state", "replay"}
BY DEF Reconcile

LEMMA AttemptKeepsType ==
  ASSUME TypeOK, NEW a \in Attempts,
         Arrive(a) \/ Step(a) \/ DatabaseError(a) \/ Crash(a)
  PROVE  TypeOK'
<1> USE DEF TypeOK, Goto, Decide, Fail, Reject, Advance, Remember, Stages,
            Statuses, MaybeAttempt, dbVars, redisVars
<1>0. Key(a) \in Keys /\ Group(a) \in Groups
  BY RequestType
<1>1. CASE Arrive(a)        BY <1>1 DEF Arrive
<1>2. CASE FindGroup(a)     BY <1>2 DEF FindGroup
<1>3. CASE CheckMembers(a)  BY <1>3 DEF CheckMembers, Refusal
<1>4. CASE EnterLock(a)
  <2>1. /\ UNCHANGED lock \/ lock' = [lock EXCEPT ![Group(a)] = a]
        /\ \/ hold' = [hold EXCEPT ![a] = "token"]
           \/ hold' = [hold EXCEPT ![a] = "bare"]
        /\ UNCHANGED lapsed
    BY <1>4 DEF EnterLock, L!Acquire, L!AcquireError, L!Becomes, L!Stores,
                Group
  <2>2. lock' \in [Groups -> MaybeAttempt]
    BY <1>0, <2>1
  <2>3. hold' \in [Attempts -> L!HoldStates]
    BY <2>1 DEF L!HoldStates
  <2>4. QED BY <1>4, <2>1, <2>2, <2>3 DEF EnterLock
<1>5. CASE LockRefused(a)
  BY <1>5 DEF LockRefused, L!Refuse, L!Becomes, L!HoldStates
<1>6. CASE FindRecord(a)
  <2>1. record[Key(a)].claim \in MaybeAttempt
        /\ record[Key(a)].resource \in MaybeAttempt
    BY <1>0 DEF Rows
  <2>2. Reconciled(a) \in {"key_reused", "reuse", "conflict",
                           "invalid_state", "replay"}
    BY ReconcileType DEF Reconciled
  <2>3. QED BY <1>6, <2>1, <2>2 DEF FindRecord
<1>7. CASE DropExpired(a)   BY <1>7 DEF DropExpired
<1>8. CASE Claim(a)         BY <1>8 DEF Claim
<1>9. CASE Write(a)         BY <1>9 DEF Write
<1>10. CASE Commit(a)
  <2>1. CompletedRow(a) \in Rows
    BY DEF CompletedRow, Rows
  <2>2. record' \in [Keys -> Rows]
    BY <1>0, <1>10, <2>1 DEF Commit
  <2>3. QED BY <1>10, <2>2 DEF Commit
<1>11. CASE Fallback(a)
  <2>1. record[Key(a)].resource \in MaybeAttempt
    BY <1>0 DEF Rows
  <2>2. Reconciled(a) \in {"key_reused", "reuse", "conflict",
                           "invalid_state", "replay"}
    BY ReconcileType DEF Reconciled
  <2>3. QED BY <1>11, <2>1, <2>2 DEF Fallback
<1>12. CASE Replay(a)       BY <1>12 DEF Replay
<1>13. CASE Release(a)
  <2>1. /\ UNCHANGED lock \/ L!OwnKeyDeleted(a)
        /\ hold' = [hold EXCEPT ![a] = "done"]
        /\ UNCHANGED lapsed
    BY <1>13 DEF Release, L!Release, L!ReleaseError, L!ReturnBare, L!Becomes
  <2>2. lock' \in [Groups -> MaybeAttempt]
    BY <2>1 DEF L!OwnKeyDeleted
  <2>3. hold' \in [Attempts -> L!HoldStates]
    BY <2>1 DEF L!HoldStates
  <2>4. QED BY <1>13, <2>1, <2>2, <2>3 DEF Release
<1>14. CASE DatabaseError(a) BY <1>14 DEF DatabaseError
<1>15. CASE Crash(a)
  BY <1>15 DEF Crash, L!Crash, L!Becomes, L!HoldStates
<1>16. QED
  BY <1>1, <1>2, <1>3, <1>4, <1>5, <1>6, <1>7, <1>8, <1>9, <1>10, <1>11,
     <1>12, <1>13, <1>14, <1>15 DEF Step

LEMMA EnvironmentKeepsType ==
  ASSUME TypeOK, Environment
  PROVE  TypeOK'
<1> USE DEF TypeOK, MaybeAttempt, redisVars, handlerVars, dbVars
<1>1. ASSUME NEW g \in Groups, NEW u \in Users,
             AddMember(g, u) \/ RemoveMember(g, u)
      PROVE  TypeOK'
  BY <1>1 DEF AddMember, RemoveMember
<1>2. ASSUME NEW g \in Groups, DeleteGroup(g)
      PROVE  TypeOK'
  BY <1>2 DEF DeleteGroup
<1>3. ASSUME NEW g \in Groups, ExpireLock(g)
      PROVE  TypeOK'
  BY <1>3 DEF ExpireLock, L!Expire, L!Stores
<1>4. ASSUME NEW k \in Keys, ExpireRecord(k)
      PROVE  TypeOK'
  <2>1. [record[k] EXCEPT !.expired = TRUE] \in Rows
        /\ record[k].resource \in MaybeAttempt
    BY DEF Rows
  <2>2. record' = [record EXCEPT ![k] = [record[k] EXCEPT !.expired = TRUE]]
    BY <1>4 DEF ExpireRecord
  <2>3. record' \in [Keys -> Rows]
    BY <2>1, <2>2
  <2>4. QED BY <1>4, <2>1, <2>3 DEF ExpireRecord
<1>5. QED BY <1>1, <1>2, <1>3, <1>4 DEF Environment

(* Every variable keeps its type, whatever the handlers, the database,     *)
(* Redis and the clock do.                                                 *)
THEOREM TypeCorrect == Spec => []TypeOK
<1>1. TypeOK /\ [Next]_vars => TypeOK'
  <2> SUFFICES ASSUME TypeOK, [Next]_vars PROVE TypeOK'
    OBVIOUS
  <2>1. CASE UNCHANGED vars
    BY <2>1 DEF vars, dbVars, redisVars, handlerVars, TypeOK
  <2>2. CASE Next
    BY <2>2, AttemptKeepsType, EnvironmentKeepsType DEF Next
  <2>3. QED BY <2>1, <2>2
<1>2. QED BY <1>1, InitType, PTL DEF Spec

-----------------------------------------------------------------------------
(* The inductive invariant *)

LEMMA InitIInv == Init => IInv
<1> SUFFICES ASSUME Init PROVE IInv
  OBVIOUS
<1>1. TypeOK
  BY InitType
<1>2. QED
  BY <1>1 DEF Init, IInv, UndecidedUntilFinished, RowsBelongToFinished,
     RecordsMatchBook, RefusedRecordsNothing, CreatedMeansRecorded,
     OneWriterPerKey, OwnerIsMember, WriterHoldsGroup, SeenStaysTrue, NoRow,
     Writing, Finished

\* A handler whose step neither touches the database nor relies on it: it
\* moves on, or it stops with an error.
LEMMA QuietStep ==
  ASSUME IInv, TypeOK', NEW a \in Attempts, NEW stage,
         UNCHANGED <<members, record, book, ended, request, seen, answer>>,
         Goto(a, stage),
         stage \notin Writing \cup {"replay", "drop"},
         stage = "fallback" => record[Key(a)].claim # NoAttempt,
         pc[a] \in Finished => stage \in Finished,
         \/ UNCHANGED status
         \/ /\ pc[a] \notin Finished
            /\ stage \in Finished
            /\ \E why \in Statuses \ {"created"} : Decide(a, why)
  PROVE  IInv'
<1> USE DEF IInv, TypeOK, Goto
<1>1. UndecidedUntilFinished'
  BY DEF UndecidedUntilFinished, Decide
<1>2. RowsBelongToFinished'
  BY DEF RowsBelongToFinished, Rows, MaybeAttempt
<1>3. RecordsMatchBook'
  BY DEF RecordsMatchBook, Key, Group, Exists
<1>4. RefusedRecordsNothing'
  BY DEF RefusedRecordsNothing, Finished, Decide
<1>5. CreatedMeansRecorded'
  BY DEF CreatedMeansRecorded, Decide, Same, Key, Group, Exists
<1>6. OneWriterPerKey'
  BY DEF OneWriterPerKey, KeyLocked, Writing, Key
<1>7. WriterHoldsGroup'
  BY DEF WriterHoldsGroup, Writing, Group, Exists
<1>8. SeenStaysTrue'
  BY DEF SeenStaysTrue, Same, Key
<1>9. OwnerIsMember'
  BY DEF OwnerIsMember, Exists
<1>10. QED
  BY <1>1, <1>2, <1>3, <1>4, <1>5, <1>6, <1>7, <1>8, <1>9

\* What a handler learns from the record of its key.
LEMMA ReconciledMeans ==
  ASSUME IInv, NEW a \in Attempts, record[Key(a)].claim # NoAttempt
  PROVE  /\ record[Key(a)].claim \in Attempts
         /\ pc[record[Key(a)].claim] \in Finished
         /\ Reconciled(a) = "replay" =>
              /\ record[Key(a)].resource \in Attempts
              /\ Same(record[Key(a)].resource, a)
         /\ Reconciled(a) = "reuse" => record[Key(a)].expired
         /\ Reconciled(a) \in {"key_reused", "reuse", "conflict",
                               "invalid_state", "replay"}
<1> DEFINE row == record[Key(a)]
<1>1. Key(a) \in Keys
  BY RequestType DEF IInv
<1>2. row \in Rows
  BY <1>1 DEF IInv, TypeOK
<1>3. row.claim \in Attempts
  BY <1>2 DEF Rows, MaybeAttempt
<1>4. pc[row.claim] \in Finished
  BY <1>1 DEF IInv, RowsBelongToFinished
<1>5. row.resource = row.claim /\ Key(row.claim) = Key(a)
  BY <1>1 DEF IInv, RecordsMatchBook
<1>6. Reconciled(a) = "replay" =>
        /\ request[row.claim].user = request[a].user
        /\ Hash(request[row.claim]) = Hash(request[a])
  BY DEF Reconciled, Reconcile, Stored, Context
<1>7. Reconciled(a) = "replay" => Same(row.resource, a)
  <2>1. request[a] \in Requests /\ request[row.claim] \in Requests
    BY <1>3 DEF IInv, TypeOK
  <2>2. Reconciled(a) = "replay" =>
          /\ request[row.claim].user = request[a].user
          /\ request[row.claim].key = request[a].key
          /\ request[row.claim].group = request[a].group
          /\ request[row.claim].payer = request[a].payer
          /\ request[row.claim].payee = request[a].payee
          /\ request[row.claim].amount = request[a].amount
    BY <1>5, <1>6 DEF Hash, Key
  <2>3. QED BY <1>5, <2>1, <2>2, RequestsAssumption DEF Same
<1>8. Reconciled(a) = "reuse" => row.expired
  BY DEF Reconciled, Reconcile, Stored
<1>9. QED
  BY <1>3, <1>4, <1>5, <1>7, <1>8, ReconcileType DEF Reconciled

\* A handler that keeps the id it found, or gets a row lock, or has written
\* its settlement; the database still shows nothing of it.
LEMMA HiddenStep ==
  ASSUME IInv, TypeOK', NEW a \in Attempts,
         NEW stage \in {"replay", "drop", "reclaim", "write", "commit"},
         pc[a] \notin Finished,
         UNCHANGED <<members, record, book, ended, request, status, answer>>,
         Goto(a, stage),
         \A b \in Attempts \ {a} : seen'[b] = seen[b],
         stage = "replay" => seen'[a] \in Attempts /\ Same(seen'[a], a),
         stage = "drop" => /\ seen'[a] \in Attempts
                           /\ pc[seen'[a]] \in Finished
                           /\ record[Key(a)].expired,
         stage \in Writing =>
           /\ ~KeyLocked(a)
           /\ record[Key(a)].claim = NoAttempt \/ record[Key(a)].expired,
         stage = "commit" => Exists(Group(a))
  PROVE  IInv'
<1> USE DEF IInv, TypeOK, Goto
<1>1. UndecidedUntilFinished'
  BY DEF UndecidedUntilFinished
<1>2. RowsBelongToFinished'
  BY DEF RowsBelongToFinished, Rows, MaybeAttempt
<1>3. RecordsMatchBook'
  BY DEF RecordsMatchBook, Key, Group, Exists
<1>4. RefusedRecordsNothing'
  BY DEF RefusedRecordsNothing, Finished
<1>5. CreatedMeansRecorded'
  BY DEF CreatedMeansRecorded, Same, Key, Group, Exists
<1>6. OneWriterPerKey'
  BY DEF OneWriterPerKey, KeyLocked, Writing, Key
<1>7. WriterHoldsGroup'
  BY DEF WriterHoldsGroup, Group, Exists
<1>8. SeenStaysTrue'
  <2>1. \A b, c \in Attempts : Same(b, c)' <=> Same(b, c)
    BY DEF Same, Key
  <2>2. \A b \in Attempts : Key(b)' = Key(b)
    BY DEF Key
  <2>3. \A b \in Attempts : pc[b] \in Finished => pc'[b] \in Finished
    OBVIOUS
  <2>4. ASSUME NEW b \in Attempts, pc'[b] = "replay"
        PROVE  seen'[b] \in Attempts /\ Same(seen'[b], b)
    BY <2>4 DEF SeenStaysTrue
  <2>5. ASSUME NEW b \in Attempts, pc'[b] = "drop"
        PROVE  /\ seen'[b] \in Attempts
               /\ pc'[seen'[b]] \in Finished
               /\ record[Key(b)].claim = seen'[b] => record[Key(b)].expired
    BY <2>3, <2>5 DEF SeenStaysTrue
  <2>6. QED
    BY <2>1, <2>2, <2>4, <2>5 DEF SeenStaysTrue
<1>9. OwnerIsMember'
  BY DEF OwnerIsMember, Exists
<1>10. QED
  BY <1>1, <1>2, <1>3, <1>4, <1>5, <1>6, <1>7, <1>8, <1>9

LEMMA CommitKeepsIInv ==
  ASSUME IInv, TypeOK', NEW a \in Attempts, Commit(a)
  PROVE  IInv'
<1> USE DEF IInv, TypeOK
<1>1. /\ pc[a] = "commit" /\ a \notin book /\ status[a] = "none"
      /\ pc' = [pc EXCEPT ![a] = "release"]
      /\ record' = [record EXCEPT ![Key(a)] = CompletedRow(a)]
      /\ book' = book \cup {a}
      /\ UNCHANGED <<members, ended, seen, request>>
      /\ Key(a) \in Keys
  BY RequestType DEF Commit, Goto, RefusedRecordsNothing,
                     UndecidedUntilFinished, Finished
<1>2. \/ status'[a] = "created" /\ answer'[a] = a
      \/ status'[a] = "server_error" /\ answer'[a] = NoAttempt
  BY <1>1 DEF Commit, Decide, UndecidedUntilFinished
<1>3. \A b \in Attempts \ {a} : status'[b] = status[b] /\ answer'[b] = answer[b]
  BY DEF Commit, Decide
<1>4. a \notin ended /\ \A k \in Keys : record[k].claim # a
  BY <1>1, NoAttemptAssumption DEF RowsBelongToFinished, Finished
<1>5. record[Key(a)].claim = NoAttempt \/ record[Key(a)].expired
  BY <1>1 DEF OneWriterPerKey, Writing
<1>6. \A b \in Attempts : pc[b] \in Finished => pc'[b] \in Finished
  BY <1>1 DEF Finished
<1>7. UndecidedUntilFinished'
  BY <1>1, <1>2, <1>3 DEF UndecidedUntilFinished, Finished
<1>8. RowsBelongToFinished'
  BY <1>1, <1>6, NoAttemptAssumption
     DEF RowsBelongToFinished, CompletedRow, Finished, Rows, MaybeAttempt
<1>9. RecordsMatchBook'
  <2>1. Exists(Group(a)) /\ \A g \in Groups : Exists(g)' <=> Exists(g)
    BY <1>1 DEF WriterHoldsGroup, Exists
  <2>2. \A b \in Attempts : Key(b)' = Key(b) /\ Group(b)' = Group(b)
    BY <1>1 DEF Key, Group
  <2>3. ASSUME NEW k \in Keys, record'[k].claim # NoAttempt
        PROVE  /\ record'[k].completed
               /\ record'[k].resource = record'[k].claim
               /\ Key(record'[k].claim) = k
               /\ \/ record'[k].claim \in book'
                  \/ ~Exists(Group(record'[k].claim))
               /\ record'[k].claim \in ended <=> record'[k].expired
    <3>1. CASE k = Key(a)
      BY <1>1, <1>4, <3>1 DEF CompletedRow
    <3>2. CASE k # Key(a)
      BY <1>1, <2>3, <3>2 DEF RecordsMatchBook
    <3>3. QED BY <3>1, <3>2
  <2>4. ASSUME NEW s \in book' \ ended
        PROVE  record'[Key(s)].claim = s
    <3>1. CASE s = a
      BY <1>1, <3>1 DEF CompletedRow
    <3>2. CASE s # a
      <4>1. s \in book \ ended /\ record[Key(s)].claim = s /\ s \in Attempts
        BY <1>1, <2>4, <3>2 DEF RecordsMatchBook
      <4>2. Key(s) \in Keys /\ s # NoAttempt
        BY <4>1, RequestType, NoAttemptAssumption
      <4>3. ~record[Key(s)].expired
        BY <4>1, <4>2 DEF RecordsMatchBook
      <4>4. Key(s) # Key(a)
        BY <1>5, <4>1, <4>2, <4>3
      <4>5. QED BY <1>1, <4>1, <4>2, <4>4
    <3>3. QED BY <3>1, <3>2
  <2>5. \A k \in Keys : record'[k].claim \in MaybeAttempt
    BY DEF Rows
  <2>6. ASSUME NEW k \in Keys, (record[k].claim # NoAttempt)'
        PROVE  (/\ record[k].completed
                /\ record[k].resource = record[k].claim
                /\ Key(record[k].claim) = k
                /\ record[k].claim \in book \/ ~Exists(Group(record[k].claim))
                /\ record[k].claim \in ended <=> record[k].expired)'
    <3>1. record'[k].claim \in Attempts
      BY <2>5, <2>6 DEF MaybeAttempt
    <3>2. (Key(record[k].claim) = k)'
      BY <1>1, <2>3, <2>6, <3>1 DEF Key
    <3>3. (~Exists(Group(record[k].claim)))'
            <=> ~Exists(Group(record'[k].claim))
      BY <1>1, <3>1 DEF Exists, Group
    <3>4. QED BY <1>1, <2>3, <2>6, <3>2, <3>3
  <2>7. (\A s \in book \ ended : record[Key(s)].claim = s)'
    BY <1>1, <2>2, <2>4
  <2>8. QED
    BY <2>6, <2>7 DEF RecordsMatchBook
<1>10. RefusedRecordsNothing'
  BY <1>1, <1>2, <1>3, <1>6 DEF RefusedRecordsNothing, Finished
<1>11. CreatedMeansRecorded'
  <2>1. \A b, c \in Attempts : Same(b, c)' <=> Same(b, c)
    BY <1>1 DEF Same, Key
  <2>2. Same(a, a)
    BY DEF Same
  <2>3. QED
    BY <1>1, <1>2, <1>3, <2>1, <2>2 DEF CreatedMeansRecorded, Exists, Group
<1>12. OneWriterPerKey'
  <2>1. ASSUME NEW b \in Attempts, pc'[b] \in Writing
        PROVE  ~KeyLocked(b)' /\ record'[Key(b)] = record[Key(b)]
               /\ pc[b] \in Writing
    <3>1. b # a /\ pc[b] \in Writing
      BY <1>1, <2>1 DEF Writing
    <3>2. Key(b) # Key(a)
      BY <1>1, <3>1 DEF OneWriterPerKey, KeyLocked
    <3>3. ~KeyLocked(b)
      BY <3>1 DEF OneWriterPerKey
    <3>4. QED
      BY <1>1, <3>1, <3>2, <3>3, RequestType DEF KeyLocked, Key
  <2>2. QED
    BY <1>1, <2>1 DEF OneWriterPerKey, Key
<1>13. WriterHoldsGroup'
  BY <1>1 DEF WriterHoldsGroup, Group, Exists
<1>14. SeenStaysTrue'
  <2>1. \A b, c \in Attempts : Same(b, c)' <=> Same(b, c)
    BY <1>1 DEF Same, Key
  <2>2. ASSUME NEW b \in Attempts, pc'[b] = "drop"
        PROVE  /\ pc[b] = "drop"
               /\ pc'[seen[b]] \in Finished
               /\ record'[Key(b)].claim = seen[b] => record'[Key(b)].expired
    <3>1. pc[b] = "drop" /\ b # a /\ seen[b] \in Attempts
          /\ pc[seen[b]] \in Finished
      BY <1>1, <2>2 DEF SeenStaysTrue
    <3>2. seen[b] # a
      BY <1>1, <3>1 DEF Finished
    <3>3. QED
      BY <1>1, <1>6, <3>1, <3>2, RequestType DEF SeenStaysTrue, CompletedRow
  <2>3. ASSUME NEW b \in Attempts, pc'[b] = "fallback"
        PROVE  record'[Key(b)].claim # NoAttempt
    <3>1. record[Key(b)].claim # NoAttempt /\ Key(b) \in Keys
      BY <1>1, <2>3, RequestType DEF SeenStaysTrue
    <3>2. QED
      BY <1>1, <3>1, NoAttemptAssumption DEF CompletedRow
  <2>4. QED
    BY <1>1, <2>1, <2>2, <2>3 DEF SeenStaysTrue, Key
<1>15. OwnerIsMember'
  BY <1>1 DEF OwnerIsMember, Exists
<1>16. QED
  BY <1>7, <1>8, <1>9, <1>10, <1>11, <1>12, <1>13, <1>14, <1>15

\* The answer of a replay is the settlement found in the book.
LEMMA ReplayKeepsIInv ==
  ASSUME IInv, TypeOK', NEW a \in Attempts, Replay(a), seen[a] \in book
  PROVE  IInv'
<1> USE DEF IInv, TypeOK
<1>1. /\ pc[a] = "replay" /\ a \notin book
      /\ seen[a] \in Attempts /\ Same(seen[a], a)
      /\ pc' = [pc EXCEPT ![a] = "release"]
      /\ status' = [status EXCEPT ![a] = "created"]
      /\ answer' = [answer EXCEPT ![a] = seen[a]]
      /\ UNCHANGED <<members, record, book, ended, seen, request>>
  BY DEF Replay, Goto, Decide, dbVars, RefusedRecordsNothing, SeenStaysTrue,
         Finished
<1>2. UndecidedUntilFinished'
  BY <1>1 DEF UndecidedUntilFinished, Finished
<1>3. RowsBelongToFinished'
  BY <1>1 DEF RowsBelongToFinished, Rows, MaybeAttempt, Finished
<1>4. RecordsMatchBook'
  BY <1>1 DEF RecordsMatchBook, Key, Group, Exists
<1>5. RefusedRecordsNothing'
  BY <1>1 DEF RefusedRecordsNothing, Finished
<1>6. CreatedMeansRecorded'
  BY <1>1 DEF CreatedMeansRecorded, Same, Key, Group, Exists
<1>7. OneWriterPerKey'
  BY <1>1 DEF OneWriterPerKey, KeyLocked, Writing, Key
<1>8. WriterHoldsGroup'
  BY <1>1 DEF WriterHoldsGroup, Group, Exists
<1>9. SeenStaysTrue'
  BY <1>1 DEF SeenStaysTrue, Same, Key, Finished
<1>10. OwnerIsMember'
  BY <1>1 DEF OwnerIsMember, Exists
<1>11. QED
  BY <1>2, <1>3, <1>4, <1>5, <1>6, <1>7, <1>8, <1>9, <1>10

\* One step of one attempt.
LEMMA AttemptKeepsIInv ==
  ASSUME IInv, NEW a \in Attempts,
         Arrive(a) \/ Step(a) \/ DatabaseError(a) \/ Crash(a)
  PROVE  IInv'
<1>0. TypeOK /\ TypeOK'
  BY AttemptKeepsType DEF IInv
<1> USE <1>0 DEF Advance, Fail, Reject, Remember, dbVars, Writing, Finished
<1>1. CASE Arrive(a)
  BY <1>1, QuietStep DEF Arrive
<1>2. CASE FindGroup(a)
  BY <1>2, QuietStep DEF FindGroup, Statuses
<1>3. CASE CheckMembers(a)
  BY <1>3, QuietStep DEF CheckMembers, Refusal, Statuses
<1>4. CASE EnterLock(a)
  BY <1>4, QuietStep DEF EnterLock
<1>5. CASE LockRefused(a)
  BY <1>5, QuietStep DEF LockRefused, Statuses
<1>6. CASE FindRecord(a)
  <2>1. CASE record[Key(a)].claim = NoAttempt
    BY <1>6, <2>1, QuietStep DEF FindRecord
  <2>2. CASE record[Key(a)].claim # NoAttempt
    <3>1. CASE Reconciled(a) \in {"replay", "reuse"}
      BY <1>6, <2>2, <3>1, ReconciledMeans, HiddenStep
         DEF FindRecord, TypeOK
    <3>2. CASE Reconciled(a) \notin {"replay", "reuse"}
      BY <1>6, <2>2, <3>2, ReconciledMeans, QuietStep DEF FindRecord, Statuses
    <3>3. QED BY <3>1, <3>2
  <2>3. QED BY <2>1, <2>2
<1>7. CASE DropExpired(a)
  <2>1. CASE record[Key(a)].claim = seen[a]
    <3>1. record[Key(a)].expired
      BY <1>7, <2>1 DEF DropExpired, IInv, SeenStaysTrue
    <3>2. QED BY <1>7, <2>1, <3>1, HiddenStep DEF DropExpired
  <2>2. CASE record[Key(a)].claim # seen[a]
    BY <1>7, <2>2, QuietStep DEF DropExpired
  <2>3. QED BY <2>1, <2>2
<1>8. CASE Claim(a)
  <2>1. CASE pc[a] = "reclaim" \/ record[Key(a)].claim = NoAttempt
    <3>1. record[Key(a)].claim = NoAttempt \/ record[Key(a)].expired
      BY <2>1 DEF IInv, OneWriterPerKey
    <3>2. QED BY <1>8, <2>1, <3>1, HiddenStep DEF Claim
  <2>2. CASE ~(pc[a] = "reclaim" \/ record[Key(a)].claim = NoAttempt)
    BY <1>8, <2>2, QuietStep DEF Claim
  <2>3. QED BY <2>1, <2>2
<1>9. CASE Write(a)
  <2>1. CASE Exists(Group(a))
    BY <1>9, <2>1, HiddenStep DEF Write, IInv, OneWriterPerKey
  <2>2. CASE ~Exists(Group(a))
    BY <1>9, <2>2, QuietStep DEF Write, Statuses
  <2>3. QED BY <2>1, <2>2
<1>10. CASE Commit(a)
  BY <1>10, CommitKeepsIInv
<1>11. CASE Fallback(a)
  <2>1. CASE record[Key(a)].claim # NoAttempt /\ Reconciled(a) = "replay"
    BY <1>11, <2>1, ReconciledMeans, HiddenStep DEF Fallback, TypeOK
  <2>2. CASE record[Key(a)].claim = NoAttempt
    BY <1>11, <2>2, QuietStep DEF Fallback, Statuses
  <2>3. CASE record[Key(a)].claim # NoAttempt /\ Reconciled(a) # "replay"
    BY <1>11, <2>3, ReconciledMeans, QuietStep DEF Fallback, Statuses
  <2>4. QED BY <2>1, <2>2, <2>3
<1>12. CASE Replay(a)
  <2>1. CASE seen[a] \in book
    BY <1>12, <2>1, ReplayKeepsIInv
  <2>2. CASE seen[a] \notin book
    BY <1>12, <2>2, QuietStep DEF Replay, Statuses
  <2>3. QED BY <2>1, <2>2
<1>13. CASE Release(a)
  BY <1>13, QuietStep DEF Release
<1>14. CASE DatabaseError(a)
  BY <1>14, QuietStep DEF DatabaseError, Statuses
<1>15. CASE Crash(a)
  BY <1>15, QuietStep DEF Crash
<1>16. QED
  BY <1>1, <1>2, <1>3, <1>4, <1>5, <1>6, <1>7, <1>8, <1>9, <1>10, <1>11,
     <1>12, <1>13, <1>14, <1>15 DEF Step

\* Members come and go, a deleted group stays deleted, its settlements go.
LEMMA GroupsKeepIInv ==
  ASSUME IInv, TypeOK',
         UNCHANGED <<record, ended, pc, seen, status, answer, request>>,
         \A g \in Groups : ~Exists(g) => ~Exists(g)',
         \A a \in Attempts : pc[a] = "commit" => Exists(Group(a))',
         OwnerIsMember',
         book' \subseteq book,
         \A s \in book \ book' : ~Exists(Group(s))'
  PROVE  IInv'
<1> USE DEF IInv, TypeOK
<1>0. \A a \in Attempts : /\ Key(a) \in Keys /\ Group(a) \in Groups
                          /\ Key(a)' = Key(a) /\ Group(a)' = Group(a)
  BY RequestType DEF Key, Group
<1>1. UndecidedUntilFinished'
  BY DEF UndecidedUntilFinished
<1>2. RowsBelongToFinished'
  BY DEF RowsBelongToFinished
<1>3. RecordsMatchBook'
  <2>1. ASSUME NEW k \in Keys, record[k].claim # NoAttempt
        PROVE  /\ record[k].claim \in Attempts
               /\ \/ record[k].claim \in book'
                  \/ ~Exists(Group(record[k].claim))'
    <3>1. record[k].claim \in Attempts
      BY <2>1 DEF Rows, MaybeAttempt
    <3>2. record[k].claim \in book \/ ~Exists(Group(record[k].claim))
      BY <2>1 DEF RecordsMatchBook
    <3>3. ~Exists(Group(record[k].claim)) => ~Exists(Group(record[k].claim))'
      BY <1>0, <3>1 DEF Exists
    <3>4. QED BY <3>1, <3>2, <3>3
  <2>2. QED BY <1>0, <2>1 DEF RecordsMatchBook, Key
<1>4. RefusedRecordsNothing'
  BY DEF RefusedRecordsNothing
<1>5. CreatedMeansRecorded'
  <2>1. ASSUME NEW a \in Attempts, status[a] = "created"
        PROVE  /\ answer[a] \in Attempts /\ Same(answer[a], a)'
               /\ answer[a] \in book' \/ ~Exists(Group(a))'
    <3>1. /\ answer[a] \in Attempts /\ Same(answer[a], a)
          /\ answer[a] \in book \/ ~Exists(Group(a))
      BY <2>1 DEF CreatedMeansRecorded
    <3>2. Group(answer[a]) = Group(a)
      BY <3>1 DEF Same, Group
    <3>3. ~Exists(Group(a)) => ~Exists(Group(a))'
      BY <1>0 DEF Exists
    <3>4. Same(answer[a], a)'
      BY <3>1 DEF Same, Key
    <3>5. answer[a] \in book \ book' => ~Exists(Group(a))'
      BY <1>0, <3>1, <3>2 DEF Exists
    <3>6. QED BY <3>1, <3>3, <3>4, <3>5
  <2>2. QED BY <2>1 DEF CreatedMeansRecorded
<1>6. OneWriterPerKey'
  BY DEF OneWriterPerKey, KeyLocked, Key
<1>7. WriterHoldsGroup'
  BY DEF WriterHoldsGroup
<1>8. SeenStaysTrue'
  BY DEF SeenStaysTrue, Same, Key
<1>9. OwnerIsMember'
  OBVIOUS
<1>10. QED
  BY <1>1, <1>2, <1>3, <1>4, <1>5, <1>6, <1>7, <1>8, <1>9

LEMMA ExpireRecordKeepsIInv ==
  ASSUME IInv, TypeOK', NEW k \in Keys, ExpireRecord(k)
  PROVE  IInv'
<1> USE DEF IInv, TypeOK
<1>1. /\ record[k].claim \in Attempts /\ ~record[k].expired
      /\ record[k].resource = record[k].claim
      /\ Key(record[k].claim) = k
      /\ pc[record[k].claim] \in Finished
  BY DEF ExpireRecord, RecordsMatchBook, RowsBelongToFinished, Rows,
         MaybeAttempt
<1>2. /\ record' = [record EXCEPT ![k] = [record[k] EXCEPT !.expired = TRUE]]
      /\ ended' = ended \cup {record[k].claim}
      /\ UNCHANGED <<members, book, pc, seen, status, answer, request>>
  BY <1>1 DEF ExpireRecord, handlerVars
<1>3. \A j \in Keys : /\ record'[j].claim = record[j].claim
                      /\ record'[j].resource = record[j].resource
                      /\ record'[j].completed = record[j].completed
                      /\ j # k => record'[j] = record[j]
  BY <1>2 DEF Rows
<1>4. record'[k].expired
  BY <1>2 DEF Rows
<1>5. UndecidedUntilFinished'
  BY <1>2 DEF UndecidedUntilFinished
<1>6. RowsBelongToFinished'
  BY <1>1, <1>2, <1>3, NoAttemptAssumption DEF RowsBelongToFinished
<1>7. RecordsMatchBook'
  <2>1. ASSUME NEW j \in Keys, record[j].claim # NoAttempt
        PROVE  /\ record'[j].completed
               /\ record'[j].resource = record'[j].claim
               /\ Key(record[j].claim) = j
               /\ \/ record[j].claim \in book
                  \/ ~Exists(Group(record[j].claim))
               /\ record'[j].claim \in ended' <=> record'[j].expired
    <3>1. j # k => record[j].claim # record[k].claim
      BY <1>1, <2>1 DEF RecordsMatchBook
    <3>2. QED
      BY <1>1, <1>2, <1>3, <1>4, <2>1, <3>1 DEF RecordsMatchBook
  <2>2. \A s \in book' \ ended' : record'[Key(s)].claim = s
    BY <1>2, <1>3, RequestType DEF RecordsMatchBook
  <2>3. ASSUME NEW j \in Keys, (record[j].claim # NoAttempt)'
        PROVE  (/\ record[j].completed
                /\ record[j].resource = record[j].claim
                /\ Key(record[j].claim) = j
                /\ record[j].claim \in book \/ ~Exists(Group(record[j].claim))
                /\ record[j].claim \in ended <=> record[j].expired)'
    <3>1. record'[j].claim = record[j].claim /\ record[j].claim # NoAttempt
      BY <1>3, <2>3
    <3>2. members' = members /\ book' = book /\ request' = request
      BY <1>2
    <3>3. /\ Key(record[j].claim) = j
          /\ record[j].claim \in book \/ ~Exists(Group(record[j].claim))
      BY <2>1, <3>1
    <3>4. (Key(record[j].claim) = j)'
      BY <3>1, <3>2, <3>3 DEF Key
    <3>5. (record[j].claim \in book \/ ~Exists(Group(record[j].claim)))'
      BY <3>1, <3>2, <3>3 DEF Exists, Group
    <3>6. QED BY <2>1, <3>1, <3>4, <3>5
  <2>4. (\A s \in book \ ended : record[Key(s)].claim = s)'
    BY <1>2, <2>2 DEF Key
  <2>5. QED BY <2>3, <2>4 DEF RecordsMatchBook
<1>8. RefusedRecordsNothing'
  BY <1>2 DEF RefusedRecordsNothing
<1>9. CreatedMeansRecorded'
  BY <1>2 DEF CreatedMeansRecorded, Same, Key, Group, Exists
<1>10. OneWriterPerKey'
  BY <1>2, <1>3, <1>4, RequestType DEF OneWriterPerKey, KeyLocked, Key
<1>11. WriterHoldsGroup'
  BY <1>2 DEF WriterHoldsGroup, Group, Exists
<1>12. SeenStaysTrue'
  BY <1>2, <1>3, <1>4, RequestType
     DEF SeenStaysTrue, Same, Key
<1>13. OwnerIsMember'
  BY <1>2 DEF OwnerIsMember, Exists
<1>14. QED
  BY <1>5, <1>6, <1>7, <1>8, <1>9, <1>10, <1>11, <1>12, <1>13

LEMMA EnvironmentKeepsIInv ==
  ASSUME IInv, Environment
  PROVE  IInv'
<1>0. TypeOK /\ TypeOK'
  BY EnvironmentKeepsType DEF IInv
<1> USE <1>0 DEF handlerVars, redisVars, dbVars
<1>1. ASSUME NEW g \in Groups, NEW u \in Users,
             AddMember(g, u) \/ RemoveMember(g, u)
      PROVE  IInv'
  <2>0. /\ Exists(g)
        /\ \/ members' = [members EXCEPT ![g] = members[g] \cup {u}]
           \/ members' = [members EXCEPT ![g] = members[g] \ {u}]
              /\ u # Owner[g]
    BY <1>1 DEF AddMember, RemoveMember, Exists
  <2>1. (\A h \in Groups : Exists(h)' <=> Exists(h)) /\ OwnerIsMember'
    BY <2>0 DEF Exists, TypeOK, IInv, OwnerIsMember
  <2>2. \A a \in Attempts : Exists(Group(a))' <=> Exists(Group(a))
    BY <1>1, <2>1, RequestType
       DEF AddMember, RemoveMember, Exists, Group
  <2>3. QED
    BY <1>1, <2>1, <2>2, GroupsKeepIInv
       DEF AddMember, RemoveMember, IInv, WriterHoldsGroup
<1>2. ASSUME NEW g \in Groups, DeleteGroup(g)
      PROVE  IInv'
  <2>1. /\ members' = [members EXCEPT ![g] = {}]
        /\ UNCHANGED <<record, ended, pc, seen, status, answer, request>>
        /\ book' \subseteq book
    BY <1>2 DEF DeleteGroup
  <2>2. \A h \in Groups : ~Exists(h) => ~Exists(h)'
    BY <2>1 DEF Exists, TypeOK
  <2>3. ASSUME NEW a \in Attempts, pc[a] = "commit"
        PROVE  Exists(Group(a))'
    <3>1. Exists(Group(a)) /\ Group(a) # g /\ Group(a) \in Groups
      BY <1>2, <2>3, RequestType DEF DeleteGroup, IInv, WriterHoldsGroup
    <3>2. Group(a)' = Group(a)
      BY <2>1 DEF Group
    <3>3. QED BY <2>1, <3>1, <3>2 DEF Exists, TypeOK
  <2>4. \A s \in book \ book' : ~Exists(Group(s))'
    BY <1>2, <2>1 DEF DeleteGroup, Exists, Group, TypeOK
  <2>5. OwnerIsMember'
    BY <2>1 DEF OwnerIsMember, Exists, TypeOK, IInv
  <2>6. QED BY <2>1, <2>2, <2>3, <2>4, <2>5, GroupsKeepIInv
<1>3. ASSUME NEW g \in Groups, ExpireLock(g)
      PROVE  IInv'
  BY <1>3, GroupsKeepIInv
     DEF ExpireLock, IInv, WriterHoldsGroup, OwnerIsMember, Exists, Group
<1>4. ASSUME NEW k \in Keys, ExpireRecord(k)
      PROVE  IInv'
  BY <1>4, ExpireRecordKeepsIInv
<1>5. QED BY <1>1, <1>2, <1>3, <1>4 DEF Environment

LEMMA StutterKeepsIInv ==
  ASSUME IInv, UNCHANGED vars
  PROVE  IInv'
BY DEF vars, dbVars, redisVars, handlerVars, IInv, TypeOK,
       UndecidedUntilFinished, RowsBelongToFinished, RecordsMatchBook,
       RefusedRecordsNothing, CreatedMeansRecorded, OneWriterPerKey,
       OwnerIsMember, WriterHoldsGroup, SeenStaysTrue, KeyLocked, Same, Key,
       Group, Exists

(* The invariant of settlement creation, for any number of attempts.       *)
THEOREM Invariance == Spec => []IInv
<1>1. IInv /\ [Next]_vars => IInv'
  BY AttemptKeepsIInv, EnvironmentKeepsIInv, StutterKeepsIInv DEF Next
<1>2. QED BY <1>1, InitIInv, PTL DEF Spec

(* One settlement per key and lifetime, whatever is retried, raced, locked *)
(* or not locked.                                                          *)
THEOREM AtMostOnce == Spec => []AtMostOncePerKeyLife
<1>1. IInv => AtMostOncePerKeyLife
  BY DEF IInv, RecordsMatchBook, AtMostOncePerKeyLife
<1>2. QED BY <1>1, Invariance, PTL

(* Every 201 names a recorded settlement of the very same request.         *)
THEOREM CreatedIsRecorded == Spec => []CreatedMeansRecorded
<1>1. IInv => CreatedMeansRecorded
  BY DEF IInv
<1>2. QED BY <1>1, Invariance, PTL

(* A lost race for a live key is never answered with IDEMPOTENCY_CONFLICT. *)
THEOREM ConflictsAreStale == Spec => ConflictOnlyAfterExpiry
<1>1. IInv /\ [Next]_vars =>
        [\A a \in Attempts :
           status[a] = "none" /\ status'[a] = "conflict"
             => record[Key(a)].expired]_vars
  <2> SUFFICES ASSUME IInv, Next, NEW a \in Attempts,
                      status[a] = "none", status'[a] = "conflict"
               PROVE  record[Key(a)].expired
    OBVIOUS
  <2> USE DEF IInv, TypeOK
  <2>1. \/ FindRecord(a) /\ record[Key(a)].claim # NoAttempt
           /\ Reconciled(a) = "conflict"
        \/ Fallback(a)
    <3>1. PICK b \in Attempts :
            Arrive(b) \/ Step(b) \/ DatabaseError(b) \/ Crash(b)
      BY DEF Next, Environment, AddMember, RemoveMember, DeleteGroup,
             ExpireLock, ExpireRecord, handlerVars
    <3>2. b = a
      BY <3>1 DEF Arrive, Step, DatabaseError, Crash, FindGroup, CheckMembers,
           EnterLock, LockRefused, FindRecord, DropExpired, Claim, Write,
           Commit, Fallback, Replay, Release, Advance, Fail, Reject, Remember,
           Decide
    <3>3. QED
      BY <3>1, <3>2 DEF Arrive, Step, DatabaseError, Crash, FindGroup,
           CheckMembers, Refusal, EnterLock, LockRefused, FindRecord,
           DropExpired, Claim, Write, Commit, Replay, Release, Advance, Fail,
           Reject, Remember, Decide
  <2>2. record[Key(a)].claim # NoAttempt
    BY <2>1 DEF Fallback, SeenStaysTrue
  <2>3. Reconciled(a) # "conflict"
    <3>1. record[Key(a)].completed
      BY <2>2, RequestType DEF RecordsMatchBook
    <3>2. QED BY <3>1 DEF Reconciled, Reconcile, Stored
  <2>4. Fallback(a) /\ Reconciled(a) = "reuse"
    BY <2>1, <2>2, <2>3 DEF Fallback, Fail, Remember, Decide
  <2>5. QED BY <2>2, <2>4, ReconciledMeans
<1>2. QED BY <1>1, Invariance, PTL DEF Spec, ConflictOnlyAfterExpiry

(* An error other than a 500 leaves no settlement behind.                  *)
THEOREM RefusalsAreClean == Spec => []RefusedRecordsNothing
<1>1. IInv => RefusedRecordsNothing
  BY DEF IInv
<1>2. QED BY <1>1, Invariance, PTL

-----------------------------------------------------------------------------
(* The lock *)

LEMMA AttemptKeepsHold ==
  ASSUME TypeOK, TypeOK', HoldFollowsPc, TokenIsStored, NEW a \in Attempts,
         Arrive(a) \/ Step(a) \/ DatabaseError(a) \/ Crash(a)
  PROVE  HoldFollowsPc' /\ TokenIsStored'
<1>0. Group(a) \in Groups /\ \A b \in Attempts : Group(b)' = Group(b)
  <2>1. request' = request
    BY DEF Arrive, Step, DatabaseError, Crash, FindGroup, CheckMembers,
           EnterLock, LockRefused, FindRecord, DropExpired, Claim, Write,
           Commit, Fallback, Replay, Release
  <2>2. QED BY <2>1, RequestType DEF Group
\* Most steps leave Redis alone and stay before, inside or behind the lock.
<1>1. ASSUME UNCHANGED redisVars, NEW stage, Goto(a, stage),
             \/ /\ pc[a] \in {"new", "group", "members", "lock"}
                /\ stage \in {"group", "members", "lock", "replied"}
             \/ pc[a] \in Protected /\ stage \in Protected
      PROVE  HoldFollowsPc' /\ TokenIsStored'
  BY <1>0, <1>1 DEF redisVars, HoldFollowsPc, TokenIsStored, Goto, Protected,
                    TypeOK
<1> USE DEF Advance, Fail, Reject, Remember, Protected
<1>2. CASE Arrive(a)        BY <1>1, <1>2 DEF Arrive
<1>3. CASE FindGroup(a)     BY <1>1, <1>3 DEF FindGroup
<1>4. CASE CheckMembers(a)  BY <1>1, <1>4 DEF CheckMembers
<1>5. CASE EnterLock(a)
  <2>1. /\ pc[a] = "lock" /\ pc' = [pc EXCEPT ![a] = "find"]
        /\ UNCHANGED lapsed
        /\ \/ /\ lock[Group(a)] = NoAttempt
              /\ lock' = [lock EXCEPT ![Group(a)] = a]
              /\ hold' = [hold EXCEPT ![a] = "token"]
           \/ /\ \/ UNCHANGED lock
                 \/ /\ lock[Group(a)] = NoAttempt
                    /\ lock' = [lock EXCEPT ![Group(a)] = a]
              /\ hold' = [hold EXCEPT ![a] = "bare"]
    BY <1>5 DEF EnterLock, L!Acquire, L!AcquireError, L!Becomes, L!Stores,
                Group, Goto
  <2>2. HoldFollowsPc'
    BY <2>1 DEF HoldFollowsPc, TypeOK
  <2>3. ASSUME NEW b \in Attempts, hold'[b] = "token", b \notin lapsed'
        PROVE  lock'[Group(b)] = b
    <3>1. CASE b = a
      BY <1>0, <2>1, <2>3, <3>1 DEF TypeOK
    <3>2. CASE b # a
      <4>1. hold[b] = "token" /\ b \notin lapsed
        BY <2>1, <2>3, <3>2 DEF TypeOK
      <4>2. lock[Group(b)] = b /\ b # NoAttempt
        BY <4>1, NoAttemptAssumption DEF TokenIsStored
      <4>3. Group(b) \in Groups
        BY RequestType
      <4>4. QED BY <2>1, <3>2, <4>2, <4>3 DEF TypeOK
    <3>3. QED BY <3>1, <3>2
  <2>4. QED BY <1>0, <2>2, <2>3 DEF TokenIsStored
<1>6. CASE LockRefused(a)
  BY <1>0, <1>6 DEF LockRefused, L!Refuse, L!Becomes, Goto, HoldFollowsPc,
                    TokenIsStored, TypeOK
<1>7. CASE FindRecord(a)
  BY <1>1, <1>7 DEF FindRecord
<1>8. CASE DropExpired(a)   BY <1>1, <1>8 DEF DropExpired
<1>9. CASE Claim(a)         BY <1>1, <1>9 DEF Claim
<1>10. CASE Write(a)        BY <1>1, <1>10 DEF Write
<1>11. CASE Commit(a)       BY <1>1, <1>11 DEF Commit
<1>12. CASE Fallback(a)     BY <1>1, <1>12 DEF Fallback
<1>13. CASE Replay(a)       BY <1>1, <1>13 DEF Replay
<1>14. CASE Release(a)
  <2>1. /\ pc[a] = "release" /\ pc' = [pc EXCEPT ![a] = "replied"]
        /\ UNCHANGED lapsed
        /\ hold' = [hold EXCEPT ![a] = "done"]
        /\ UNCHANGED lock
           \/ lock' = [lock EXCEPT ![Group(a)] =
                          IF lock[Group(a)] = a THEN NoAttempt
                                                ELSE lock[Group(a)]]
    BY <1>14 DEF Release, L!Release, L!ReleaseError, L!ReturnBare, L!Becomes,
                 L!OwnKeyDeleted, Group, Goto
  <2>2. HoldFollowsPc'
    BY <2>1 DEF HoldFollowsPc, TypeOK
  <2>3. ASSUME NEW b \in Attempts, hold'[b] = "token", b \notin lapsed'
        PROVE  lock'[Group(b)] = b
    <3>1. b # a /\ hold[b] = "token" /\ b \notin lapsed
      BY <2>1, <2>3 DEF TypeOK
    <3>2. lock[Group(b)] = b /\ Group(b) \in Groups
      BY <3>1, RequestType DEF TokenIsStored
    <3>3. QED BY <2>1, <3>1, <3>2 DEF TypeOK
  <2>4. QED BY <1>0, <2>2, <2>3 DEF TokenIsStored
<1>15. CASE DatabaseError(a)
  BY <1>1, <1>15 DEF DatabaseError
<1>16. CASE Crash(a)
  BY <1>0, <1>16 DEF Crash, L!Crash, L!Becomes, Goto, HoldFollowsPc,
                     TokenIsStored, TypeOK
<1>17. QED
  BY <1>2, <1>3, <1>4, <1>5, <1>6, <1>7, <1>8, <1>9, <1>10, <1>11, <1>12,
     <1>13, <1>14, <1>15, <1>16 DEF Step

LEMMA EnvironmentKeepsHold ==
  ASSUME TypeOK, HoldFollowsPc, TokenIsStored, Environment
  PROVE  HoldFollowsPc' /\ TokenIsStored'
<1> USE DEF HoldFollowsPc, TokenIsStored, TypeOK, redisVars, handlerVars, Group
<1>1. ASSUME UNCHANGED <<redisVars, handlerVars, request>>
      PROVE  HoldFollowsPc' /\ TokenIsStored'
  BY <1>1
<1>2. ASSUME NEW g \in Groups, ExpireLock(g)
      PROVE  HoldFollowsPc' /\ TokenIsStored'
  BY <1>2 DEF ExpireLock, L!Expire, L!Stores
<1>3. QED
  BY <1>1, <1>2 DEF Environment, AddMember, RemoveMember, DeleteGroup,
                    ExpireRecord

(* The settlements of one group are handled one at a time, except beside a *)
(* handler without a token or one that has outlived the TTL of its lock.   *)
THEOREM SettlementsSerialised == Spec => []GroupSerialised
<1> DEFINE LInv == TypeOK /\ HoldFollowsPc /\ TokenIsStored
<1>1. Init => LInv
  BY InitType DEF Init, L!LockInit, HoldFollowsPc, TokenIsStored, Protected
<1>2. LInv /\ [Next]_vars => LInv'
  <2> SUFFICES ASSUME LInv, [Next]_vars PROVE LInv'
    OBVIOUS
  <2>1. CASE UNCHANGED vars
    BY <2>1 DEF vars, dbVars, redisVars, handlerVars, TypeOK, HoldFollowsPc,
                TokenIsStored, Group
  <2>2. CASE Next
    BY <2>2, AttemptKeepsType, EnvironmentKeepsType, AttemptKeepsHold,
       EnvironmentKeepsHold DEF Next
  <2>3. QED BY <2>1, <2>2
<1>3. LInv => GroupSerialised
  BY DEF GroupSerialised, HoldFollowsPc, TokenIsStored, TypeOK
<1>4. QED BY <1>1, <1>2, <1>3, PTL DEF Spec

-----------------------------------------------------------------------------
(* Settlements implements IdempotentLedger *)

Existing == {g \in Groups : Exists(g)}
Current == [k \in Keys |-> IF record[k].expired THEN NoAttempt
                                               ELSE record[k].resource]

\* A step that leaves the abstract state alone.
LEMMA LedgerStutters ==
  ASSUME UNCHANGED <<members, record, book, answer, request>>
  PROVE  UNCHANGED Ledger!ledgerVars
BY DEF Ledger!ledgerVars, Exists

\* The commit is the moment at which the ledger grows.
LEMMA CommitAdds ==
  ASSUME IInv, NEW a \in Attempts, Commit(a)
  PROVE  Ledger!Add(a)
<1> USE DEF IInv, TypeOK
<1>1. /\ Key(a) \in Keys /\ Group(a) \in Groups
      /\ pc[a] = "commit" /\ a \notin book
      /\ answer[a] = NoAttempt /\ Exists(Group(a))
  BY RequestType DEF Commit, RefusedRecordsNothing, UndecidedUntilFinished,
                     WriterHoldsGroup, Finished
<1>2. Current[Key(a)] = NoAttempt
  <2>1. record[Key(a)].claim = NoAttempt \/ record[Key(a)].expired
    BY <1>1 DEF OneWriterPerKey, Writing
  <2>2. record[Key(a)].claim = NoAttempt => record[Key(a)] = NoRow
    BY <1>1 DEF RowsBelongToFinished
  <2>3. QED BY <1>1, <2>1, <2>2 DEF Current, NoRow
<1>3. Current' = [Current EXCEPT ![Key(a)] = a]
  <2>1. record' = [record EXCEPT ![Key(a)] = CompletedRow(a)]
    BY DEF Commit
  <2>2. ASSUME NEW k \in Keys
        PROVE  Current'[k] = [Current EXCEPT ![Key(a)] = a][k]
    BY <1>1, <2>1 DEF Current, CompletedRow
  <2>3. QED BY <2>2 DEF Current
<1>4. answer' \in {answer, [answer EXCEPT ![a] = a]}
  BY DEF Commit
<1>5. /\ book' = book \cup {a}
      /\ UNCHANGED <<request, members>>
  BY DEF Commit
<1>6. Existing' = Existing
  BY <1>5 DEF Existing, Exists
<1>7. QED
  BY <1>1, <1>2, <1>3, <1>4, <1>5, <1>6
     DEF Ledger!Add, Current, Existing, Key, Group

LEMMA ReplayReplays ==
  ASSUME IInv, NEW a \in Attempts, Replay(a), seen[a] \in book
  PROVE  Ledger!Replay(a, seen[a])
<1> USE DEF IInv, TypeOK
<1>1. /\ pc[a] = "replay" /\ answer[a] = NoAttempt
      /\ seen[a] \in Attempts /\ Same(seen[a], a)
      /\ answer' = [answer EXCEPT ![a] = seen[a]]
      /\ UNCHANGED <<members, record, book, request>>
  BY DEF Replay, dbVars, UndecidedUntilFinished, SeenStaysTrue, Finished
<1>2. QED
  BY <1>1 DEF Ledger!Replay, Ledger!SameRequest, Same, Exists

LEMMA AttemptImplementsLedger ==
  ASSUME IInv, NEW a \in Attempts,
         Arrive(a) \/ Step(a) \/ DatabaseError(a) \/ Crash(a)
  PROVE  [Ledger!Next]_(Ledger!ledgerVars)
<1>1. CASE Commit(a)
  BY <1>1, CommitAdds DEF Ledger!Next
<1>2. CASE Replay(a) /\ seen[a] \in book
  BY <1>2, ReplayReplays DEF Ledger!Next, IInv, SeenStaysTrue, Replay
<1>3. CASE ~Commit(a) /\ ~(Replay(a) /\ seen[a] \in book)
  <2>1. UNCHANGED <<members, record, book, answer, request>>
    BY <1>3 DEF Arrive, Step, DatabaseError, Crash, FindGroup, CheckMembers,
           EnterLock, LockRefused, FindRecord, DropExpired, Claim, Write,
           Fallback, Replay, Release, Advance, Fail, Reject, Remember, dbVars
  <2>2. QED BY <2>1, LedgerStutters
<1>4. QED BY <1>1, <1>2, <1>3

LEMMA EnvironmentImplementsLedger ==
  ASSUME IInv, Environment
  PROVE  [Ledger!Next]_(Ledger!ledgerVars)
<1> USE DEF IInv, TypeOK, handlerVars
<1>1. ASSUME NEW g \in Groups, NEW u \in Users,
             AddMember(g, u) \/ RemoveMember(g, u)
      PROVE  UNCHANGED Ledger!ledgerVars
  <2>1. /\ UNCHANGED <<record, book, answer, request>>
        /\ Exists(g)
        /\ \/ members' = [members EXCEPT ![g] = members[g] \cup {u}]
           \/ members' = [members EXCEPT ![g] = members[g] \ {u}]
              /\ u # Owner[g]
    BY <1>1 DEF AddMember, RemoveMember, Exists
  <2>2. Existing' = Existing
    BY <2>1 DEF Existing, Exists, OwnerIsMember
  <2>3. QED BY <2>1, <2>2 DEF Ledger!ledgerVars, Existing
<1>2. ASSUME NEW g \in Groups, DeleteGroup(g)
      PROVE  Ledger!Erase(g)
  <2>1. /\ members' = [members EXCEPT ![g] = {}]
        /\ book' = {s \in book : request[s].group # g}
        /\ UNCHANGED <<record, answer, request>>
        /\ g \in Existing
    BY <1>2 DEF DeleteGroup, Group, Existing
  <2>2. Existing' = Existing \ {g}
    BY <2>1 DEF Existing, Exists
  <2>3. QED BY <2>1, <2>2 DEF Ledger!Erase, Existing
<1>3. ASSUME NEW g \in Groups, ExpireLock(g)
      PROVE  UNCHANGED Ledger!ledgerVars
  BY <1>3, LedgerStutters DEF ExpireLock, dbVars
<1>4. ASSUME NEW k \in Keys, ExpireRecord(k)
      PROVE  Ledger!EndLife(k)
  <2>1. /\ Current[k] # NoAttempt
        /\ record' = [record EXCEPT ![k] = [record[k] EXCEPT !.expired = TRUE]]
        /\ UNCHANGED <<members, book, answer, request>>
    BY <1>4 DEF ExpireRecord, Current, RecordsMatchBook
  <2>2. Current' = [Current EXCEPT ![k] = NoAttempt]
    <3>1. ASSUME NEW j \in Keys
          PROVE  Current'[j] = [Current EXCEPT ![k] = NoAttempt][j]
      BY <2>1 DEF Current, Rows
    <3>2. QED BY <3>1 DEF Current
  <2>3. Existing' = Existing
    BY <2>1 DEF Existing, Exists
  <2>4. QED BY <2>1, <2>2, <2>3 DEF Ledger!EndLife, Current, Existing
<1>5. QED
  BY <1>1, <1>2, <1>3, <1>4 DEF Environment, Ledger!Next

(* Settlement creation, with its lock, its transaction, its P2002 fallback *)
(* and everything that fails around it, is an idempotent ledger.           *)
THEOREM Refinement == Spec => ImplementsLedger
<1>1. Init => Ledger!Init
  BY DEF Init, Ledger!Init, NoRow
<1>2. IInv /\ [Next]_vars => [Ledger!Next]_(Ledger!ledgerVars)
  <2> SUFFICES ASSUME IInv, [Next]_vars
               PROVE  [Ledger!Next]_(Ledger!ledgerVars)
    OBVIOUS
  <2>1. CASE UNCHANGED vars
    BY <2>1, LedgerStutters DEF vars, dbVars, handlerVars
  <2>2. CASE Next
    BY <2>2, AttemptImplementsLedger, EnvironmentImplementsLedger DEF Next
  <2>3. QED BY <2>1, <2>2
<1>3. QED BY <1>1, <1>2, Invariance, PTL DEF Spec, Ledger!Spec, ImplementsLedger

(* Every committed idempotency row points at a settlement of its own key,  *)
(* and every live settlement is the one its key replays.                   *)
THEOREM RecordsPoint == Spec => []RecordsMatchBook
<1>1. IInv => RecordsMatchBook
  BY DEF IInv
<1>2. QED BY Invariance, <1>1, PTL
=============================================================================
