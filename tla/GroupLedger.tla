----------------------------- MODULE GroupLedger -----------------------------
(***************************************************************************)
(* The money of one group: its members, expenses, splits, settlements and  *)
(* activity feed, and the handlers that change and read them.              *)
(*   modules/expenses/expense.{service,repository}.ts                      *)
(*   modules/groups/group.{service,repository}.ts                          *)
(*   modules/settlements/settlement.service.ts  getGroupBalances           *)
(*                                                                         *)
(* A call is one execution of a handler.  Handlers read outside of any     *)
(* transaction, one await at a time, decide from what they read, and then  *)
(* change the database in one transaction, which is one action here.       *)
(* Prisma loads a relation with a query of its own, so a row and its       *)
(* splits are read at different moments.  An expense is named by the call  *)
(* that created it, and so is a settlement; how settlements are kept from  *)
(* being recorded twice is the subject of module Settlements.              *)
(*                                                                         *)
(* The feed is shown in the order of occurredAt, which is taken at some    *)
(* moment before the commit, so that the model has a clock.  It is one     *)
(* clock for all processes and does not run backwards.                     *)
(***************************************************************************)
EXTENDS Money, FiniteSets

CONSTANTS Calls, Users,
          Owner,     \* the creator of the group
          Requests,  \* what calls may ask for, see RequestsAssumption
          Absent,    \* an optional field that was not given
          LastTime   \* bound: the clock stops here

SplitTypes == {"EQUAL", "EXACT"}
Optional(S) == S \cup {Absent}

\* The validated inputs of each operation.  Participants come in input order,
\* with the amount that each one gave.
Amounts == Nat \ {0}
SomeParticipants ==
  Seq([user : Users, amount : Optional(Amounts)]) \ {<<>>}

Inputs ==
  [op : {"create"}, user : Users, payer : Users, total : Amounts,
   type : SplitTypes, participants : SomeParticipants]
  \cup [op : {"update"}, user : Users, expense : Calls,
        payer : Optional(Users), total : Optional(Amounts),
        type : Optional(SplitTypes), participants : Optional(SomeParticipants)]
  \cup [op : {"delete"}, user : Users, expense : Calls]
  \cup [op : {"settle"}, user : Users, payer : Users, payee : Users,
        total : Amounts]
  \cup [op : {"balances", "dissolve"}, user : Users]
  \cup [op : {"add", "remove"}, user : Users, member : Users]

ASSUME UsersAssumption == IsFiniteSet(Users)
ASSUME OwnerAssumption == Owner \in Users
ASSUME AbsentAssumption ==
  Absent \notin Calls \cup Users \cup Nat \cup SplitTypes
ASSUME RequestsAssumption == Requests \subseteq Inputs
ASSUME LastTimeAssumption == LastTime \in Nat

UsersOf(list) == [i \in DOMAIN list |-> list[i].user]
Distinct(list) == \A i, j \in DOMAIN list : list[i].user = list[j].user => i = j
Orders(S) == {q \in [1 .. Cardinality(S) -> S] : Range(q) = S}

VARIABLES
  members,   \* database: the members, {} when the group is deleted
  expenses,  \* database: id -> [payer, total, type, splits]
  payments,  \* database: id -> [payer, payee, amount]
  feed,      \* database: the activity events of the group in commit order
  now,       \* the clock, in the unit of occurredAt
  request,   \* what each call asks for
  pc,        \* how far its handler is
  began,     \* the clock when it had read all it needs to write
  seen,      \* what the handler has read: [members, expenses]
  draft,     \* the expense it is about to write
  answer     \* the balances it returned

dbVars == <<members, expenses, payments, feed, now>>
vars == <<dbVars, request, pc, began, seen, draft, answer>>

NoSplits == [u \in {} |-> 0]
NoRows == [e \in {} |-> 0]
NothingSeen == [members |-> {}, expenses |-> NoRows]

Exists == members # {}
Op(c) == request[c].op

\* The ends of a handler: 2xx, a 4xx decided by the handler, anything else.
Ends == {"ok", "refused", "failed"}

\* A group of its owner and others, before its first expense; the feed is
\* followed from here on.
Init ==
  /\ members \in {m \in SUBSET Users : Owner \in m}
  /\ expenses = NoRows
  /\ payments = NoRows
  /\ feed = <<>>
  /\ now = 0
  /\ request \in [Calls -> Requests]
  /\ pc = [c \in Calls |-> "start"]
  /\ began = [c \in Calls |-> 0]
  /\ seen = [c \in Calls |-> NothingSeen]
  /\ draft = [c \in Calls |-> Absent]
  /\ answer = [c \in Calls |-> Absent]

-----------------------------------------------------------------------------
Goto(c, stage) ==
  /\ pc' = [pc EXCEPT ![c] = stage]
  /\ began' = [began EXCEPT ![c] = IF stage = "write" THEN now ELSE 0]

\* A handler ends; what it had read dies with it.
End(c, outcome) ==
  /\ Goto(c, outcome)
  /\ seen' = [seen EXCEPT ![c] = NothingSeen]
  /\ draft' = [draft EXCEPT ![c] = Absent]

Refuse(c) == End(c, "refused") /\ UNCHANGED <<dbVars, request, answer>>
Fail(c) == End(c, "failed") /\ UNCHANGED <<dbVars, request, answer>>

\* A read that sends the handler on, keeping what it saw.
Read(c, sight, stage) ==
  /\ seen' = [seen EXCEPT ![c] = sight]
  /\ Goto(c, stage)
  /\ UNCHANGED <<dbVars, request, draft, answer>>

\* Every transaction records its activity event with the change: `at' is its
\* occurredAt, `done' remembers when it was committed.
Event(c, type, expense, total, at) ==
  [call |-> c, type |-> type, expense |-> expense, total |-> total,
   at |-> at, done |-> now]

\* An event is dated at some moment from `since' on.  Additions and updates
\* take the time before they have the row (createdAt, new Date()), deletions
\* and removals once they have deleted it.
Record(c, type, expense, total, since) ==
  /\ \E at \in since .. now :
       feed' = Append(feed, Event(c, type, expense, total, at))
  /\ UNCHANGED now

(* Reads shared by the handlers *)

GroupFirst == {"create", "settle", "balances", "add", "remove", "dissolve"}

\* findGroupById; ownership is checked with it where it is required.
OwnerOnly == {"add", "remove", "dissolve"}

NextRead(op) ==
  CASE op \in {"create", "settle", "balances"} -> "members"
    [] op \in {"add", "remove"}                -> "membership"
    [] op = "dissolve"                         -> "write"

FindGroup(c) ==
  /\ pc[c] = "start"
  /\ Op(c) \in GroupFirst
  /\ IF /\ Exists
        /\ Op(c) \in OwnerOnly => request[c].user = Owner
        /\ Op(c) = "remove" => request[c].member # Owner
     THEN Read(c, seen[c], NextRead(Op(c)))
     ELSE Refuse(c)

\* The rows of a set of expenses, without their splits.
RowsOf(ids) ==
  [e \in ids \cap DOMAIN expenses |->
     [expenses[e] EXCEPT !.splits = NoSplits]]

SplitsOf(e) == IF e \in DOMAIN expenses THEN expenses[e].splits ELSE NoSplits

WithSplits(rows) ==
  [e \in DOMAIN rows |-> [rows[e] EXCEPT !.splits = SplitsOf(e)]]

\* findExpenseById, first half.
FindExpense(c) ==
  /\ pc[c] = "start"
  /\ Op(c) \in {"update", "delete"}
  /\ IF request[c].expense \in DOMAIN expenses
     THEN Read(c, [seen[c] EXCEPT !.expenses = RowsOf({request[c].expense})],
               "splits")
     ELSE Refuse(c)

\* Its second half, and that of findExpensesForBalances.
FindSplits(c) ==
  /\ pc[c] = "splits"
  /\ Read(c, [seen[c] EXCEPT !.expenses = WithSplits(@)],
          IF Op(c) = "balances" THEN "payments" ELSE "members")

-----------------------------------------------------------------------------
(* expense.service.ts *)

ExactSplits(list) ==
  [u \in Range(UsersOf(list)) |-> list[Position(UsersOf(list), u)].amount]

\* The splits that a list of participants leads to; none when it is refused.
reconcileSplits(type, total, list, memberIds) ==
  IF ~Distinct(list) \/ ~(Range(UsersOf(list)) \subseteq memberIds) THEN {}
  ELSE IF type = "EQUAL" THEN {calculateEqualSplits(total, UsersOf(list))}
  ELSE IF \E i \in DOMAIN list : list[i].amount = Absent THEN {}
  ELSE {s \in {ExactSplits(list)} : sumSplitAmounts(s) = total}

\* The splits of an update that names no participants: the existing ones are
\* kept, or recomputed in the order in which the database returns them (all
\* have the same creation time, so that any order is possible).
keptSplits(type, total, splits) ==
  IF type = "EXACT" THEN {s \in {splits} : sumSplitAmounts(s) = total}
  ELSE {calculateEqualSplits(total, q) : q \in Orders(DOMAIN splits)}

\* An expense is written when requester and payer are members and the splits
\* come out; otherwise the handler answers 4xx.
Decide(c, row, options) ==
  IF {request[c].user, row.payer} \subseteq members /\ options # {}
  THEN /\ \E splits \in options :
            draft' = [draft EXCEPT ![c] = [row EXCEPT !.splits = splits]]
       /\ seen' = [seen EXCEPT ![c].members = members]
       /\ Goto(c, "write")
       /\ UNCHANGED <<dbVars, request, answer>>
  ELSE Refuse(c)

PlanCreate(c) ==
  /\ pc[c] = "members"
  /\ Op(c) = "create"
  /\ LET r == request[c]
     IN Decide(c, [payer |-> r.payer, total |-> r.total, type |-> r.type,
                   splits |-> NoSplits],
               reconcileSplits(r.type, r.total, r.participants, members))

Create(c) ==
  /\ pc[c] = "write"
  /\ Op(c) = "create"
  /\ IF Exists
     THEN /\ expenses' = [e \in DOMAIN expenses \cup {c} |->
                            IF e = c THEN draft[c] ELSE expenses[e]]
          /\ Record(c, "EXPENSE_ADDED", c, draft[c].total, began[c])
          /\ End(c, "ok")
          /\ UNCHANGED <<members, payments, request, answer>>
     ELSE Fail(c)

Given(value, current) == IF value = Absent THEN current ELSE value

Merged(r, row) ==
  [payer |-> Given(r.payer, row.payer), total |-> Given(r.total, row.total),
   type |-> Given(r.type, row.type), splits |-> NoSplits]

PlanUpdate(c) ==
  /\ pc[c] = "members"
  /\ Op(c) = "update"
  /\ LET r == request[c]
         row == seen[c].expenses[r.expense]
         next == Merged(r, row)
     IN Decide(c, next,
               IF r.participants # Absent
               THEN reconcileSplits(next.type, next.total, r.participants, members)
               ELSE keptSplits(next.type, next.total, row.splits))

\* Mutation of Stored: only the fields of the request are written.
StoredFields(c, row) ==
  LET r == request[c]
  IN [payer |-> Given(r.payer, row.payer), total |-> Given(r.total, row.total),
      type |-> Given(r.type, row.type), splits |-> draft[c].splits]

\* All merged fields are written, the splits are replaced.
Stored(c, row) == draft[c]

\* tx.expense.update fails (P2025) when the row is gone.
Update(c) ==
  /\ pc[c] = "write"
  /\ Op(c) = "update"
  /\ LET id == request[c].expense
     IN IF id \in DOMAIN expenses
        THEN /\ expenses' = [expenses EXCEPT ![id] = Stored(c, @)]
             /\ Record(c, "EXPENSE_UPDATED", id, draft[c].total, began[c])
             /\ End(c, "ok")
             /\ UNCHANGED <<members, payments, request, answer>>
        ELSE Fail(c)

CheckDelete(c) ==
  /\ pc[c] = "members"
  /\ Op(c) = "delete"
  /\ IF request[c].user \in members THEN Read(c, seen[c], "write")
                                    ELSE Refuse(c)

\* Mutation of DeletedTotal: the amount comes from the earlier read.
TotalReadEarlier(c) == seen[c].expenses[request[c].expense].total

\* tx.expense.delete returns the row it deleted.
DeletedTotal(c) == expenses[request[c].expense].total

Delete(c) ==
  /\ pc[c] = "write"
  /\ Op(c) = "delete"
  /\ LET id == request[c].expense
     IN IF id \in DOMAIN expenses
        THEN /\ expenses' = Restrict(expenses, DOMAIN expenses \ {id})
             /\ Record(c, "EXPENSE_DELETED", id, DeletedTotal(c), now)
             /\ End(c, "ok")
             /\ UNCHANGED <<members, payments, request, answer>>
        ELSE Fail(c)

-----------------------------------------------------------------------------
(* settlement.service.ts *)

CheckSettle(c) ==
  /\ pc[c] = "members"
  /\ Op(c) = "settle"
  /\ LET r == request[c]
     IN IF r.payer # r.payee /\ {r.user, r.payer, r.payee} \subseteq members
        THEN Read(c, seen[c], "write")
        ELSE Refuse(c)

Settle(c) ==
  /\ pc[c] = "write"
  /\ Op(c) = "settle"
  /\ IF Exists
     THEN /\ payments' = [p \in DOMAIN payments \cup {c} |->
                            IF p = c THEN [payer |-> request[c].payer,
                                           payee |-> request[c].payee,
                                           amount |-> request[c].total]
                                     ELSE payments[p]]
          /\ Record(c, "SETTLEMENT_ADDED", Absent, request[c].total, began[c])
          /\ End(c, "ok")
          /\ UNCHANGED <<members, expenses, request, answer>>
     ELSE Fail(c)

\* getGroupBalances: members, expenses, their splits, settlements.
FindMembers(c) ==
  /\ pc[c] = "members"
  /\ Op(c) = "balances"
  /\ IF request[c].user \in members
     THEN Read(c, [seen[c] EXCEPT !.members = members], "expenses")
     ELSE Refuse(c)

FindExpenses(c) ==
  /\ pc[c] = "expenses"
  /\ Op(c) = "balances"
  /\ Read(c, [seen[c] EXCEPT !.expenses = RowsOf(Calls)], "splits")

\* The balances are shown for the members only, each converted on its own.
FindPayments(c) ==
  /\ pc[c] = "payments"
  /\ LET balances ==
           calculateBalances(seen[c].expenses, payments, seen[c].members)
     IN answer' = [answer EXCEPT ![c] =
                     [u \in seen[c].members |-> toNum(balances[u])]]
  /\ End(c, "ok")
  /\ UNCHANGED <<dbVars, request>>

-----------------------------------------------------------------------------
(* group.service.ts *)

\* isGroupMember, findGroupMember; users are never deleted, so that
\* findUserById finds them.
CheckMembership(c) ==
  /\ pc[c] = "membership"
  /\ Op(c) \in {"add", "remove"}
  /\ IF (Op(c) = "add") <=> (request[c].member \notin members)
     THEN Read(c, seen[c], "write")
     ELSE Refuse(c)

ChangeMembers(c, next, type, since) ==
  /\ members' = next
  /\ Record(c, type, Absent, Absent, since)
  /\ End(c, "ok")
  /\ UNCHANGED <<expenses, payments, request, answer>>

\* Mutation of Add: (groupId, userId) is not unique.
AddTwice(c) ==
  /\ pc[c] = "write"
  /\ Op(c) = "add"
  /\ Exists
  /\ ChangeMembers(c, members \cup {request[c].member}, "MEMBER_ADDED",
                   began[c])

\* The unique membership and the foreign key abort the transaction.
Add(c) ==
  /\ pc[c] = "write"
  /\ Op(c) = "add"
  /\ IF Exists /\ request[c].member \notin members
     THEN ChangeMembers(c, members \cup {request[c].member}, "MEMBER_ADDED",
                        began[c])
     ELSE Fail(c)

\* tx.groupMember.delete fails when the membership is gone.
Remove(c) ==
  /\ pc[c] = "write"
  /\ Op(c) = "remove"
  /\ IF request[c].member \in members
     THEN ChangeMembers(c, members \ {request[c].member}, "MEMBER_REMOVED",
                        now)
     ELSE Fail(c)

\* deleteGroup: everything of the group goes with it.
Dissolve(c) ==
  /\ pc[c] = "write"
  /\ Op(c) = "dissolve"
  /\ IF Exists
     THEN /\ members' = {}
          /\ expenses' = NoRows
          /\ payments' = NoRows
          /\ feed' = <<>>
          /\ End(c, "ok")
          /\ UNCHANGED <<now, request, answer>>
     ELSE Fail(c)

\* A statement fails or the process dies: an open transaction rolls back.
Abandon(c) == pc[c] \notin {"start"} \cup Ends /\ Fail(c)

\* Time passes.
Tick ==
  /\ now < LastTime
  /\ now' = now + 1
  /\ UNCHANGED <<members, expenses, payments, feed, request, pc, began, seen,
                 draft, answer>>

-----------------------------------------------------------------------------
Handle(c) ==
  \/ FindGroup(c) \/ FindExpense(c) \/ FindSplits(c)
  \/ PlanCreate(c) \/ Create(c) \/ PlanUpdate(c) \/ Update(c)
  \/ CheckDelete(c) \/ Delete(c) \/ CheckSettle(c) \/ Settle(c)
  \/ FindMembers(c) \/ FindExpenses(c) \/ FindPayments(c)
  \/ CheckMembership(c) \/ Add(c) \/ Remove(c) \/ Dissolve(c)
  \/ Abandon(c)

Next == Tick \/ \E c \in Calls : Handle(c)

Spec == Init /\ [][Next]_vars
-----------------------------------------------------------------------------
(* Properties *)

\* What the database and the handlers may hold.
AreSplits(splits) ==
  DOMAIN splits \subseteq Users /\ \A u \in DOMAIN splits : splits[u] \in Nat

IsExpense(row) ==
  /\ row \in [payer : Users, total : Amounts, type : SplitTypes,
             splits : {row.splits}]
  /\ AreSplits(row.splits)

AreExpenses(rows) ==
  DOMAIN rows \subseteq Calls /\ \A e \in DOMAIN rows : IsExpense(rows[e])

EventTypes == {"EXPENSE_ADDED", "EXPENSE_UPDATED", "EXPENSE_DELETED",
               "SETTLEMENT_ADDED", "MEMBER_ADDED", "MEMBER_REMOVED"}
Stages == {"start", "members", "membership", "splits", "expenses", "payments",
           "write"} \cup Ends

StoredTypeOK ==
  /\ members \in SUBSET Users
  /\ AreExpenses(expenses) /\ IsFiniteSet(DOMAIN expenses)
  /\ DOMAIN payments \subseteq Calls /\ IsFiniteSet(DOMAIN payments)
  /\ \A p \in DOMAIN payments :
       payments[p] \in [payer : Users, payee : Users, amount : Nat]
  /\ feed \in Seq([call : Calls, type : EventTypes,
                   expense : Optional(Calls), total : Optional(Nat),
                   at : Nat, done : Nat])
  /\ now \in Nat

HandlerTypeOK(c) ==
  /\ seen[c] \in [members : SUBSET Users, expenses : {seen[c].expenses}]
  /\ AreExpenses(seen[c].expenses)
  /\ pc[c] \in {"splits", "members"} /\ Op(c) = "update"
       => request[c].expense \in DOMAIN seen[c].expenses
  /\ pc[c] = "write" /\ Op(c) \in {"create", "update"} => IsExpense(draft[c])
  /\ answer[c] = Absent \/ DOMAIN answer[c] \subseteq Users

HandlersTypeOK ==
  /\ request \in [Calls -> Requests]
  /\ pc \in [Calls -> Stages]
  /\ began \in [Calls -> Nat]
  /\ DOMAIN seen = Calls /\ DOMAIN draft = Calls /\ DOMAIN answer = Calls
  /\ \A c \in Calls : HandlerTypeOK(c)

TypeOK == StoredTypeOK /\ HandlersTypeOK

(* "The sum of every generated split is guaranteed to equal the expense    *)
(* total exactly": for every stored expense, whatever updates raced on it, *)
(* and although an update computes splits from a row and from splits that  *)
(* it read at different moments.                                           *)
AddsUp(row) == /\ DOMAIN row.splits # {}
               /\ sumSplitAmounts(row.splits) = row.total

SplitsMatchTotals == \A e \in DOMAIN expenses : AddsUp(expenses[e])

\* What this rests on: an expense that somebody is about to write adds up,
\* unless it was deleted while the handler read it.  Then the splits may be
\* missing, and the update fails because the row is gone for good.
DraftsMatchTotals ==
  \A c \in Calls : pc[c] = "write" =>
    /\ Op(c) = "create" => AddsUp(draft[c])
    /\ Op(c) = "update" =>
         AddsUp(draft[c]) \/ request[c].expense \notin DOMAIN expenses

MissingSplitsMeanDeleted ==
  \A c \in Calls : pc[c] = "members" /\ Op(c) = "update" =>
    \/ DOMAIN seen[c].expenses[request[c].expense].splits # {}
    \/ request[c].expense \notin DOMAIN expenses

CreatedOnce ==
  /\ \A e \in DOMAIN expenses : pc[e] \in Ends
  /\ \A c \in Calls :
       pc[c] \in {"splits", "members", "write"} /\ Op(c) = "update"
         => pc[request[c].expense] \in Ends

IInv ==
  /\ TypeOK
  /\ SplitsMatchTotals
  /\ DraftsMatchTotals
  /\ MissingSplitsMeanDeleted
  /\ CreatedOnce

\* The events about an expense, and about the membership of a user.
EventsOn(e) == {i \in DOMAIN feed : feed[i].expense = e}
EventsOf(u) ==
  {i \in DOMAIN feed : /\ feed[i].type \in {"MEMBER_ADDED", "MEMBER_REMOVED"}
                       /\ request[feed[i].call].member = u}
Following(i, events) ==
  CHOOSE j \in events : j > i /\ \A k \in events : k > i => j <= k
IsLast(i, events) == \A j \in events : j <= i

\* Some addition or update of the expense carries this total, and any update
\* that is shown above it had begun before it was committed.
Tells(e, total) ==
  \E i \in EventsOn(e) :
    /\ feed[i].type # "EXPENSE_DELETED"
    /\ feed[i].total = total
    /\ \A j \in EventsOn(e) :
         feed[j].type = "EXPENSE_UPDATED" /\ feed[j].at > feed[i].at
           => feed[j].at <= feed[i].done

(* "So the feed remains a faithful audit trail", in the order in which it  *)
(* is shown (occurredAt): an expense exists exactly when it has an event   *)
(* and none of them is its deletion; it is added once, below everything    *)
(* else about it, and deleted at most once, above everything else; and its *)
(* present total, or the total that its deletion repeats, is that of the   *)
(* newest update or of one that overlapped with the newer ones.            *)
FeedTellsExpenses ==
  \A e \in Calls :
    /\ e \in DOMAIN expenses <=>
         /\ EventsOn(e) # {}
         /\ \A i \in EventsOn(e) : feed[i].type # "EXPENSE_DELETED"
    /\ \A i \in EventsOn(e), j \in EventsOn(e) :
         /\ i # j => feed[i].type # feed[j].type \/ feed[i].type = "EXPENSE_UPDATED"
         /\ feed[i].type = "EXPENSE_ADDED" => feed[i].at <= feed[j].at
         /\ feed[i].type = "EXPENSE_DELETED" => feed[j].at <= feed[i].at
    /\ e \in DOMAIN expenses => Tells(e, expenses[e].total)
    /\ \A i \in EventsOn(e) :
         feed[i].type = "EXPENSE_DELETED" => Tells(e, feed[i].total)

(* "A membership can never disappear without its audit trail": additions   *)
(* and removals of a user alternate, and the last one says whether the     *)
(* user is a member, also when two requests add or remove the same user.   *)
(* This is the order of the commits: an addition is dated before it, so    *)
(* that a removal and an addition that overlap may be shown the other way  *)
(* round.                                                                  *)
FeedTellsMembers ==
  \A u \in Users : \A i \in EventsOf(u) :
    IF IsLast(i, EventsOf(u))
    THEN feed[i].type = "MEMBER_ADDED" <=> u \in members
    ELSE feed[Following(i, EventsOf(u))].type # feed[i].type

\* Users who paid, owe, sent or received something.
Involved(rows, transfers) ==
  (UNION {{rows[e].payer} \cup DOMAIN rows[e].splits : e \in DOMAIN rows})
  \cup (UNION {{transfers[p].payer, transfers[p].payee} : p \in DOMAIN transfers})

Answers(c) == pc[c] = "payments" /\ pc'[c] = "ok"

(* The balances that getGroupBalances shows add up to zero when nothing    *)
(* changed while it read, everybody involved is still a member and no      *)
(* balance is too large for a Number to hold it exactly.                   *)
SettledBalancesAddUp ==
  [][\A c \in Calls :
       /\ Answers(c)
       /\ seen[c].expenses = expenses
       /\ Involved(expenses, payments) \subseteq seen[c].members
       /\ \A u \in seen[c].members :
            IsExact(calculateBalances(expenses, payments, seen[c].members)[u])
       => SumFunction(answer'[c]) = 0]_vars

(* README: "The sum of all amountMinorUnits values always equals zero."    *)
ShownBalancesAddUp ==
  \A c \in Calls : answer[c] # Absent => SumFunction(answer[c]) = 0
=============================================================================
