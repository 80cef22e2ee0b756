-------------------------------- MODULE Money --------------------------------
(***************************************************************************)
(* The money helpers of the backend:                                       *)
(*   modules/expenses/split.util.ts      calculateEqualSplits, ...         *)
(*   modules/settlements/balance.util.ts calculateBalances                 *)
(*   modules/settlements/settlement.service.ts toNum                       *)
(*                                                                         *)
(* Amounts are BigInt minor units, so integers without a width.  The       *)
(* splits of an expense have distinct users and are a function from users  *)
(* to amounts; tables are functions from row ids to rows.                  *)
(***************************************************************************)
EXTENDS Integers, Sequences, Functions

CONSTANT Precision  \* up to here a Number holds every integer: 2^53

ASSUME PrecisionAssumption == Precision \in Nat \ {0}

Position(participants, user) ==
  CHOOSE i \in DOMAIN participants : participants[i] = user

\* Nobody shares: [], as the code's early return for zero participants.
calculateEqualSplits(total, participants) ==
  LET count == Len(participants)
      remainder == total % count
  IN [u \in Range(participants) |->
        total \div count
          + (IF Position(participants, u) <= remainder THEN 1 ELSE 0)]

sumSplitAmounts(splits) == SumFunction(splits)

\* What one row adds to the balance of a user.
When(condition, amount) == IF condition THEN amount ELSE 0

Share(splits, user) == IF user \in DOMAIN splits THEN splits[user] ELSE 0

CreditOfExpense(expense, user) ==
  When(expense.payer = user, expense.total) - Share(expense.splits, user)

\* Mutation of CreditOfSettlement: the receiver is not debited.
SenderCreditOnly(settlement, user) ==
  When(settlement.payer = user, settlement.amount)

CreditOfSettlement(settlement, user) ==
  When(settlement.payer = user, settlement.amount)
    - When(settlement.payee = user, settlement.amount)

calculateBalances(expenses, settlements, users) ==
  [u \in users |->
     SumFunction([e \in DOMAIN expenses |-> CreditOfExpense(expenses[e], u)])
     + SumFunction([s \in DOMAIN settlements |->
                      CreditOfSettlement(settlements[s], u)])]

\* The distance between neighbouring Numbers at n, a power of two.
Grain[n \in Nat] ==
  IF n <= Precision THEN 1 ELSE 2 * Grain[(n + 1) \div 2]

\* The nearest Number, and of two that are as near the even one.
Nearest(n) ==
  LET grain == Grain[n]
      steps == n \div grain
      rest == 2 * (n % grain)
      up == rest > grain \/ (rest = grain /\ steps % 2 = 1)
  IN grain * (IF up THEN steps + 1 ELSE steps)

IsExact(value) == -Precision <= value /\ value <= Precision

\* Number(bigint)
toNum(value) ==
  IF IsExact(value) THEN value
  ELSE IF value > 0 THEN Nearest(value) ELSE -Nearest(-value)
=============================================================================
