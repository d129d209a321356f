----------------------------- MODULE Operations -----------------------------
(* The rows that the pages of figures are computed from, and their totals.   *)
(*                                                                           *)
(* A moment is a number; every day has two, the early hours in which the UTC *)
(* date is still that of the day before, and the rest.  The code takes       *)
(* `today` from timezone.now().date(), a UTC date, and turns dates back into *)
(* moments with make_aware, in local time.                                   *)
EXTENDS Calendar

CONSTANTS
    Users,
    Accounts,
    Owner,      \* the user of each account
    Opening,    \* the balance each account was created with
    CreditCards,  \* the accounts of a credit type
    Categories

LocalDay(at) == at \div 2
UtcDay(at) == (at - 1) \div 2
StartOfDay(day) == 2 * day
EndOfDay(day) == 2 * day + 1

Moment == StartOfDay(Min(Day)) .. EndOfDay(Max(Day))

(* What a row may be: a transaction of either type, a receipt of either type,*)
(* a TransferMoneyLog, a deposit's interest, a Planning amount, a Budget.    *)
Income == {"income"}
Expense == {"expense"}
Kinds == {"income", "expense", "purchase", "return", "transfer", "interest",
          "plan", "limit"}

(* `to` is the account that gains; only a transfer has two accounts, both of *)
(* one user.  A deposit is of another type than a credit card.               *)
Row == {r \in [kind : Kinds, account : Accounts, to : Accounts, at : Moment,
               amount : Nat, category : Categories] :
            /\ IF r.kind = "transfer"
               THEN r.to # r.account /\ Owner[r.to] = Owner[r.account]
               ELSE r.to = r.account
            /\ r.kind = "interest" => r.account \notin CreditCards}

ASSUME OperationsAssumption ==
    /\ IsFiniteSet(Accounts) /\ IsFiniteSet(Categories)
    /\ CreditCards \subseteq Accounts
    /\ Owner \in [Accounts -> Users]
    /\ Opening \in [Accounts -> Int]

Total(S) == SumFunction([r \in S |-> r.amount])

OfKind(S, kinds) == {r \in S : r.kind \in kinds}

OfUsers(S, us) == {r \in S : Owner[r.account] \in us}

(* The rows from the first moment of a day to the last one of another.       *)
Between(S, first, last) ==
    {r \in S : r.at \in StartOfDay(first) .. EndOfDay(last)}

(* What the operations have made of an account's balance.                    *)
Gains == {"income", "return", "transfer", "interest"}
Losses == {"expense", "purchase", "transfer"}
Balance(a, S) ==
    Opening[a] + Total({r \in OfKind(S, Gains) : r.to = a})
               - Total({r \in OfKind(S, Losses) : r.account = a})

(* And of the balances of several accounts together.                         *)
Balances(as, S) == SumFunction([a \in as |-> Balance(a, S)])
=============================================================================
