------------------------------ MODULE Balances ------------------------------
(* The account table and the one service that moves money through it.        *)
(* Every other component (transactions, transfers, receipts, deposits) calls *)
(* BalanceService.apply_account_deltas, which locks the rows it changes,     *)
(* rejects archived and missing accounts, refuses to spend what an account   *)
(* does not hold and writes all the new balances in one transaction.  The    *)
(* row locks make the call atomic, so it is one conjunct of an action here.  *)
EXTENDS Integers

CONSTANTS
    Accounts,      \* primary keys of the account table
    LogIds,        \* primary keys of the transfer_money_log table
    BalanceLimit,  \* largest magnitude of the numeric(20, 2) balance column
    None           \* an absent row, and a foreign key that is NULL

ASSUME BalanceLimitAssumption == BalanceLimit \in Nat \ {0}

VARIABLES
    balance,      \* Account.balance of each row; 0 where there is no row
    kind,         \* "none" (no row), "regular" (any other type) or "deposit"
    archived,     \* Account.archived_at is set
    transferLogs  \* the transfer_money_log rows

accountVars == <<balance, kind, archived, transferLogs>>

Balance == -BalanceLimit .. BalanceLimit
Amount == 1 .. BalanceLimit
Kinds == {"none", "regular", "deposit"}

(* A foreign key with on_delete=SET_NULL.                                    *)
AccountRef == Accounts \cup {None}

TransferLog == [from : AccountRef, to : AccountRef, amount : Amount]

(* An absent row or key is no row and no key.                                *)
ASSUME NoneAssumption == None \notin Accounts /\ None \notin TransferLog

BalancesTypeOK ==
    /\ balance \in [Accounts -> Balance]
    /\ kind \in [Accounts -> Kinds]
    /\ archived \in [Accounts -> BOOLEAN]
    /\ transferLogs \in [LogIds -> TransferLog \cup {None}]

-----------------------------------------------------------------------------
(* Deltas: the dict a caller hands to apply_account_deltas, as the total     *)
(* function that is 0 on the accounts the dict leaves out.                   *)

Deltas == [Accounts -> Int]

NoDelta == [a \in Accounts |-> 0]

Delta(account, amount) ==
    [a \in Accounts |-> IF a = account THEN amount ELSE 0]

Plus(d, e) == [a \in Accounts |-> d[a] + e[a]]

Minus(d, e) == [a \in Accounts |-> d[a] - e[a]]

(* A dict literal with two keys: equal keys leave the value written last.    *)
PairDelta(first, x, second, y) ==
    [a \in Accounts |-> IF a = second THEN y
                        ELSE IF a = first THEN x ELSE 0]

(* available_for_operations and available_for_regular_operations.            *)
Exists(a) == kind[a] # "none"

AvailableForOperations(a) == Exists(a) /\ ~archived[a]

AvailableForRegularOperations_WithDeposits(a) == AvailableForOperations(a)

AvailableForRegularOperations(a) ==
    AvailableForOperations(a) /\ kind[a] # "deposit"

(* validate_account_balance: money taken out must be there.                  *)
HasFunds(a, delta) == delta < 0 => -delta <= balance[a]

CanApply_NoFundsCheck(d) ==
    \A a \in Accounts :
        d[a] # 0 => /\ AvailableForOperations(a)
                    /\ balance[a] + d[a] \in Balance

CanApply(d) ==
    \A a \in Accounts :
        d[a] # 0 => /\ AvailableForOperations(a)
                    /\ HasFunds(a, d[a])
                    /\ balance[a] + d[a] \in Balance

ApplyAccountDeltas(d) ==
    /\ CanApply(d)
    /\ balance' = Plus(balance, d)

-----------------------------------------------------------------------------
(* The effect on the balances of a transfer_money_log row: a side whose      *)
(* account was deleted took its money with it.                               *)
LogEffect(log) ==
    IF log = None THEN NoDelta
    ELSE Minus(Delta(log.to, log.amount), Delta(log.from, log.amount))

(* transfer_logs' foreign keys when account a is deleted (SET_NULL).         *)
Forget(a, ref) == IF ref = a THEN None ELSE ref

LogsWithout(a) ==
    [l \in LogIds |->
        IF transferLogs[l] = None THEN None
        ELSE [transferLogs[l] EXCEPT !.from = Forget(a, @),
                                     !.to = Forget(a, @)]]
=============================================================================
