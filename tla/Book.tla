-------------------------------- MODULE Book --------------------------------
(* What the ledger promises, without accounts' types, archives, requests or  *)
(* locks: a book of movements.  A balance is what the owner declared plus    *)
(* the effects of the movements now on the books, whatever the order in      *)
(* which movements are posted, changed and struck out.                       *)
EXTENDS Integers, Functions

CONSTANTS Accounts, Movements

VARIABLES
    balance,   \* what each account shows
    declared,  \* what its owner stated, no movement accounting for it
    effects    \* what each movement did to each account

bookVars == <<balance, declared, effects>>

(* Books opened on any balances and any movements.                           *)
Init ==
    /\ balance \in [Accounts -> Int]
    /\ effects \in [Movements -> [Accounts -> Int]]

(* Movement m is posted, changed or struck out, and every balance moves by   *)
(* exactly the change of its effect.                                         *)
Repost(m) ==
    /\ effects'[m] \in [Accounts -> Int]
    /\ effects' = [effects EXCEPT ![m] = effects'[m]]
    /\ balance' = [a \in Accounts |->
                      balance[a] + (effects'[m][a] - effects[m][a])]
    /\ UNCHANGED declared

(* The owner states the balance of account a.                                *)
Redeclare(a) ==
    /\ balance'[a] \in Int
    /\ balance' = [balance EXCEPT ![a] = balance'[a]]
    /\ declared' = [declared EXCEPT ![a] = @ + (balance'[a] - balance[a])]
    /\ UNCHANGED effects

(* Movement m is rewritten and no balance follows: what it now fails to      *)
(* account for is left as if the owner had declared it.                      *)
Misstate(m) ==
    /\ effects'[m] \in [Accounts -> Int]
    /\ effects' = [effects EXCEPT ![m] = effects'[m]]
    /\ declared' = [a \in Accounts |->
                       declared[a] - (effects'[m][a] - effects[m][a])]
    /\ UNCHANGED balance

(* Account a leaves the books with all that was said of it.                  *)
Strike(a) ==
    /\ balance' = [balance EXCEPT ![a] = 0]
    /\ declared' = [declared EXCEPT ![a] = 0]
    /\ effects' = [m \in Movements |-> [effects[m] EXCEPT ![a] = 0]]

Next ==
    \/ \E m \in Movements : Repost(m) \/ Misstate(m)
    \/ \E a \in Accounts : Redeclare(a) \/ Strike(a)

Spec == Init /\ [][Next]_bookVars

(* Every balance is what was declared plus the effects on the books.         *)
Explained ==
    \A a \in Accounts :
        balance[a] = declared[a] + SumFunction([m \in Movements |-> effects[m][a]])
=============================================================================
