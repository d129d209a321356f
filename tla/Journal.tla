------------------------------ MODULE Journal ------------------------------
(* What the deposit service promises of money: a journal of entries that is  *)
(* only ever appended to, and balances that move by exactly the entries      *)
(* appended with them.  A mistake is struck by a further entry, never by     *)
(* changing an old one.                                                      *)
EXTENDS Integers, Sequences

CONSTANTS Accounts

VARIABLES
    balance,  \* what each account shows
    entries   \* what each entry did to each account, oldest first

journalVars == <<balance, entries>>

Init ==
    /\ balance \in [Accounts -> Int]
    /\ entries = <<>>

Neutral(entry) == \A a \in Accounts : entry[a] = 0

(* One entry is appended and the balances follow it.                         *)
Record(entry) ==
    /\ entries' = Append(entries, entry)
    /\ balance' = [a \in Accounts |-> balance[a] + entry[a]]

(* Two entries are appended together, or neither.                            *)
RecordBoth(first, second) ==
    /\ entries' = entries \o <<first, second>>
    /\ balance' = [a \in Accounts |-> balance[a] + (first[a] + second[a])]

(* Account a, empty till now, enters the books with what the neutral entry   *)
(* states and does not move.                                                 *)
Enter(a, entry) ==
    /\ balance[a] = 0
    /\ Neutral(entry)
    /\ entries' = Append(entries, entry)
    /\ balance' = [balance EXCEPT ![a] = balance'[a]]

(* What is appended is read off the end of the new journal.                  *)
Next ==
    LET n == Len(entries') IN
    /\ n > 0
    /\ \/ Record(entries'[n])
       \/ n > 1 /\ RecordBoth(entries'[n - 1], entries'[n])
       \/ \E a \in Accounts : Enter(a, entries'[n])

Spec == Init /\ [][Next]_journalVars
=============================================================================
