----------------------------- MODULE MCDeposits -----------------------------
(* Small instances of the deposits.                                          *)
EXTENDS Deposits, FiniteSets, TLC

Symmetry == Permutations(Accounts) \cup Permutations(Requests)

(* Bound: at most three of the events are original ones, which leaves the    *)
(* rest of the journal to what compensates them.                             *)
FewOriginals ==
    Cardinality({i \in DOMAIN events : events[i].reverses = 0}) <= 3

(* Bound: one account with one request goes through three terms and five     *)
(* events in three days; a second account, or a second request under way,    *)
(* meets one term and three events on the first day.                         *)
OneDay ==
    /\ today = 1 /\ Len(events) <= 3
    /\ \A a \in Accounts : \A i \in DOMAIN terms[a] : i = 1 /\ terms[a][i].matures = 1
    /\ \A i \in DOMAIN events : events[i].on <= 1

LongAloneOrShort ==
    \/ /\ \E a \in Accounts : ~Exists(a)
       /\ Cardinality({q \in Requests : ~Holds(q, "idle")}) <= 1
    \/ OneDay

(* Bound: one of the accounts stays a regular one, and nothing but closures  *)
(* and reversals follows the event that began the deposit.                   *)
OneDeposit ==
    /\ \E a \in Accounts : kind[a] = "regular"
    /\ \A i \in DOMAIN events :
          i > 1 => \/ events[i].reverses # 0
                  \/ events[i].type \in ClosureTypes \cup {"final"}
=============================================================================
