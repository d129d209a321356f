------------------------------ MODULE MCLedger ------------------------------
(* Two accounts, two transactions, one receipt, one transfer log and two     *)
(* concurrent requests.                                                      *)
EXTENDS Ledger, TLC

Symmetry ==
    Permutations(Accounts) \cup Permutations(TxIds) \cup Permutations(Requests)

(* Bound: two movements at a time, one while a second request is under way.  *)
FewMovements ==
    Cardinality({p \in PostingIds : postings[p] # None})
        + Cardinality({l \in LogIds : transferLogs[l] # None})
        <= IF \E q \in Requests : Holds(q, "idle") THEN 2 ELSE 1
=============================================================================
