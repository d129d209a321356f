--------------------------- MODULE MCStatements ---------------------------
(* A small instance of the bank statements.                                  *)
EXTENDS Statements

(* Bound: two files are imported side by side without retries, deadlines or  *)
(* a second waiting row; one file alone meets them all.                      *)
PairsAreYoung ==
    (\A f \in Files : uploads[f].status # "absent") =>
        /\ \A f \in Files : ~uploads[f].expired /\ imports[f].retries = 0
        /\ Len(rows) <= 1
=============================================================================
