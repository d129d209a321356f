------------------------- MODULE MCPendingReceipts -------------------------
(* A small instance of the pending receipts.                                *)
EXTENDS PendingReceipts

(* Bound: once there has been a second row, no row is late or expired, no    *)
(* cleanup runs and no second task starts; the first row meets them all.     *)
PairsAreYoung ==
    created = 2 =>
        /\ cleanup.phase = "idle"
        /\ \A r \in DOMAIN rows :
              ~rows[r].late /\ ~rows[r].expired /\ rows[r].task <= 1
=============================================================================
