---------------------------- MODULE MCForecasts -----------------------------
(* A small calendar and the terms that meet its edges.                       *)
EXTENDS Forecasts, TLC

(* Months of three, two and three days.                                      *)
Months == <<3, 2, 3>>

T(opened, matures, start, end, schedule, custom, convention) ==
    [opened |-> opened, matures |-> matures, startIncluded |-> start,
     endIncluded |-> end, schedule |-> schedule, custom |-> custom,
     convention |-> convention]

(* A monthly term whose anchor day is clamped, two with payouts that meet on *)
(* one working day, one paid before its last day, one with a date past       *)
(* maturity, and one too short for its schedule.                             *)
MCTerms ==
    {T(3, 8, TRUE, FALSE, "monthly", {}, "none"),
     T(1, 5, TRUE, TRUE, "monthly", {}, "following"),
     T(1, 7, FALSE, TRUE, "custom", {4, 5}, "following"),
     T(1, 6, TRUE, FALSE, "maturity", {}, "preceding"),
     T(1, 6, TRUE, TRUE, "custom", {4, 8}, "none"),
     T(2, 2, TRUE, TRUE, "monthly", {}, "none")}

(* Bounds: the rate changes from 1 to 2; two rows are confirmed; while a     *)
(* rebuild on request is under way one row is, and either the journal has    *)
(* one event more than the opening or the rate has changed.                  *)
Few ==
    /\ \A i \in DOMAIN rates : rates[i].rate = i
    /\ Cardinality(DOMAIN lines \ Unconfirmed) <= IF slow = Idle THEN 2 ELSE 1
    /\ slow # Idle => Len(events) + Len(rates) <= 3
=============================================================================
