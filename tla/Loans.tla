-------------------------------- MODULE Loans -------------------------------
(* Loans and their payment schedules.                                        *)
(*                                                                           *)
(* Amounts are whole kopecks.  The code computes with binary floats and      *)
(* rounds to kopecks; here a monthly rate is a fraction and every rounding   *)
(* is of the exact value, halves to the even neighbour.                      *)
EXTENDS Figures

CONSTANTS
    RatePart, RateWhole  \* the monthly rate is RatePart / RateWhole

ASSUME LoansAssumption == RatePart \in Nat \ {0} /\ RateWhole \in Nat \ {0}

LoanKinds == {"Annuity", "Differentiated"}

(* A loan and the account made with it: "created" before its PaymentSchedule *)
(* rows are stored, "deleted" when the account alone is left.                *)
Loan == [user : Users, day : Day, amount : Nat \ {0}, months : Nat \ {0},
         kind : LoanKinds, status : {"created", "scheduled", "deleted"}]

Line == [month : Nat, payment : Int, interest : Int, principal : Int,
         balance : Nat]

(* round(n / d, 2) of Python.                                                *)
Rounded(n, d) ==
    LET floor == n \div d
        twice == 2 * (n - d * floor)
    IN  IF twice > d \/ (twice = d /\ floor % 2 = 1) THEN floor + 1 ELSE floor

Power(base, n) ==
    LET p[i \in 0 .. n] == IF i = 0 THEN 1 ELSE base * p[i - 1] IN p[n]

(* The equal payment: r (1 + r)^n / ((1 + r)^n - 1) of the amount.           *)
AnnuityPayment(l) ==
    LET grown == Power(RateWhole + RatePart, l.months)
    IN  Rounded(l.amount * RatePart * grown,
                RateWhole * (grown - Power(RateWhole, l.months)))

Interest(owed, over) == Rounded(owed * RatePart, RateWhole * over)

(* What is owed after the first i payments, each of the rounded amount.      *)
Owed(l) ==
    LET owed[i \in 0 .. l.months - 1] ==
            IF i = 0 THEN l.amount
            ELSE owed[i - 1] - (AnnuityPayment(l) - Interest(owed[i - 1], 1))
    IN  owed

(* A faulty form: the last payment is as large as the others.                *)
AnnuityLine_EqualLast(l, i) ==
    LET owed == Owed(l)[i - 1]
        principal == AnnuityPayment(l) - Interest(owed, 1)
    IN  [month |-> i, payment |-> AnnuityPayment(l),
         interest |-> Interest(owed, 1), principal |-> principal,
         balance |-> NotNegative(owed - principal)]

(* calculate_annuity_schedule: the last payment settles what is left.        *)
AnnuityLine(l, i) ==
    LET owed == Owed(l)[i - 1]
        interest == Interest(owed, 1)
        principal == AnnuityPayment(l) - interest
    IN  IF i < l.months
        THEN [month |-> i, payment |-> AnnuityPayment(l), interest |-> interest,
              principal |-> principal, balance |-> NotNegative(owed - principal)]
        ELSE [month |-> i, interest |-> interest, principal |-> owed,
              payment |-> Rounded(owed * (RateWhole + RatePart), RateWhole),
              balance |-> 0]

(* calculate_differentiated_schedule: nothing rounded is carried over.       *)
DifferentiatedLine(l, i) ==
    LET owed == l.amount * (l.months - i + 1)     \* over l.months
    IN  [month |-> i,
         payment |-> Rounded(l.amount * RateWhole + owed * RatePart,
                             RateWhole * l.months),
         interest |-> Interest(owed, l.months),
         principal |-> Rounded(l.amount, l.months),
         balance |-> Rounded(owed - l.amount, l.months)]

Schedule(l) ==
    [i \in 1 .. l.months |-> IF l.kind = "Annuity" THEN AnnuityLine(l, i)
                             ELSE DifferentiatedLine(l, i)]

(* _persist_schedule: each date is a month after the one before it, so that  *)
(* a day lost to a short month stays lost.                                   *)
PaymentDay(l, i) ==
    LET day[n \in 0 .. i] == IF n = 0 THEN l.day ELSE AddMonths(day[n - 1], 1)
    IN  day[i]

(* The stored rows of a set of loans.                                        *)
ScheduleRows(ls) ==
    UNION {{[loan |-> l, day |-> PaymentDay(l, i),
             payment |-> Schedule(l)[i].payment] : i \in 1 .. l.months} :
        l \in {x \in ls : x.status = "scheduled"}}

(* The account holds the whole amount: payments made move no balance.        *)
Lent(ls) == SumFunction([l \in ls |-> l.amount])

(* calculate_sum_monthly_payment; the loan page subtracts the same.          *)
Overpayment(l) ==
    LET stored == IF l.status = "scheduled" THEN 1 .. l.months ELSE {}
    IN  SumFunction([i \in stored |-> Schedule(l)[i].payment]) - l.amount
=============================================================================
