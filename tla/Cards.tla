-------------------------------- MODULE Cards -------------------------------
(* Credit cards: debt, grace period and payment plan.                        *)
(*                                                                           *)
(* CreditCalculationService tells a card's debt and the end of its grace     *)
(* period by the rules of the card's bank; summary_statistics_service builds *)
(* a plan of payments by month, and the accounts page sums its last column.  *)
EXTENDS Operations

CONSTANTS
    Bank,            \* the code of each card's bank
    CreditLimit,     \* limit_credit of each card
    GraceMonths,     \* GRACE_PERIOD_MONTHS_SBERBANK
    GraceDays        \* GRACE_PERIOD_DAYS_RAIFFEISENBANK

ASSUME CardsAssumption ==
    /\ Bank \in [CreditCards -> {"Sberbank", "Raiffeisenbank", "other"}]
    /\ CreditLimit \in [CreditCards -> Nat]
    /\ GraceMonths \in Nat /\ GraceDays \in Nat

NotNegative(x) == Max({x, 0})

Purchases(c, S) ==
    {r \in OfKind(S, {"expense", "purchase"}) : r.account = c}
Repayments(c, S) ==
    {r \in OfKind(S, {"income", "return", "transfer"}) : r.to = c}

(* get_credit_card_debt and get_credit_card_payments, of the rows of a period*)
CardDebt(c, S) ==
    NotNegative(Total(Purchases(c, S)) - Total(Repayments(c, S)))
CardPayments(c, S) == Total(Repayments(c, S))

InMonth(S, m) == Between(S, MonthStart(m), MonthEnd(m))

(* _find_first_purchase_in_month.                                            *)
FirstPurchase(c, m, S) == Min({r.at : r \in Purchases(c, InMonth(S, m))})

(* calculate_grace_period of the three calculators.  A moment read from the  *)
(* database has the UTC date.                                                *)
GraceEnd(c, m, S) ==
    CASE Bank[c] = "Sberbank" -> EndOfDay(MonthEnd(m + GraceMonths))
      [] Bank[c] = "Raiffeisenbank" /\ Purchases(c, InMonth(S, m)) # {} ->
            EndOfDay(UtcDay(FirstPurchase(c, m, S)) + GraceDays)
      [] OTHER -> EndOfDay(MonthEnd(m))

(* _calculate_debt_info: debt of the month and what was paid since its start *)
(* until the end of grace, which is 0 for a bank without rules.              *)
PaidInGrace(c, m, S) ==
    IF Bank[c] = "other" THEN 0
    ELSE CardPayments(c, {r \in S : r.at \in StartOfDay(MonthStart(m))
                                             .. GraceEnd(c, m, S)})

DaysLeft(end, now) ==
    IF now <= end THEN LocalDay(end) - UtcDay(now) ELSE 0

(* calculate_grace_period_info.                                              *)
GraceInfo(c, m, S, now) ==
    LET debt == CardDebt(c, InMonth(S, m))
        final == NotNegative(debt - PaidInGrace(c, m, S))
        end == GraceEnd(c, m, S)
    IN  [debt |-> debt, final |-> final, graceEnd |-> end,
         isOverdue |-> now > end /\ final > 0,
         daysLeft |-> DaysLeft(end, now)]

-----------------------------------------------------------------------------
(* The payment plan of the statistics page and of the accounts page.         *)

(* `bank == 'SBERBANK'`: a Bank row is compared with the text of a code, and *)
(* no row equals a text.                                                     *)
BankEquals(c, code) == FALSE

(* _calculate_grace_period_end.  The branch of Raiffeisenbank ends as        *)
(* GraceEnd does.                                                            *)
PlanDue(c, m, S) ==
    CASE BankEquals(c, "Sberbank") -> EndOfDay(MonthEnd(m + GraceMonths))
      [] BankEquals(c, "Raiffeisenbank") -> GraceEnd(c, m, S)
      [] OTHER -> EndOfDay(MonthEnd(m))

(* A faulty form: returns do not lower the debt of their month.              *)
MonthDebt_NoReturns(c, m, S) == Total(Purchases(c, InMonth(S, m)))

(* _build_single_card_month.  S is what the page's period and filter let by. *)
MonthDebt(c, m, S) ==
    Total(Purchases(c, InMonth(S, m)))
        - Total({r \in OfKind(InMonth(S, m), {"return"}) : r.account = c})

CardMonth(c, m, S, now) ==
    LET debt == MonthDebt(c, m, S)
        due == PlanDue(c, m, S)
    IN  [month |-> m, debt |-> debt, due |-> due,
         isOverdue |-> now > due /\ debt > 0, daysLeft |-> DaysLeft(due, now)]

(* _collect_card_payments: no returns.                                       *)
CollectedPayments(c, S) ==
    {r \in OfKind(S, {"income", "transfer"}) : r.to = c}

(* _pre_period_debt_for_card: S is of the page's period, A is everything.    *)
PreDebt(c, months, S, A) ==
    IF CreditLimit[c] = 0 THEN 0
    ELSE NotNegative(CreditLimit[c] - Balance(c, A)
                     + Total(CollectedPayments(c, S))
                     - SumFunction([e \in months |-> e.debt]))

(* _apply_payments_to_months: payments meet the older debts first.           *)
PaidOf(e, months, payments, before) ==
    LET inTime == Total({p \in payments : p.at <= e.due})
        earlier == {o \in months : o.due < e.due}
        prior == before + SumFunction([o \in earlier |-> o.debt])
    IN  Min({NotNegative(inTime - prior), e.debt})

(* _build_payment_schedule, with what remains of each month.                 *)
PaymentPlan(c, months, S, A) ==
    LET before == PreDebt(c, months, S, A)
        paid(e) == PaidOf(e, months, CollectedPayments(c, S), before)
    IN  {[month |-> e.month, debt |-> e.debt, paid |-> paid(e),
          remaining |-> e.debt - paid(e), due |-> e.due,
          isOverdue |-> e.isOverdue, daysLeft |-> e.daysLeft] :
            e \in {x \in months : x.debt > 0}}

Remaining(plan) == SumFunction([e \in plan |-> e.remaining])

(* _credit_card_utilization_chart, in hundredths of the limit.               *)
Utilization(c, months) ==
    {[month |-> e.month,
      value |-> IF CreditLimit[c] = 0 THEN 0
                ELSE (NotNegative(e.debt) * 100) \div CreditLimit[c]] :
        e \in months}

(* _credit_cards_summary, of the plans of all cards together.                *)
CardsSummary(plans) ==
    LET owing == {e \in plans : e.remaining > 0}
        expiring == {e \in owing : ~e.isOverdue /\ e.daysLeft \in 1 .. 7}
    IN  [overdue |-> Cardinality({e \in owing : e.isOverdue}),
         expiring |-> Cardinality(expiring), total |-> Remaining(owing)]
=============================================================================
