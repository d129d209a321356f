------------------------------- MODULE Figures -------------------------------
(* The figures of the pages: statistics, dashboard, reports, profile and the *)
(* balance trend, each computed by code of its own from the same rows.       *)
(* Currencies, names, searches, pages of tables and the gross, withholding   *)
(* and adjustment parts of an interest amount are left out.                  *)
EXTENDS Cards

CONSTANTS
    StatMonths,   \* months of the default statistics period, '6' in the code
    TrendDays,    \* days of the balance trend, 30 in the code
    TopLimit,     \* TOP_CATEGORIES_LIMIT
    Threshold,    \* alert_threshold of a budget, in percent
    Whole         \* in place of a category: a budget of all categories

ASSUME FiguresAssumption ==
    /\ StatMonths \in Nat \ {0, 1} /\ TrendDays \in Nat /\ TopLimit \in Nat
    /\ Threshold \in 1 .. 100 /\ Whole \in Categories

SumOf(kinds, S) == Total(OfKind(S, kinds))
Figure(S) == [income |-> SumOf({"income"}, S), expenses |-> SumOf({"expense"}, S)]

(* `today` of the statistics services and of the KPIs.                       *)
Today(now) == UtcDay(now)
ThisMonth(now) == MonthOf(Today(now))

-----------------------------------------------------------------------------
(* The detailed statistics and the dashboard's summary.                      *)

StatRange(now) == ThisMonth(now) - StatMonths + 1 .. ThisMonth(now)
StatStart(now) == MonthStart(ThisMonth(now) - StatMonths + 1)
InPeriod(S, now) == Between(S, StatStart(now), Today(now))

(* _planning_amounts_by_month calls date() on what TruncMonth makes of a     *)
(* DateField, which is a date already: one plan and there is no page.        *)
PlansBreak(S, now) == OfKind(InPeriod(S, now), {"plan"}) # {}

(* _six_months_data; without plans the deviation is the savings.             *)
MonthData(m, S, now) ==
    LET month == Figure(InMonth(InPeriod(S, now), m))
        sofar == Figure(Between(S, Min(Day), Min({MonthEnd(m), Today(now)})))
    IN  [month |-> m, income |-> month.income, expenses |-> month.expenses,
         savings |-> month.income - month.expenses,
         balance |-> sofar.income - sofar.expenses]
MonthsData(S, now) == {MonthData(m, S, now) : m \in StatRange(now)}

(* _budgets_data: a member's budget is measured with every member's expenses.*)
BudgetData(b, S) ==
    LET month == MonthOf(LocalDay(b.at))
        actual == Total({r \in OfKind(InMonth(S, month), {"expense"}) :
                            b.category \in {Whole, r.category}})
        usage == IF b.amount = 0 THEN 0
                 ELSE (2000 * actual + b.amount) \div (2 * b.amount)
    IN  [month |-> month, category |-> b.category, actual |-> actual,
         overLimit |-> usage >= 1000,
         nearLimit |-> usage >= 10 * Threshold /\ usage < 1000]
BudgetsData(S, now) ==
    {BudgetData(b, S) : b \in {r \in OfKind(S, {"limit"}) :
                                MonthOf(LocalDay(r.at)) \in StatRange(now)}}

(* _top_categories_qs.  Of categories with equal totals any may be left out. *)
CategoryTotal(c, S) == Total({r \in S : r.category = c})
TopCategories(kind, S) ==
    LET rows == OfKind(S, {kind})
        all == {r.category : r \in rows}
    IN  CHOOSE top \in SUBSET all :
            /\ Cardinality(top) = Min({TopLimit, Cardinality(all)})
            /\ \A c \in top, d \in all \ top :
                    CategoryTotal(c, rows) >= CategoryTotal(d, rows)

(* _top_categories_with_comparison: the days before the period, as many, and *)
(* nothing of a category that was not at the top then.                       *)
TopWithComparison(kind, S, now) ==
    LET current == InPeriod(S, now)
        previous == Between(S, 2 * StatStart(now) - Today(now) - 1,
                            StatStart(now) - 1)
        before == TopCategories(kind, previous)
    IN  {[category |-> c, total |-> CategoryTotal(c, OfKind(current, {kind})),
          previous |-> IF c \in before
                       THEN CategoryTotal(c, OfKind(previous, {kind})) ELSE 0] :
            c \in TopCategories(kind, current)}

(* _build_chart: rows are summed by moment, and of the moments of one date   *)
(* dict(zip(...)) keeps the last.                                            *)
ChartDay(kind, day, S) ==
    LET rows == {r \in OfKind(S, {kind}) : UtcDay(r.at) = day}
    IN  Total({r \in rows : \A o \in rows : o.at <= r.at})
ChartDays(S) ==
    LET days == {UtcDay(r.at) : r \in OfKind(S, {"income", "expense"})}
    IN  IF Cardinality(days) = 1 THEN days \cup {Min(days) - 1} ELSE days
Chart(S, now) ==
    {[day |-> d, income |-> ChartDay("income", d, InPeriod(S, now)),
      expenses |-> ChartDay("expense", d, InPeriod(S, now))] :
        d \in ChartDays(InPeriod(S, now))}

(* build_cashflow_forecast, StatMonths times; its corridor is left out.      *)
(* lent is on accounts that no row moves, those of the loans.                *)
NetFlow(m, S) ==
    LET month == Figure(InMonth(S, m)) IN month.income - month.expenses
CashflowForecast(as, lent, S, now) ==
    LET balance == lent + Balances(as, S)
        flow == SumFunction([m \in StatRange(now) |-> NetFlow(m, InPeriod(S, now))])
    IN  [i \in 1 .. StatMonths |-> StatMonths * balance + i * flow]

(* _credit_cards_block and compute_total_payment_schedule_debt.              *)
CardMonths(c, S, now) ==
    {CardMonth(c, m, InPeriod(S, now), now) : m \in StatRange(now)}
CardPlan(c, S, now) ==
    PaymentPlan(c, CardMonths(c, S, now), InPeriod(S, now), S)
CardBlock(c, S, now) ==
    [card |-> c, debtNow |-> CardDebt(c, S),
     limitLeft |-> CreditLimit[c] - CardDebt(c, S),
     grace |-> GraceInfo(c, ThisMonth(now), S, now),
     plan |-> CardPlan(c, S, now),
     utilization |-> Utilization(c, CardMonths(c, S, now))]
TotalPlanDebt(cards, S, now) ==
    SumFunction([c \in cards |-> Remaining(CardPlan(c, S, now))])

(* build_payment_calendar.  lines are the schedule rows of the loans: stored *)
(* at local midnight, chosen by local date and shown by UTC date.            *)
PaymentCalendar(cards, lines, S, now) ==
    LET ahead == Today(now) .. AddMonths(Today(now), StatMonths)
    IN  UNION {{[day |-> LocalDay(e.due), of |-> c, amount |-> e.remaining] :
                    e \in {p \in CardPlan(c, S, now) :
                            p.remaining > 0 /\ LocalDay(p.due) \in ahead}} :
                c \in cards}
        \cup {[day |-> UtcDay(StartOfDay(l.day)), of |-> l.loan,
               amount |-> l.payment] : l \in {x \in lines : x.day \in ahead}}

(* _statistics_alerts, without their wording and before the cut to ten.      *)
Alerts(cards, S, now) ==
    LET month == Figure(Between(S, MonthStart(ThisMonth(now)), Today(now)))
        owing(c) == {e \in CardPlan(c, S, now) : e.remaining > 0}
    IN  {<<"budget", b.category, b.month, b.overLimit>> :
            b \in {x \in BudgetsData(S, now) : x.overLimit \/ x.nearLimit}}
        \cup UNION {{<<"card", c, e.month, e.isOverdue>> :
                        e \in {x \in owing(c) :
                                x.isOverdue \/ x.daysLeft \in 1 .. 7}} :
                    c \in cards}
        \cup {<<"month", x>> :
                x \in {month.expenses - month.income} \cap (Nat \ {0})}

-----------------------------------------------------------------------------
(* The figures of a month, by five services.                                 *)

(* get_dashboard_month_kpis and budget_charts with period 'm': the whole     *)
(* local month and the deposits' interest in it.                             *)
WithInterest(f, S) ==
    [f EXCEPT !.income = @ + SumOf({"interest"}, S)]
LocalMonth(S, now) == InMonth(S, MonthOf(LocalDay(now)))
MonthKpis(S, now) ==
    LET month == LocalMonth(S, now)
    IN  [figure |-> WithInterest(Figure(month), month),
         top |-> Max({CategoryTotal(c, OfKind(month, {"expense"})) :
                        c \in Categories})]

(* The same by category, from each category's total of the month.            *)
FactMap(kind, month) ==
    [c \in Categories |-> CategoryTotal(c, OfKind(month, {kind}))]
BudgetCharts(S, now) ==
    LET month == LocalMonth(S, now)
        totals(kind) == SumFunction(FactMap(kind, month))
    IN  [figure |-> WithInterest([income |-> totals("income"),
                                  expenses |-> totals("expense")], month),
         top |-> Max({FactMap("expense", month)[c] : c \in Categories})]

(* get_period_comparison with period 'month'.                                *)
Comparison(S, now) ==
    LET current == Between(S, MonthStart(ThisMonth(now)), Today(now))
        previous == InMonth(S, ThisMonth(now) - 1)
    IN  [current |-> WithInterest(Figure(current), current),
         previous |-> WithInterest(Figure(previous), previous)]

(* UserStatisticsService: no end of the month.                               *)
UserStatistics(as, lent, S, now) ==
    [total |-> lent + Balances(as, S),
     current |-> Figure(Between(S, MonthStart(ThisMonth(now)), Max(Day))),
     previous |-> Figure(InMonth(S, ThisMonth(now) - 1)),
     receipts |-> Cardinality(OfKind(S, {"purchase", "return"}))]

-----------------------------------------------------------------------------
(* BalanceTrendService.                                                      *)

Signed(S) == LET f == Figure(S) IN f.income - f.expenses
OfAccounts(S, as) == {r \in S : r.account \in as}

(* A faulty form: the transactions of the date itself are not taken back.    *)
BalanceAt_DayAfter(as, day, S) ==
    Balances(as, S)
        - Signed({r \in OfAccounts(S, as) : LocalDay(r.at) > day})

(* _get_balance_at_date takes back every transaction since the date.         *)
BalanceAt(as, day, S) ==
    Balances(as, S)
        - Signed({r \in OfAccounts(S, as) : LocalDay(r.at) >= day})

TrendStart(now) == UtcDay(now) - TrendDays

(* _compute_series: the transactions since this moment TrendDays ago, by     *)
(* their local date.                                                         *)
TrendPoint(as, day, S, now) ==
    BalanceAt(as, TrendStart(now), S)
        + Signed({r \in OfAccounts(S, as) :
                    /\ r.at >= now - 2 * TrendDays
                    /\ LocalDay(r.at) \in TrendStart(now) .. day})
BalanceTrend(as, S, now) ==
    [day \in TrendStart(now) .. Today(now) |-> TrendPoint(as, day, S, now)]
=============================================================================
