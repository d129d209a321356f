----------------------------- MODULE Forecasts ------------------------------
(* The expected interest of a deposit's current term: interest_forecast.py   *)
(* and the operations of DepositService that rebuild its result.             *)
(*                                                                           *)
(* A forecast is one row per accrual period.  It is rebuilt as a whole on    *)
(* request and after a rate change, and from a date on after a change of the *)
(* principal; rows confirmed by a payment stay.  Days are numbers on a       *)
(* calendar of short months.  A day's interest is its principal times its    *)
(* rate: the year's length and the rounding to money are left out.  Whoever  *)
(* changes the principal holds the lock of the deposit's account while it    *)
(* rebuilds, so those are single actions; the rebuild on request takes no    *)
(* lock and is three, `slow` being what it has read.                         *)
EXTENDS Calendar

CONSTANTS
    Weekend,       \* the days that WeekendOnlyCalendar does not work
    Terms,         \* the terms a deposit may be opened with
    Rates,         \* annual rates
    OperationDays, \* the dates that forms carry
    MaxEvents,     \* bound: events that change the principal
    MaxRates       \* bound: rate periods

VARIABLES
    term,     \* the current term, which does not change
    matured,  \* whether the term's last day has come
    closed,   \* whether the term has a date of closure
    rates,    \* rate periods, by their start
    events,   \* what changed the principal, oldest first
    lines,    \* DepositInterestForecast rows, oldest first
    slow      \* the rebuild on request under way, if any

vars == <<term, matured, closed, rates, events, lines, slow>>

Term == [opened : Day, matures : Day, startIncluded : BOOLEAN,
         endIncluded : BOOLEAN, schedule : {"monthly", "custom", "maturity"},
         custom : SUBSET Day, convention : {"none", "following", "preceding"}]

RatePeriod == [from : Day, to : Day, rate : Rates]

(* An event of either table.  `amount` is signed, `reverses` is the index of *)
(* the event that a compensating one undoes, 0 for an original event.        *)
Event == [type : {"opening", "funding", "topUp", "withdrawal", "closure",
                  "interest"},
          on : Day, amount : Int, reverses : 0 .. MaxEvents]

(* A forecast row.  `seen` marks the rows the rebuild under way will delete. *)
Line == [payout : Int, from : Day, to : Day, amount : Nat,
         undefined : BOOLEAN, tentative : BOOLEAN, confirmed : BOOLEAN,
         seen : BOOLEAN]

Idle == [step |-> "idle"]

ASSUME ForecastsAssumption ==
    /\ Weekend \subseteq Day
    /\ Terms \subseteq Term
    /\ \A t \in Terms : t.opened <= t.matures
    /\ Rates \subseteq Nat \ {0} /\ OperationDays \subseteq Day
    /\ MaxEvents \in Nat \ {0} /\ MaxRates \in Nat \ {0}

-----------------------------------------------------------------------------
(* The number of a set that comes k-th, and the rows of a table that are in  *)
(* a set, in their order.                                                    *)
Nth(S, k) == CHOOSE x \in S : Cardinality({y \in S : y <= x}) = k

Only(ls, S) ==
    LET at == {i \in DOMAIN ls : ls[i] \in S}
    IN  [k \in 1 .. Cardinality(at) |-> ls[Nth(at, k)]]

(* The schedule of payouts.                                                  *)

(* monthly_payout_dates: the opening's day of each later month, and maturity.*)
MonthlyPayoutDates(opened, matures) ==
    LET dayOfMonth == opened - MonthStart(MonthOf(opened)) + 1
        later == {m \in DOMAIN MonthLengths : m > MonthOf(opened)}
    IN  {d \in {ClampToMonth(m, dayOfMonth) : m \in later} : d < matures}
        \cup {matures}

Ascending(dates) == [k \in 1 .. Cardinality(dates) |-> Nth(dates, k)]

(* Custom dates are not compared with the term: one after maturity is        *)
(* followed by maturity all the same.                                        *)
PayoutDates(t) ==
    CASE t.schedule = "monthly" ->
            Ascending(MonthlyPayoutDates(t.opened, t.matures))
      [] t.schedule = "custom" ->
            IF t.custom # {} /\ Max(t.custom) = t.matures
            THEN Ascending(t.custom)
            ELSE Append(Ascending(t.custom), t.matures)
      [] t.schedule = "maturity" -> <<t.matures>>

(* roll_to_business_day.  Days outside the calendar are working days.        *)
RollToBusinessDay(day, convention) ==
    IF convention = "none" \/ day \notin Weekend THEN day
    ELSE IF convention = "following"
         THEN Min({d \in day .. Max(Day) + 1 : d \notin Weekend})
         ELSE Max({d \in 0 .. day : d \notin Weekend})

(* accrual_days.                                                             *)
AccrualDays(t, from, to) ==
    (IF t.startIncluded THEN from ELSE from + 1)
    .. (IF t.endIncluded THEN to ELSE to - 1)

(* rate_for_day; no rate where the day is in no period.                      *)
Covering(rs, day) ==
    {i \in DOMAIN rs : rs[i].from <= day /\ day <= rs[i].to}

RateOn(rs, day) == rs[CHOOSE i \in Covering(rs, day) : TRUE].rate

PrincipalOn(es, day) ==
    SumFunctionOnSet([i \in DOMAIN es |-> es[i].amount],
                     {i \in DOMAIN es : es[i].on <= day})

(* compute_accrued_interest: the rows of a forecast, from its events and     *)
(* rate periods.                                                             *)
ForecastLine(es, rs, from, to) ==
    LET days == AccrualDays(term, from, to)
        undefined == \E d \in days : Covering(rs, d) = {}
        payout == RollToBusinessDay(to, term.convention)
    IN  [payout |-> payout, from |-> from, to |-> to,
         amount |->
            IF undefined THEN 0
            ELSE SumFunctionOnSet(
                    [d \in days |-> PrincipalOn(es, d) * RateOn(rs, d)], days),
         undefined |-> undefined, tentative |-> payout # to,
         confirmed |-> FALSE, seen |-> FALSE]

(* build_forecast.                                                           *)
BuildForecast(es, rs) ==
    LET dates == PayoutDates(term)
        start(i) == IF i = 1 THEN term.opened ELSE dates[i - 1] + 1
    IN  [i \in DOMAIN dates |-> ForecastLine(es, rs, start(i), dates[i])]

(* A monthly schedule needs a positive term, and a day one rate at most.     *)
Buildable(rs) ==
    /\ term.schedule = "monthly" => term.opened < term.matures
    /\ \A d \in Day : Cardinality(Covering(rs, d)) <= 1

(* The table's constraints; a row that breaks them rolls everything back.    *)
Storable(new) ==
    \A i \in DOMAIN new : new[i].amount >= 0 /\ new[i].from <= new[i].to

Confirmed(ls) == {l \in Range(ls) : l.confirmed}

(* _recalculate_forecast_for_term without a date, over the rows `ls`.        *)
RebuildAll(ls, es, rs) ==
    LET new == BuildForecast(es, rs)
    IN  /\ Buildable(rs) /\ Storable(new)
        /\ lines' = Only(ls, Confirmed(ls)) \o new

(* A faulty form: the row paid on the very day is left.                      *)
KeptFrom_SameDay(ls, day) ==
    Only(ls, {l \in Range(ls) : l.confirmed \/ l.payout <= day})

(* A faulty form: rows already paid are computed again.                      *)
AddedFrom_PaidToo(ls, es, day) ==
    LET new == BuildForecast(es, rates)
    IN  Only(new, {l \in Range(new) : l.payout >= day})

(* A faulty form: the row paid on the very day is not computed again.        *)
AddedFrom_DayAfter(ls, es, day) ==
    LET new == BuildForecast(es, rates)
        paid == {l.payout : l \in Confirmed(ls)}
    IN  Only(new, {l \in Range(new) : l.payout > day /\ l.payout \notin paid})

(* The rows a rebuild from a date leaves, and those it adds.                 *)
KeptFrom(ls, day) ==
    Only(ls, {l \in Range(ls) : l.confirmed \/ l.payout < day})

AddedFrom(ls, es, day) ==
    LET new == BuildForecast(es, rates)
        paid == {l.payout : l \in Confirmed(ls)}
    IN  Only(new, {l \in Range(new) : l.payout >= day /\ l.payout \notin paid})

RebuildFrom(ls, es, day) ==
    /\ Buildable(rates) /\ Storable(AddedFrom(ls, es, day))
    /\ lines' = KeptFrom(ls, day) \o AddedFrom(ls, es, day)

-----------------------------------------------------------------------------
NewEvent(type, day, amount, reverses) ==
    [type |-> type, on |-> day, amount |-> amount, reverses |-> reverses]

(* A deposit as it is opened, which makes no forecast, or renewed, which     *)
(* does.                                                                     *)
Init ==
    /\ term \in Terms
    /\ matured = FALSE /\ closed = FALSE
    /\ \E r \in Rates :
        rates = <<[from |-> term.opened, to |-> term.matures, rate |-> r]>>
    /\ \/ events = <<NewEvent("funding", term.opened, 2, 0)>>
       \/ \E day \in OperationDays :
            /\ term.opened <= day
            /\ events = <<NewEvent("opening", day, 1, 0)>>
    /\ \/ lines = <<>>
       \/ /\ Buildable(rates) /\ Storable(BuildForecast(events, rates))
          /\ lines = BuildForecast(events, rates)
    /\ slow = Idle

Balance == PrincipalOn(events, Max(Day))

RecordEvent(e) ==
    /\ Len(events) < MaxEvents
    /\ events' = Append(events, e)

(* add_floating_rate_period.                                                 *)
NoOverlap(periods, from) ==
    \A i \in DOMAIN periods : ~(periods[i].from <= term.matures
                                /\ from <= periods[i].to)

(* A faulty form: the last period ends a day too early.                      *)
TrimLast_TooEarly(periods, from) == [periods EXCEPT ![Len(periods)].to = from - 2]

(* trim_rate_period_end, of the last period.                                 *)
TrimLast(periods, from) == [periods EXCEPT ![Len(periods)].to = from - 1]

AddRatePeriod(from, rate) ==
    LET last == Len(rates)
    IN  /\ ~matured /\ ~closed /\ last < MaxRates
        /\ rates[last].from < from /\ from <= term.matures
        /\ NoOverlap(Front(rates), from)
        /\ rates' = Append(TrimLast(rates, from),
                           [from |-> from, to |-> term.matures, rate |-> rate])
        /\ RebuildAll(lines, events, rates')
        /\ UNCHANGED <<term, matured, closed, events, slow>>

(* top_up_deposit_principal: a date within the term.                         *)
TopUp(day) ==
    /\ ~closed
    /\ term.opened <= day /\ day <= term.matures
    /\ RecordEvent(NewEvent("topUp", day, 1, 0))
    /\ RebuildFrom(lines, events', day)
    /\ UNCHANGED <<term, matured, closed, rates, slow>>

(* withdraw_deposit_principal: any date, as long as the balance covers it.   *)
Withdraw(day) ==
    /\ ~closed /\ Balance >= 1
    /\ RecordEvent(NewEvent("withdrawal", day, -1, 0))
    /\ RebuildFrom(lines, events', day)
    /\ UNCHANGED <<term, matured, closed, rates, slow>>

(* confirm_interest_payment, of a row or unplanned: the forecast follows     *)
(* only if the interest stays in the deposit.                                *)
Confirm(i) == IF i = 0 THEN lines ELSE [lines EXCEPT ![i].confirmed = TRUE]

Unconfirmed == {i \in DOMAIN lines : ~lines[i].confirmed}

CapitalizeInterest(i, day) ==
    /\ ~closed
    /\ RecordEvent(NewEvent("interest", day, 1, 0))
    /\ RebuildFrom(Confirm(i), events', day)
    /\ UNCHANGED <<term, matured, closed, rates, slow>>

PayInterestOut(i) ==
    /\ ~closed
    /\ lines' = Confirm(i)
    /\ UNCHANGED <<term, matured, closed, rates, events, slow>>

Reversible(i, day) ==
    /\ events[i].reverses = 0 /\ events[i].on <= day
    /\ \A j \in DOMAIN events : events[j].reverses # i

Compensate(i, day) ==
    RecordEvent(NewEvent(events[i].type, day, -events[i].amount, i))

(* _reverse_principal_event.  The account must be open, and able to give     *)
(* back what came in; the opening position moves no money.                   *)
ReversePrincipal(i, day) ==
    /\ events[i].type \in {"opening", "funding", "topUp", "withdrawal"}
    /\ Reversible(i, day)
    /\ \/ events[i].type = "opening"
       \/ ~closed /\ Balance >= events[i].amount
    /\ Compensate(i, day)
    /\ RebuildFrom(lines, events', day)
    /\ UNCHANGED <<term, matured, closed, rates, slow>>

(* _reverse_interest_event rebuilds nothing, and its row stays confirmed.    *)
ReverseInterest(i, day) ==
    /\ events[i].type = "interest" /\ Reversible(i, day)
    /\ ~closed /\ Balance >= events[i].amount
    /\ Compensate(i, day)
    /\ UNCHANGED <<term, matured, closed, rates, lines, slow>>

(* close_deposit_early and close_matured_deposit, which may confirm the last *)
(* row.  No row is left to be expected.                                      *)
Close(i, day) ==
    /\ ~closed
    /\ \/ /\ ~matured /\ i = 0
          /\ term.opened <= day /\ day < term.matures
       \/ /\ matured /\ term.matures <= day
          /\ i # 0 => lines[i].to = term.matures
    /\ RecordEvent(NewEvent("closure", day, -Balance, 0))
    /\ closed' = TRUE
    /\ lines' = Only(Confirm(i), Confirmed(Confirm(i)))
    /\ UNCHANGED <<term, matured, rates, slow>>

(* _reverse_closure_event reopens the term, with the forecast left empty.    *)
ReverseClosure(i, day) ==
    /\ events[i].type = "closure" /\ Reversible(i, day)
    /\ Compensate(i, day)
    /\ closed' = FALSE
    /\ UNCHANGED <<term, matured, rates, lines, slow>>

(* Time passes the date of maturity.                                         *)
Mature ==
    /\ ~matured
    /\ matured' = TRUE
    /\ UNCHANGED <<term, closed, rates, events, lines, slow>>

(* recalculate_forecast: reads the term's rates and events and computes,     *)
(* then looks for the rows to delete, then deletes them by key and inserts.  *)
BeginRecalculation ==
    /\ slow = Idle /\ ~closed
    /\ Buildable(rates)
    /\ slow' = [step |-> "delete", new |-> BuildForecast(events, rates)]
    /\ UNCHANGED <<term, matured, closed, rates, events, lines>>

Mark(ls, seen) == [i \in DOMAIN ls |-> [ls[i] EXCEPT !.seen = ls[i] \in seen]]

SelectUnconfirmed ==
    /\ slow.step = "delete"
    /\ slow' = [slow EXCEPT !.step = "insert"]
    /\ lines' = Mark(lines, {l \in Range(lines) : ~l.confirmed})
    /\ UNCHANGED <<term, matured, closed, rates, events>>

(* A faulty form: rows confirmed meanwhile are deleted too.                  *)
Replaceable_Always(ls) == Storable(slow.new)

(* A row that was confirmed meanwhile is referred to by its payment: the     *)
(* transaction fails.                                                        *)
Replaceable(ls) ==
    /\ \A i \in DOMAIN ls : ~(ls[i].seen /\ ls[i].confirmed)
    /\ Storable(slow.new)

FinishRecalculation ==
    /\ slow.step = "insert"
    /\ LET left == Only(lines, {l \in Range(lines) : ~l.seen})
       IN  lines' = IF Replaceable(lines) THEN left \o slow.new
                    ELSE Mark(lines, {})
    /\ slow' = Idle
    /\ UNCHANGED <<term, matured, closed, rates, events>>

Next ==
    \/ \E day \in OperationDays :
        \/ \E r \in Rates : AddRatePeriod(day, r)
        \/ TopUp(day)
        \/ Withdraw(day)
        \/ \E i \in Unconfirmed \cup {0} :
            CapitalizeInterest(i, day) \/ Close(i, day)
        \/ \E i \in DOMAIN events :
            \/ ReversePrincipal(i, day)
            \/ ReverseInterest(i, day)
            \/ ReverseClosure(i, day)
    \/ \E i \in Unconfirmed : PayInterestOut(i)
    \/ Mature
    \/ BeginRecalculation
    \/ SelectUnconfirmed
    \/ FinishRecalculation

Spec == Init /\ [][Next]_vars
-----------------------------------------------------------------------------
(* Properties.                                                               *)

(* Every variable has its type; no row is stored with a negative amount or   *)
(* an inverted period.                                                       *)
ForecastsTypeOK ==
    /\ term \in Terms /\ matured \in BOOLEAN /\ closed \in BOOLEAN
    /\ rates \in Seq(RatePeriod) /\ Len(rates) \in 1 .. MaxRates
    /\ events \in Seq(Event) /\ Len(events) <= MaxEvents
    /\ lines \in Seq(Line)

(* However often the rate of a floating term changes, each day of the term   *)
(* is in one rate period exactly: the trimmed one ends the day before the    *)
(* next begins, and none ends before it starts.                              *)
OneRatePerDay ==
    /\ \A d \in term.opened .. term.matures :
        Cardinality(Covering(rates, d)) = 1
    /\ \A i \in DOMAIN rates : rates[i].from <= rates[i].to

(* Both: what every rebuild may count on.                                    *)
ForecastsInv == ForecastsTypeOK /\ OneRatePerDay

(* A row confirmed by a payment is never changed, deleted or replaced by a   *)
(* rebuild, also when it is confirmed while a rebuild is under way that has  *)
(* already chosen it for deletion.                                           *)
Paid(ls) == {[l EXCEPT !.seen = FALSE] : l \in Confirmed(ls)}

PaidRowsStay ==
    [][Paid(lines) \subseteq Paid(lines')]_vars

(* A period that has two rows got the second one from a rebuild of the whole *)
(* forecast: beside a confirmed row, or, from a late rebuild on request,     *)
(* beside a row another operation had made since.  A rebuild from a date     *)
(* never doubles a period.                                                   *)
RowsOf(ls, to) == {i \in DOMAIN ls : ls[i].to = to}
Doubled(ls) == {l.to : l \in {k \in Range(ls) : Cardinality(RowsOf(ls, k.to)) > 1}}

DoublesHaveCause ==
    [][\A to \in Doubled(lines') \ Doubled(lines) :
        \/ rates' # rates /\ \E i \in RowsOf(lines, to) : lines[i].confirmed
        \/ /\ slow.step = "insert" /\ slow' = Idle
           /\ \E i \in RowsOf(lines, to) : ~lines[i].seen]_vars

(* A period's only row disappears from the forecast when the deposit is      *)
(* closed, or because a confirmed row is already due on the same working     *)
(* day: no rebuild loses a payout that is still expected.                    *)
Periods(ls) == {l.to : l \in Range(ls)}
PaidOn(ls) == {l.payout : l \in Confirmed(ls)}

PeriodsStay ==
    [][\A to \in Periods(lines) \ Periods(lines') :
        \/ closed'
        \/ RollToBusinessDay(to, term.convention) \in PaidOn(lines')]_vars

(* What is expected is what the present principal and rates yield: an        *)
(* operation that finds it so leaves it so, although rebuilds from a date    *)
(* recompute only later payouts.  The exceptions are a payout rolled back    *)
(* before the days it pays for, interest or a closure that is taken back,    *)
(* which rebuilds nothing, and a late rebuild on request.                    *)
Fresh(ls, es, rs) ==
    \A l \in Range(ls) :
        ~l.confirmed => l.amount = ForecastLine(es, rs, l.from, l.to).amount

StaleHasCause ==
    [][Fresh(lines, events, rates) /\ ~Fresh(lines', events', rates') =>
        \/ term.convention = "preceding"
        \/ slow.step = "insert" /\ slow' = Idle
        \/ /\ events' # events
           /\ Last(events').type \in {"interest", "closure"}
           /\ Last(events').reverses # 0]_vars
=============================================================================
