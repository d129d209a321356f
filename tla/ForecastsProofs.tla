-------------------------- MODULE ForecastsProofs ---------------------------
(* Proofs about the rate periods of a term and the rows of its forecast, for *)
(* any calendar, weekend, terms, rates and number of operations.             *)
EXTENDS Forecasts, SumProofs, SequenceTheorems, FunctionTheorems, TLAPS

USE CalendarAssumption, ForecastsAssumption

-----------------------------------------------------------------------------
(* The calendar: months follow on each other, and cover its days.            *)
LEMMA MonthSums ==
    /\ DaysInAll \in Nat
    /\ \A m \in 1 .. Len(MonthLengths) : MonthStart(m) \in Nat \ {0}
    /\ \A m \in 1 .. Len(MonthLengths) : MonthLengths[m] \in Nat \ {0}
    /\ \A m \in 2 .. Len(MonthLengths) : MonthStart(m) = MonthEnd(m - 1) + 1
    /\ Len(MonthLengths) # 0 =>
            MonthStart(1) = 1 /\ MonthEnd(Len(MonthLengths)) = DaysInAll
    /\ Len(MonthLengths) = 0 => DaysInAll = 0
    /\ Rising(MonthLengths, Len(MonthLengths))
    /\ \A m \in 1 .. Len(MonthLengths) :
            /\ MonthStart(m) = FirstSum(MonthLengths, m - 1) + 1
            /\ MonthEnd(m) = FirstSum(MonthLengths, m)
    /\ DaysInAll = FirstSum(MonthLengths, Len(MonthLengths))
<1>1. PICK n \in Nat : n = Len(MonthLengths)
  BY LenProperties
<1>2. DOMAIN MonthLengths = 1 .. n /\ \A m \in 1 .. n : MonthLengths[m] \in Nat \ {0}
  BY <1>1
<1>3. Rising(MonthLengths, n)
  BY <1>2, FirstSums
<1>4. DaysInAll = FirstSum(MonthLengths, n)
  BY <1>2 DEF DaysInAll, SumFunction, FirstSum
<1>5. \A m : MonthStart(m) = 1 + FirstSum(MonthLengths, m - 1)
  BY DEF MonthStart, FirstSum
<1>6. /\ FirstSum(MonthLengths, 0) = 0
      /\ \A m \in 0 .. n : FirstSum(MonthLengths, m) \in Nat
      /\ \A m \in 1 .. n : FirstSum(MonthLengths, m) =
                            FirstSum(MonthLengths, m - 1) + MonthLengths[m]
  BY <1>3 DEF Rising
<1>7. ASSUME NEW m \in 1 .. n
      PROVE  /\ MonthStart(m) = FirstSum(MonthLengths, m - 1) + 1
             /\ MonthEnd(m) = FirstSum(MonthLengths, m)
             /\ MonthStart(m) \in Nat \ {0}
  <2>1. m - 1 \in 0 .. n
    OBVIOUS
  <2>2. PICK before \in Nat : before = FirstSum(MonthLengths, m - 1)
    BY <1>6, <2>1
  <2>3. PICK length \in Nat : length = MonthLengths[m]
    BY <1>2
  <2>4. FirstSum(MonthLengths, m) = before + length
    BY <1>6, <2>2, <2>3
  <2>5. MonthStart(m) = 1 + before
    BY <1>5, <2>2
  <2>6. MonthEnd(m) = (1 + before) + length - 1
    BY Zenon, <2>3, <2>5 DEF MonthEnd
  <2> QED
    BY <2>2, <2>4, <2>5, <2>6
<1>8. ASSUME NEW m \in 2 .. n PROVE MonthStart(m) = MonthEnd(m - 1) + 1
  <2>1. m \in 1 .. n /\ m - 1 \in 1 .. n
    OBVIOUS
  <2> QED
    BY <1>7, <2>1
<1>9. n # 0 => MonthStart(1) = 1 /\ MonthEnd(n) = DaysInAll
  <2> SUFFICES ASSUME n # 0 PROVE MonthStart(1) = 1 /\ MonthEnd(n) = DaysInAll
    OBVIOUS
  <2>1. 1 \in 1 .. n /\ n \in 1 .. n /\ 1 - 1 = 0
    OBVIOUS
  <2>2. MonthStart(1) = FirstSum(MonthLengths, 0) + 1
    BY <1>7, <2>1
  <2> QED
    BY <1>4, <1>6, <1>7, <2>1, <2>2
<1>10. DaysInAll \in Nat /\ (n = 0 => DaysInAll = 0)
  <2>1. n \in 0 .. n
    OBVIOUS
  <2> QED
    BY <1>4, <1>6, <2>1
<1> QED
  BY <1>1, <1>2, <1>3, <1>4, <1>7, <1>8, <1>9, <1>10

-----------------------------------------------------------------------------
(* The inductive invariant.  It is about sequences of periods, so that the   *)
(* step can be stated for any of them.  Periods come in order and do not     *)
(* meet: without that, trimming the last one could not leave the others out  *)
(* of account.                                                               *)
PeriodsTyped(rs) == rs \in Seq(RatePeriod) /\ Len(rs) >= 1

PeriodsOrdered(rs) ==
    /\ \A i \in 1 .. Len(rs) : rs[i].from <= rs[i].to
    /\ \A i, j \in 1 .. Len(rs) : i < j => rs[i].to < rs[j].from

PeriodsCover(rs, days) ==
    \A d \in days : \E i \in 1 .. Len(rs) : rs[i].from <= d /\ d <= rs[i].to

TermDays == term.opened .. term.matures

RatesInv ==
    /\ term \in Terms
    /\ PeriodsTyped(rates)
    /\ PeriodsOrdered(rates)
    /\ PeriodsCover(rates, TermDays)

LEMMA DaysAreIntegers == \A d \in Day : d \in Int /\ 1 <= d
BY DEF Day

(* A number between two days is a day.                                       *)
LEMMA DaysBetween ==
    ASSUME NEW a \in Day, NEW b \in Day, NEW d \in Int, a <= d, d <= b
    PROVE  d \in Day
BY MonthSums DEF Day

LEMMA TermFacts ==
    ASSUME NEW t \in Terms
    PROVE  /\ t.opened \in Day /\ t.matures \in Day /\ t.opened <= t.matures
BY DEF Term

LEMMA PeriodFacts ==
    ASSUME NEW rs \in Seq(RatePeriod), NEW i \in 1 .. Len(rs)
    PROVE  /\ rs[i] \in RatePeriod /\ rs[i].from \in Day /\ rs[i].to \in Day
           /\ rs[i].rate \in Rates
<1>1. rs[i] \in RatePeriod
  BY ElementOfSeq
<1> QED
  BY <1>1 DEF RatePeriod

-----------------------------------------------------------------------------
(* The one step that changes the periods: the last one ends the day before   *)
(* the new one begins.                                                       *)
Trimmed(rs, from) == [rs[Len(rs)] EXCEPT !.to = from - 1]

LEMMA TrimmedFacts ==
    ASSUME NEW rs, PeriodsTyped(rs), NEW from \in Day, rs[Len(rs)].from < from
    PROVE  /\ Trimmed(rs, from) \in RatePeriod
           /\ Trimmed(rs, from).from = rs[Len(rs)].from
           /\ Trimmed(rs, from).to = from - 1
<1>1. Len(rs) \in 1 .. Len(rs)
  BY DEF PeriodsTyped
<1> DEFINE p == rs[Len(rs)]
<1>2. p \in RatePeriod /\ p.from \in Day
  BY <1>1, PeriodFacts DEF PeriodsTyped
<1>3. from - 1 \in Day
  BY <1>2, DaysAreIntegers, DaysBetween
<1> HIDE DEF p
<1>4. /\ [p EXCEPT !.to = from - 1] \in RatePeriod
      /\ [p EXCEPT !.to = from - 1].from = p.from
      /\ [p EXCEPT !.to = from - 1].to = from - 1
  BY <1>2, <1>3 DEF RatePeriod
<1> QED
  BY <1>4 DEF Trimmed, p

(* The periods after a change of the rate, one by one.                       *)
NewPeriod(t, from, rate) == [from |-> from, to |-> t.matures, rate |-> rate]
Changed(rs, t, from, rate) ==
    Append(TrimLast(rs, from), NewPeriod(t, from, rate))

LEMMA PeriodsAfter ==
    ASSUME NEW rs, PeriodsTyped(rs), NEW from \in Day, NEW rate \in Rates,
           NEW t \in Terms, rs[Len(rs)].from < from,
           NEW next, next = Changed(rs, t, from, rate)
    PROVE  /\ next \in Seq(RatePeriod) /\ Len(next) = Len(rs) + 1
           /\ \A i \in 1 .. Len(rs) - 1 : next[i] = rs[i]
           /\ next[Len(rs)] = Trimmed(rs, from)
           /\ next[Len(rs) + 1] = NewPeriod(t, from, rate)
<1> DEFINE trim == TrimLast(rs, from)
           new == NewPeriod(t, from, rate)
<1>1. Len(rs) \in 1 .. Len(rs) /\ Len(rs) \in Nat
  BY LenProperties DEF PeriodsTyped
<1>2. Trimmed(rs, from) \in RatePeriod
  BY TrimmedFacts
<1>3. trim = [rs EXCEPT ![Len(rs)] = Trimmed(rs, from)]
  BY DEF TrimLast, Trimmed
<1>4. /\ trim \in Seq(RatePeriod) /\ Len(trim) = Len(rs)
      /\ \A i \in 1 .. Len(rs) :
            trim[i] = IF i = Len(rs) THEN Trimmed(rs, from) ELSE rs[i]
  BY <1>1, <1>2, <1>3, ExceptSeq DEF PeriodsTyped
<1>5. new \in RatePeriod
  BY TermFacts DEF RatePeriod, NewPeriod
<1> HIDE DEF trim, new
<1>6. /\ Append(trim, new) \in Seq(RatePeriod)
      /\ Len(Append(trim, new)) = Len(rs) + 1
      /\ \A i \in 1 .. Len(rs) : Append(trim, new)[i] = trim[i]
      /\ Append(trim, new)[Len(rs) + 1] = new
  BY <1>1, <1>4, <1>5, AppendProperties
<1>7. next = Append(trim, new)
  BY DEF trim, new, Changed
<1>8. next \in Seq(RatePeriod) /\ Len(next) = Len(rs) + 1
  BY <1>6, <1>7
<1>9. \A i \in 1 .. Len(rs) :
        next[i] = IF i = Len(rs) THEN Trimmed(rs, from) ELSE rs[i]
  BY <1>4, <1>6, <1>7
<1>10. next[Len(rs) + 1] = new
  BY <1>6, <1>7
<1>11. \A i \in 1 .. Len(rs) - 1 : i \in 1 .. Len(rs) /\ i # Len(rs)
  BY <1>1
<1> QED
  BY <1>1, <1>8, <1>9, <1>10, <1>11 DEF new

LEMMA RateChangeKeepsPeriods ==
    ASSUME NEW rs, PeriodsTyped(rs), PeriodsOrdered(rs),
           NEW t \in Terms, PeriodsCover(rs, t.opened .. t.matures),
           NEW from \in Day, NEW rate \in Rates,
           rs[Len(rs)].from < from, from <= t.matures,
           NEW next, next = Changed(rs, t, from, rate)
    PROVE  /\ PeriodsTyped(next) /\ PeriodsOrdered(next)
           /\ PeriodsCover(next, t.opened .. t.matures)
<1>0. PICK n : n = Len(rs)
  OBVIOUS
<1>1. n \in Nat /\ n >= 1
  BY <1>0, LenProperties DEF PeriodsTyped
<1>p. /\ next \in Seq(RatePeriod) /\ Len(next) = Len(rs) + 1
      /\ \A i \in 1 .. Len(rs) - 1 : next[i] = rs[i]
      /\ next[Len(rs)] = Trimmed(rs, from)
      /\ next[Len(rs) + 1] = NewPeriod(t, from, rate)
  BY PeriodsAfter
<1>2. /\ next \in Seq(RatePeriod) /\ Len(next) = n + 1
      /\ \A i \in 1 .. n - 1 : next[i] = rs[i]
      /\ next[n] = Trimmed(rs, from)
      /\ next[n + 1] = NewPeriod(t, from, rate)
  BY <1>0, <1>p
<1>3. /\ \A i \in 1 .. n : rs[i].from \in Int /\ rs[i].to \in Int
      /\ from \in Int /\ t.opened \in Int /\ t.matures \in Int
  BY <1>0, PeriodFacts, TermFacts, DaysAreIntegers DEF PeriodsTyped
<1>4. /\ next[n].from = rs[n].from /\ next[n].to = from - 1
      /\ next[n + 1].from = from /\ next[n + 1].to = t.matures
  <2>1. /\ Trimmed(rs, from).from = rs[Len(rs)].from
        /\ Trimmed(rs, from).to = from - 1
    BY TrimmedFacts
  <2> QED
    BY <1>0, <1>2, <2>1 DEF NewPeriod
<1>5. PeriodsTyped(next)
  BY <1>1, <1>2 DEF PeriodsTyped
<1>6. PeriodsOrdered(next)
  <2>1. ASSUME NEW i \in 1 .. n + 1 PROVE next[i].from <= next[i].to
    <3>1. CASE i = n
      <4>1. rs[n].from < from
        BY <1>0
      <4> QED
        BY <1>1, <1>3, <1>4, <3>1, <4>1
    <3>2. CASE i = n + 1
      BY <1>3, <1>4, <3>2
    <3>3. CASE i \in 1 .. n - 1
      <4>1. i \in 1 .. n
        BY <1>1, <3>3
      <4> QED
        BY <1>0, <1>2, <3>3, <4>1 DEF PeriodsOrdered
    <3> QED
      BY <1>1, <2>1, <3>1, <3>2, <3>3
  <2>2. ASSUME NEW i \in 1 .. n + 1, NEW j \in 1 .. n + 1, i < j
        PROVE  next[i].to < next[j].from
    <3>1. CASE j <= n - 1
      <4>1. /\ i \in 1 .. n - 1 /\ j \in 1 .. n - 1
            /\ i \in 1 .. n /\ j \in 1 .. n
        BY <1>1, <2>2, <3>1
      <4> QED
        BY <1>0, <1>1, <1>2, <2>2, <4>1 DEF PeriodsOrdered
    <3>2. CASE j = n
      <4>1. i \in 1 .. n - 1
        BY <1>1, <2>2, <3>2
      <4> QED
        BY <1>1, <1>2, <1>4, <2>2, <3>2, <4>1, <1>0 DEF PeriodsOrdered
    <3>3. CASE j = n + 1
      <4>1. CASE i = n
        BY <1>1, <1>3, <1>4, <3>3, <4>1
      <4>2. CASE i \in 1 .. n - 1
        <5>0. i \in 1 .. n /\ n \in 1 .. n /\ i < n
          BY <1>1, <4>2
        <5>1. rs[i].to < rs[n].from
          BY <1>0, <5>0 DEF PeriodsOrdered
        <5>2. rs[n].from < from
          BY <1>0
        <5> QED
          BY <1>1, <1>2, <1>3, <1>4, <3>3, <4>2, <5>0, <5>1, <5>2
      <4> QED
        BY <1>1, <2>2, <3>3, <4>1, <4>2
    <3> QED
      BY <1>1, <2>2, <3>1, <3>2, <3>3
  <2> QED
    BY <1>2, <2>1, <2>2 DEF PeriodsOrdered
<1>7. PeriodsCover(next, t.opened .. t.matures)
  <2> SUFFICES ASSUME NEW d \in t.opened .. t.matures
      PROVE \E i \in 1 .. n + 1 : next[i].from <= d /\ d <= next[i].to
    BY <1>2 DEF PeriodsCover
  <2>1. d \in Int /\ d <= t.matures
    BY <1>3
  <2>2. CASE from <= d
    <3>1. n + 1 \in 1 .. n + 1
      BY <1>1
    <3> QED
      BY <1>4, <2>1, <2>2, <3>1
  <2>3. CASE d < from
    <3>1. PICK i \in 1 .. n : rs[i].from <= d /\ d <= rs[i].to
      BY <1>0 DEF PeriodsCover
    <3>2. i \in 1 .. n + 1
      BY <1>1
    <3>3. next[i].from <= d /\ d <= next[i].to
      <4>1. CASE i = n
        BY <1>1, <1>3, <1>4, <2>1, <2>3, <3>1, <4>1
      <4>2. CASE i \in 1 .. n - 1
        BY <1>2, <3>1, <4>2
      <4> QED
        BY <1>1, <4>1, <4>2
    <3> QED
      BY <3>2, <3>3
  <2> QED
    BY <1>3, <2>1, <2>2, <2>3
<1> QED
  BY <1>5, <1>6, <1>7

-----------------------------------------------------------------------------
(* The invariant holds.  Only a change of the rate touches the periods.      *)
LEMMA RatesAtFirst == Init => RatesInv
<1> SUFFICES ASSUME Init PROVE RatesInv
  OBVIOUS
<1>1. term \in Terms
  BY DEF Init
<1>2. PICK r \in Rates :
        rates = <<[from |-> term.opened, to |-> term.matures, rate |-> r]>>
  BY DEF Init
<1>3. term.opened \in Day /\ term.matures \in Day /\ term.opened <= term.matures
  BY <1>1, TermFacts
<1> DEFINE p == [from |-> term.opened, to |-> term.matures, rate |-> r]
<1>4. p \in RatePeriod /\ p.from = term.opened /\ p.to = term.matures
  BY <1>3 DEF RatePeriod
<1> HIDE DEF p
<1>5. rates = <<p>>
  BY <1>2 DEF p
<1>6. rates \in Seq(RatePeriod) /\ Len(rates) = 1 /\ rates[1] = p
  BY <1>4, <1>5
<1>7. PeriodsTyped(rates)
  BY <1>6 DEF PeriodsTyped
<1>8. PeriodsOrdered(rates)
  BY <1>3, <1>4, <1>6, DaysAreIntegers DEF PeriodsOrdered
<1>9. PeriodsCover(rates, TermDays)
  BY <1>3, <1>4, <1>6, DaysAreIntegers DEF PeriodsCover, TermDays
<1> QED
  BY <1>1, <1>7, <1>8, <1>9 DEF RatesInv

LEMMA OtherStepsKeepRates ==
    ASSUME [Next]_vars,
           ~\E day \in OperationDays, r \in Rates : AddRatePeriod(day, r)
    PROVE  UNCHANGED <<term, rates>>
<1>1. CASE UNCHANGED vars
  BY <1>1 DEF vars
<1>2. CASE \E day \in OperationDays : TopUp(day) \/ Withdraw(day)
  BY <1>2 DEF TopUp, Withdraw
<1>3. CASE \E day \in OperationDays, i \in Unconfirmed \cup {0} :
            CapitalizeInterest(i, day) \/ Close(i, day)
  BY <1>3 DEF CapitalizeInterest, Close
<1>4. CASE \E day \in OperationDays, i \in DOMAIN events :
            \/ ReversePrincipal(i, day)
            \/ ReverseInterest(i, day)
            \/ ReverseClosure(i, day)
  BY <1>4 DEF ReversePrincipal, ReverseInterest, ReverseClosure
<1>5. CASE \E i \in Unconfirmed : PayInterestOut(i)
  BY <1>5 DEF PayInterestOut
<1>6. CASE Mature \/ BeginRecalculation \/ SelectUnconfirmed
                  \/ FinishRecalculation
  BY <1>6 DEF Mature, BeginRecalculation, SelectUnconfirmed,
              FinishRecalculation
<1> QED
  BY <1>1, <1>2, <1>3, <1>4, <1>5, <1>6 DEF Next

LEMMA RatesStep == RatesInv /\ [Next]_vars => RatesInv'
<1> SUFFICES ASSUME RatesInv, [Next]_vars PROVE RatesInv'
  OBVIOUS
<1>1. CASE \E day \in OperationDays, r \in Rates : AddRatePeriod(day, r)
  <2>1. PICK day \in OperationDays, r \in Rates : AddRatePeriod(day, r)
    BY <1>1
  <2>2. PICK t \in Terms : t = term
    BY DEF RatesInv
  <2>3. PICK rs : rs = rates
    OBVIOUS
  <2>4. PICK next : next = rates'
    OBVIOUS
  <2>5. /\ rs[Len(rs)].from < day /\ day <= t.matures
        /\ next = Changed(rs, t, day, r) /\ term' = t
    BY <2>1, <2>2, <2>3, <2>4 DEF AddRatePeriod, Changed, NewPeriod
  <2>6. /\ PeriodsTyped(rs) /\ PeriodsOrdered(rs)
        /\ PeriodsCover(rs, t.opened .. t.matures)
    BY <2>2, <2>3 DEF RatesInv, TermDays
  <2>7. day \in Day
    OBVIOUS
  <2>8. /\ PeriodsTyped(next) /\ PeriodsOrdered(next)
        /\ PeriodsCover(next, t.opened .. t.matures)
    BY <2>5, <2>6, <2>7, RateChangeKeepsPeriods
  <2> QED
    BY <2>4, <2>5, <2>8
    DEF RatesInv, TermDays, PeriodsTyped, PeriodsOrdered, PeriodsCover
<1>2. CASE ~\E day \in OperationDays, r \in Rates : AddRatePeriod(day, r)
  <2>1. UNCHANGED <<term, rates>>
    BY <1>2, OtherStepsKeepRates
  <2> QED
    BY <2>1
    DEF RatesInv, TermDays, PeriodsTyped, PeriodsOrdered, PeriodsCover
<1> QED
  BY <1>1, <1>2

LEMMA RatesInvariant == Spec => []RatesInv
BY RatesAtFirst, RatesStep, PTL DEF Spec

(* A set whose members are all one has one member.                           *)
LEMMA OneMember ==
    ASSUME NEW S, NEW x \in S, \A y \in S : y = x
    PROVE  Cardinality(S) = 1
<1>1. S = {} \cup {x}
  OBVIOUS
<1>2. IsFiniteSet({}) /\ Cardinality({}) = 0
  BY FS_EmptySet
<1>3. Cardinality({} \cup {x}) = IF x \in {} THEN 0 ELSE 0 + 1
  BY <1>2, FS_AddElement
<1> QED
  BY <1>1, <1>3

LEMMA OrderedPeriodsGiveOneRate == RatesInv => OneRatePerDay
<1> SUFFICES ASSUME RatesInv PROVE OneRatePerDay
  OBVIOUS
<1>1. /\ rates \in Seq(RatePeriod) /\ DOMAIN rates = 1 .. Len(rates)
      /\ \A i \in 1 .. Len(rates) : rates[i].from \in Int /\ rates[i].to \in Int
      /\ Len(rates) \in Nat
  BY PeriodFacts, DaysAreIntegers DEF RatesInv, PeriodsTyped
<1>2. ASSUME NEW d \in term.opened .. term.matures
      PROVE  Cardinality(Covering(rates, d)) = 1
  <2>1. PICK i \in 1 .. Len(rates) : rates[i].from <= d /\ d <= rates[i].to
    BY <1>2 DEF RatesInv, PeriodsCover, TermDays
  <2>2. i \in Covering(rates, d)
    BY <1>1, <2>1 DEF Covering
  <2>3. d \in Int
    BY <1>2, TermFacts, DaysAreIntegers DEF RatesInv
  <2>4. ASSUME NEW j \in Covering(rates, d) PROVE j = i
    <3>1. j \in 1 .. Len(rates) /\ rates[j].from <= d /\ d <= rates[j].to
      BY <1>1 DEF Covering
    <3>2. ~(i < j) /\ ~(j < i)
      BY <1>1, <2>1, <2>3, <3>1 DEF RatesInv, PeriodsOrdered
    <3> QED
      BY <1>1, <3>1, <3>2
  <2> QED
    BY <2>2, <2>4, OneMember
<1>3. \A i \in DOMAIN rates : rates[i].from <= rates[i].to
  BY <1>1 DEF RatesInv, PeriodsOrdered
<1> QED
  BY <1>2, <1>3 DEF OneRatePerDay

(* However often the rate of a floating term is changed, each day of the     *)
(* term has one rate exactly (add_floating_rate_period after                 *)
(* trim_rate_period_end), for terms, calendars and changes of any size.      *)
THEOREM EveryDayHasOneRate == Spec => []OneRatePerDay
BY RatesInvariant, OrderedPeriodsGiveOneRate, PTL

-----------------------------------------------------------------------------
(* The numbers of a finite set in their order.                               *)
Rank(S, x) == Cardinality({y \in S : y <= x})

LEMMA RanksGrow ==
    ASSUME NEW S \in SUBSET Int, IsFiniteSet(S)
    PROVE  /\ \A x \in S : Rank(S, x) \in 1 .. Cardinality(S)
           /\ \A x, y \in S : x < y => Rank(S, x) < Rank(S, y)
<1> DEFINE Upto(x) == {y \in S : y <= x}
<1>1. \A x \in S : /\ IsFiniteSet(Upto(x)) /\ Cardinality(Upto(x)) \in Nat
                   /\ Cardinality(Upto(x)) <= Cardinality(S)
  BY FS_Subset, FS_CardinalityType
<1>2. ASSUME NEW x \in S PROVE Rank(S, x) \in 1 .. Cardinality(S)
  <2>1. x \in Upto(x)
    OBVIOUS
  <2>2. Cardinality(Upto(x)) # 0
    BY <1>1, <2>1, FS_EmptySet
  <2> QED
    BY <1>1, <2>2, FS_CardinalityType DEF Rank
<1>3. ASSUME NEW x \in S, NEW y \in S, x < y PROVE Rank(S, x) < Rank(S, y)
  <2>0. x \in Int /\ y \in Int /\ \A z \in S : z \in Int
    OBVIOUS
  <2>1. Upto(x) \in SUBSET Upto(y) /\ y \in Upto(y) /\ y \notin Upto(x)
    <3>1. ASSUME NEW z \in S, z <= x PROVE z <= y
      BY <1>3, <2>0, <3>1
    <3>2. ~(y <= x) /\ y <= y
      BY <1>3, <2>0
    <3> QED
      BY <3>1, <3>2
  <2> HIDE DEF Upto
  <2>2. Cardinality(Upto(x)) <= Cardinality(Upto(y)) /\ Upto(x) # Upto(y)
    BY <1>1, <2>1, FS_Subset
  <2>3. Cardinality(Upto(x)) # Cardinality(Upto(y))
    BY <1>1, <2>1, <2>2, FS_Subset
  <2>4. Rank(S, x) = Cardinality(Upto(x)) /\ Rank(S, y) = Cardinality(Upto(y))
    BY DEF Rank, Upto
  <2>5. Cardinality(Upto(x)) \in Nat /\ Cardinality(Upto(y)) \in Nat
    BY <1>1
  <2> QED
    BY <2>2, <2>3, <2>4, <2>5
<1> QED
  BY <1>2, <1>3

LEMMA NthFacts ==
    ASSUME NEW S \in SUBSET Int, IsFiniteSet(S)
    PROVE  /\ \A k \in 1 .. Cardinality(S) : Nth(S, k) \in S
           /\ \A x \in S : \E k \in 1 .. Cardinality(S) : Nth(S, k) = x
           /\ \A j, k \in 1 .. Cardinality(S) : j < k => Nth(S, j) < Nth(S, k)
<1>0. PICK n \in Nat : n = Cardinality(S)
  BY FS_CardinalityType
<1> DEFINE rank == [x \in S |-> Rank(S, x)]
<1>1. /\ \A x \in S : Rank(S, x) \in 1 .. n
      /\ \A x, y \in S : x < y => Rank(S, x) < Rank(S, y)
  BY <1>0, RanksGrow
<1>2. rank \in [S -> 1 .. n]
  BY <1>1
<1>3. ASSUME NEW x \in S, NEW y \in S, Rank(S, x) = Rank(S, y) PROVE x = y
  <2>1. Rank(S, x) \in Int /\ Rank(S, y) \in Int
    BY <1>1
  <2>2. ~(x < y) /\ ~(y < x)
    BY <1>1, <1>3, <2>1
  <2> QED
    BY <2>2
<1>4. rank \in Injection(S, 1 .. n)
  BY <1>2, <1>3 DEF Injection, IsInjective
<1>5. IsFiniteSet(1 .. n) /\ Cardinality(1 .. n) = n
  BY FS_Interval
<1>6. rank \in Surjection(S, 1 .. n)
  <2> HIDE DEF rank
  <2> QED
    BY <1>0, <1>4, <1>5, FS_Injection
<1>7. \A k \in 1 .. n : \E x \in S : rank[x] = k
  <2> HIDE DEF rank
  <2> QED
    BY <1>6 DEF Surjection
<1>8. ASSUME NEW k \in 1 .. n PROVE Nth(S, k) \in S /\ Rank(S, Nth(S, k)) = k
  <2>1. Nth(S, k) = CHOOSE x \in S : Rank(S, x) = k
    BY Zenon DEF Nth, Rank
  <2>2. \E x \in S : Rank(S, x) = k
    BY <1>7
  <2> QED
    BY <2>1, <2>2
<1>9. \A x \in S : Nth(S, Rank(S, x)) = x
  BY <1>1, <1>3, <1>8
<1>10. ASSUME NEW j \in 1 .. n, NEW k \in 1 .. n, j < k
       PROVE  Nth(S, j) < Nth(S, k)
  <2>1. PICK x \in S : x = Nth(S, j) /\ Rank(S, x) = j
    BY <1>8
  <2>2. PICK y \in S : y = Nth(S, k) /\ Rank(S, y) = k
    BY <1>8
  <2>3. ~(y < x) /\ x # y
    BY <1>1, <1>10, <2>1, <2>2
  <2> QED
    BY <2>1, <2>2, <2>3
<1> QED
  BY <1>0, <1>1, <1>8, <1>9, <1>10

(* The rows of a table that are in a set: where they stood.                  *)
IsPlaces(p, ls, S) ==
    /\ Only(ls, S) = [k \in 1 .. Len(Only(ls, S)) |-> ls[p[k]]]
    /\ \A k \in 1 .. Len(Only(ls, S)) : p[k] \in 1 .. Len(ls) /\ ls[p[k]] \in S
    /\ \A j, k \in 1 .. Len(Only(ls, S)) : j < k => p[j] < p[k]
    /\ \A i \in 1 .. Len(ls) :
        ls[i] \in S => \E k \in 1 .. Len(Only(ls, S)) : p[k] = i

LEMMA OnlyPlaces ==
    ASSUME NEW X, NEW ls \in Seq(X), NEW S
    PROVE  Only(ls, S) \in Seq(X) /\ \E p : IsPlaces(p, ls, S)
<1> DEFINE at == {i \in 1 .. Len(ls) : ls[i] \in S}
           p == [k \in 1 .. Cardinality(at) |-> Nth(at, k)]
<1>1. DOMAIN ls = 1 .. Len(ls) /\ Len(ls) \in Nat
  BY LenProperties
<1>2. at \in SUBSET Int /\ at \in SUBSET (1 .. Len(ls))
  OBVIOUS
<1>3. IsFiniteSet(at)
  <2>1. IsFiniteSet(1 .. Len(ls))
    BY <1>1, FS_Interval
  <2> HIDE DEF at
  <2> QED
    BY <1>2, <2>1, FS_Subset
<1>4. PICK n \in Nat : n = Cardinality(at)
  BY <1>3, FS_CardinalityType
<1>5. /\ \A k \in 1 .. n : Nth(at, k) \in at
      /\ \A x \in at : \E k \in 1 .. n : Nth(at, k) = x
      /\ \A j, k \in 1 .. n : j < k => Nth(at, j) < Nth(at, k)
  <2> HIDE DEF at
  <2> QED
    BY <1>2, <1>3, <1>4, NthFacts
<1>6. \A k \in 1 .. n : p[k] = Nth(at, k)
  <2> HIDE DEF at
  <2> QED
    BY <1>4
<1> HIDE DEF p
<1>7. Only(ls, S) = [k \in 1 .. n |-> ls[Nth(at, k)]]
  BY Zenon, <1>1, <1>4 DEF Only
<1>8. \A k \in 1 .. n : ls[Nth(at, k)] \in X
  BY <1>2, <1>5, ElementOfSeq
<1> HIDE DEF at
<1>9. Only(ls, S) \in Seq(X) /\ Len(Only(ls, S)) = n
  BY <1>7, <1>8
<1>10. Only(ls, S) = [k \in 1 .. n |-> ls[p[k]]]
  BY <1>6, <1>7
<1>11. \A k \in 1 .. n : p[k] \in at
  BY <1>5, <1>6
<1>12. \A k \in 1 .. n : p[k] \in 1 .. Len(ls) /\ ls[p[k]] \in S
  BY <1>11 DEF at
<1>13. \A j, k \in 1 .. n : j < k => p[j] < p[k]
  BY <1>5, <1>6
<1>14. ASSUME NEW i \in 1 .. Len(ls), ls[i] \in S
       PROVE  \E k \in 1 .. n : p[k] = i
  <2>1. i \in at
    BY <1>14 DEF at
  <2> QED
    BY <2>1, <1>5, <1>6
<1>15. IsPlaces(p, ls, S)
  BY <1>9, <1>10, <1>12, <1>13, <1>14 DEF IsPlaces
<1> QED
  BY <1>9, <1>15

LEMMA OnlyMembers ==
    ASSUME NEW X, NEW ls \in Seq(X), NEW S
    PROVE  /\ Only(ls, S) \in Seq(X)
           /\ \A l : l \in Range(Only(ls, S)) <=> l \in Range(ls) /\ l \in S
<1>1. PICK p : IsPlaces(p, ls, S)
  BY OnlyPlaces
<1>2. PICK out : out = Only(ls, S)
  OBVIOUS
<1>3. out \in Seq(X)
  BY <1>2, OnlyPlaces
<1>4. /\ \A k \in 1 .. Len(out) : out[k] = ls[p[k]]
      /\ \A k \in 1 .. Len(out) : p[k] \in 1 .. Len(ls) /\ ls[p[k]] \in S
      /\ \A i \in 1 .. Len(ls) :
            ls[i] \in S => \E k \in 1 .. Len(out) : p[k] = i
  BY <1>1, <1>2 DEF IsPlaces
<1>5. DOMAIN out = 1 .. Len(out) /\ DOMAIN ls = 1 .. Len(ls)
  BY <1>3
<1>6. ASSUME NEW l PROVE l \in Range(out) <=> l \in Range(ls) /\ l \in S
  <2>1. ASSUME l \in Range(out) PROVE l \in Range(ls) /\ l \in S
    <3>1. PICK k \in 1 .. Len(out) : l = out[k]
      BY <1>5, <2>1 DEF Range
    <3> QED
      BY <1>4, <1>5, <3>1 DEF Range
  <2>2. ASSUME l \in Range(ls), l \in S PROVE l \in Range(out)
    <3>1. PICK i \in 1 .. Len(ls) : l = ls[i]
      BY <1>5, <2>2 DEF Range
    <3>2. PICK k \in 1 .. Len(out) : p[k] = i
      BY <1>4, <2>2, <3>1
    <3>3. l = out[k]
      BY <1>4, <3>1, <3>2
    <3> QED
      BY <1>5, <3>3 DEF Range
  <2> QED
    BY <2>1, <2>2
<1> QED
  BY <1>2, <1>3, <1>6

LEMMA ConcatMembers ==
    ASSUME NEW X, NEW a \in Seq(X), NEW b \in Seq(X)
    PROVE  /\ a \o b \in Seq(X)
           /\ \A l : l \in Range(a \o b) <=> l \in Range(a) \/ l \in Range(b)
<1>1. /\ a \o b \in Seq(X) /\ Len(a \o b) = Len(a) + Len(b)
      /\ \A i \in 1 .. Len(a) : (a \o b)[i] = a[i]
      /\ \A i \in 1 .. Len(b) : (a \o b)[Len(a) + i] = b[i]
      /\ Len(a) \in Nat /\ Len(b) \in Nat
  OBVIOUS
<1>2. PICK ab : ab = a \o b
  OBVIOUS
<1>3. /\ DOMAIN ab = 1 .. Len(a) + Len(b) /\ DOMAIN a = 1 .. Len(a)
      /\ DOMAIN b = 1 .. Len(b)
  BY <1>1, <1>2
<1>4. ASSUME NEW i \in 1 .. Len(a) + Len(b)
      PROVE  ab[i] \in Range(a) \/ ab[i] \in Range(b)
  <2>1. CASE i \in 1 .. Len(a)
    BY <1>1, <1>2, <1>3, <2>1 DEF Range
  <2>2. CASE i \notin 1 .. Len(a)
    <3>1. i - Len(a) \in 1 .. Len(b) /\ i = Len(a) + (i - Len(a))
      BY <1>1, <2>2
    <3> QED
      BY <1>1, <1>2, <1>3, <3>1 DEF Range
  <2> QED
    BY <2>1, <2>2
<1>5. ASSUME NEW l, l \in Range(a) \/ l \in Range(b) PROVE l \in Range(ab)
  <2>1. CASE l \in Range(a)
    <3>1. PICK i \in 1 .. Len(a) : l = a[i]
      BY <1>3, <2>1 DEF Range
    <3>2. i \in 1 .. Len(a) + Len(b) /\ ab[i] = l
      BY <1>1, <1>2, <3>1
    <3> QED
      BY <1>3, <3>2 DEF Range
  <2>2. CASE l \in Range(b)
    <3>1. PICK i \in 1 .. Len(b) : l = b[i]
      BY <1>3, <2>2 DEF Range
    <3>2. Len(a) + i \in 1 .. Len(a) + Len(b) /\ ab[Len(a) + i] = l
      BY <1>1, <1>2, <3>1
    <3> QED
      BY <1>3, <3>2 DEF Range
  <2> QED
    BY <1>5, <2>1, <2>2
<1>6. ASSUME NEW l, l \in Range(ab) PROVE l \in Range(a) \/ l \in Range(b)
  <2>1. PICK i \in 1 .. Len(a) + Len(b) : l = ab[i]
    BY <1>3, <1>6 DEF Range
  <2> QED
    BY <1>4, <2>1
<1> QED
  BY <1>1, <1>2, <1>5, <1>6

-----------------------------------------------------------------------------
(* The dates of the schedule are days of the calendar.                       *)
LEMMA MonthOfDay ==
    ASSUME NEW day \in Day
    PROVE  /\ MonthOf(day) \in DOMAIN MonthLengths
           /\ MonthStart(MonthOf(day)) <= day
<1>1. PICK n \in Nat : n = Len(MonthLengths)
  BY LenProperties
<1>2. PICK last \in Nat : last = DaysInAll
  BY MonthSums
<1>3. day \in 1 .. last /\ FirstSum(MonthLengths, n) = last
  BY <1>1, <1>2, MonthSums DEF Day
<1>4. PICK m \in 1 .. n :
        FirstSum(MonthLengths, m - 1) < day /\ day <= FirstSum(MonthLengths, m)
  BY <1>1, <1>3, MonthSums DEF Rising
<1>5. /\ MonthStart(m) = FirstSum(MonthLengths, m - 1) + 1
      /\ MonthEnd(m) = FirstSum(MonthLengths, m)
      /\ MonthStart(m) \in Nat
  BY <1>1, MonthSums
<1>6. FirstSum(MonthLengths, m - 1) \in Nat /\ FirstSum(MonthLengths, m) \in Nat
  <2>1. m - 1 \in 0 .. n /\ m \in 0 .. n
    OBVIOUS
  <2> QED
    BY <1>1, <2>1, MonthSums DEF Rising
<1>7. m \in DOMAIN MonthLengths /\ day \in MonthStart(m) .. MonthEnd(m)
  BY <1>1, <1>3, <1>4, <1>5, <1>6
<1>8. /\ MonthOf(day) \in DOMAIN MonthLengths
      /\ day \in MonthStart(MonthOf(day)) .. MonthEnd(MonthOf(day))
  BY <1>7 DEF MonthOf
<1>9. MonthStart(MonthOf(day)) \in Nat
  BY <1>8, MonthSums
<1> QED
  BY <1>3, <1>8, <1>9

-----------------------------------------------------------------------------
(* The dates of a schedule are days, and rise wherever the one before leaves *)
(* room for a period.                                                        *)
LEMMA AscendingDays ==
    ASSUME NEW S, S \subseteq Day
    PROVE  /\ Ascending(S) \in Seq(Day)
           /\ \A i, j \in 1 .. Len(Ascending(S)) :
                i < j => Ascending(S)[i] < Ascending(S)[j]
<1>1. DaysInAll \in Int /\ 1 \in Int /\ S \subseteq 1 .. DaysInAll /\ S \in SUBSET Int
  BY MonthSums DEF Day
<1>2. IsFiniteSet(S)
  BY Zenon, <1>1, PartsAreFinite
<1>3. PICK n \in Nat : n = Cardinality(S)
  BY <1>2, FS_CardinalityType
<1>4. /\ \A k \in 1 .. n : Nth(S, k) \in S
      /\ \A j, k \in 1 .. n : j < k => Nth(S, j) < Nth(S, k)
  BY <1>1, <1>2, <1>3, NthFacts
<1>5. PICK dates : dates = Ascending(S)
  OBVIOUS
<1>6. dates = [k \in 1 .. n |-> Nth(S, k)]
  BY <1>3, <1>5 DEF Ascending
<1>7. dates \in Seq(Day) /\ Len(dates) = n
  BY <1>4, <1>6
<1>8. \A i, j \in 1 .. n : i < j => dates[i] < dates[j]
  BY <1>4, <1>6
<1> QED
  BY <1>5, <1>7, <1>8

LEMMA MonthlyDatesAreDays ==
    ASSUME NEW opened \in Day, NEW matures \in Day
    PROVE  MonthlyPayoutDates(opened, matures) \subseteq Day
<1> DEFINE dayOfMonth == opened - MonthStart(MonthOf(opened)) + 1
<1>1. dayOfMonth \in Nat \ {0}
  <2>1. PICK m : m = MonthOf(opened)
    OBVIOUS
  <2>2. m \in 1 .. Len(MonthLengths) /\ MonthStart(m) <= opened
    BY <2>1, MonthOfDay
  <2>3. PICK s \in Nat \ {0} : s = MonthStart(m)
    BY <2>2, MonthSums
  <2>4. opened \in Int
    BY DEF Day
  <2>5. opened - s + 1 \in Nat \ {0}
    BY <2>2, <2>3, <2>4
  <2> QED
    BY <2>1, <2>3, <2>5
<1> HIDE DEF dayOfMonth
<1>2. ASSUME NEW m \in DOMAIN MonthLengths, ClampToMonth(m, dayOfMonth) < matures
      PROVE  ClampToMonth(m, dayOfMonth) \in Day
  <2>1. m \in 1 .. Len(MonthLengths)
    OBVIOUS
  <2>2. PICK s \in Nat \ {0} : s = MonthStart(m)
    BY <2>1, MonthSums
  <2>3. PICK length \in Nat \ {0} : length = MonthLengths[m]
    BY <2>1, MonthSums
  <2>4. {dayOfMonth, length} \in SUBSET Int /\ IsFiniteSet({dayOfMonth, length})
    <3>1. IsFiniteSet({dayOfMonth} \cup {length})
      BY FS_Singleton, FS_AddElement
    <3>2. {dayOfMonth, length} = {dayOfMonth} \cup {length}
      OBVIOUS
    <3>3. {dayOfMonth, length} \in SUBSET Int
      BY <1>1
    <3>4. IsFiniteSet({dayOfMonth, length})
      BY Zenon, <3>1, <3>2
    <3> QED
      BY <3>3, <3>4
  <2>5. PICK least : least = Min({dayOfMonth, length})
    OBVIOUS
  <2>6. least \in {dayOfMonth, length}
    BY <2>4, <2>5, LeastAndGreatest
  <2>7. least \in Nat \ {0}
    BY <1>1, <2>6
  <2>8. ClampToMonth(m, dayOfMonth) = s - 1 + least
    BY <2>2, <2>3, <2>5 DEF ClampToMonth
  <2>9. s - 1 + least < matures
    BY <1>2, <2>8
  <2>10. DaysInAll \in Int
    BY MonthSums
  <2> QED
    BY <2>7, <2>8, <2>9, <2>10 DEF Day
<1> QED
  BY <1>2 DEF MonthlyPayoutDates, dayOfMonth

IsSchedule(dates) ==
    /\ dates \in Seq(Day)
    /\ \A i, j \in 1 .. Len(dates) :
        i < j /\ dates[j - 1] < dates[j] => dates[i] < dates[j]

LEMMA RisingSchedule ==
    ASSUME NEW S, S \subseteq Day PROVE IsSchedule(Ascending(S))
BY AscendingDays DEF IsSchedule

LEMMA AppendedSchedule ==
    ASSUME NEW S, S \subseteq Day, NEW day \in Day
    PROVE  IsSchedule(Append(Ascending(S), day))
<1>1. PICK dates : dates = Ascending(S)
  OBVIOUS
<1>2. /\ dates \in Seq(Day)
      /\ \A i, j \in 1 .. Len(dates) : i < j => dates[i] < dates[j]
  BY <1>1, AscendingDays
<1>3. PICK n \in Nat : n = Len(dates)
  BY <1>2
<1>4. PICK all : all = Append(dates, day)
  OBVIOUS
<1>5. /\ all \in Seq(Day) /\ Len(all) = n + 1 /\ all[n + 1] = day
      /\ \A i \in 1 .. n : all[i] = dates[i]
  BY <1>2, <1>3, <1>4
<1>6. \A d \in Day : d \in Int
  BY MonthSums DEF Day
<1>7. ASSUME NEW i \in 1 .. n + 1, NEW j \in 1 .. n + 1,
             i < j, all[j - 1] < all[j]
      PROVE  all[i] < all[j]
  <2>1. CASE j <= n
    <3>1. i \in 1 .. n /\ j \in 1 .. n
      BY <1>7, <2>1
    <3> QED
      BY <1>2, <1>3, <1>5, <1>7, <3>1
  <2>2. CASE j = n + 1
    <3>1. i \in 1 .. n /\ n \in 1 .. n /\ j - 1 = n
      BY <1>7, <2>2
    <3>2. all[n] < all[j] /\ all[i] = dates[i] /\ all[n] = dates[n]
      BY <1>5, <1>7, <3>1
    <3>3. i = n \/ dates[i] < dates[n]
      BY <1>2, <1>3, <3>1
    <3>4. all[i] \in Int /\ all[n] \in Int /\ all[j] \in Int
      BY <1>5, <1>6, <3>1
    <3> QED
      BY <3>2, <3>3, <3>4
  <2> QED
    BY <1>7, <2>1, <2>2
<1>8. IsSchedule(all)
  BY <1>5, <1>7 DEF IsSchedule
<1> QED
  BY <1>1, <1>4, <1>8

LEMMA ScheduleOfTerm ==
    ASSUME NEW t \in Terms PROVE IsSchedule(PayoutDates(t))
<1>1. /\ t.opened \in Day /\ t.matures \in Day /\ t.custom \subseteq Day
      /\ t.schedule \in {"monthly", "custom", "maturity"}
  BY DEF Term
<1>2. CASE t.schedule = "monthly"
  <2>1. PayoutDates(t) = Ascending(MonthlyPayoutDates(t.opened, t.matures))
    BY <1>2 DEF PayoutDates
  <2> QED
    BY <1>1, <2>1, MonthlyDatesAreDays, RisingSchedule
<1>3. CASE t.schedule = "custom"
  <2>1. PayoutDates(t) \in {Ascending(t.custom), Append(Ascending(t.custom), t.matures)}
    BY <1>3 DEF PayoutDates
  <2> QED
    BY <1>1, <2>1, RisingSchedule, AppendedSchedule
<1>4. CASE t.schedule = "maturity"
  <2>1. PayoutDates(t) = <<t.matures>>
    BY <1>4 DEF PayoutDates
  <2>2. <<t.matures>> \in Seq(Day) /\ Len(<<t.matures>>) = 1
    BY <1>1
  <2> QED
    BY <2>1, <2>2 DEF IsSchedule
<1> QED
  BY <1>1, <1>2, <1>3, <1>4

(* A payout rolled to a working day is a number, and is not before its date  *)
(* unless dates are rolled back.                                             *)
LEMMA RolledDays ==
    ASSUME NEW day \in Day, NEW convention \in {"none", "following", "preceding"}
    PROVE  /\ RollToBusinessDay(day, convention) \in Int
           /\ convention # "preceding" => day <= RollToBusinessDay(day, convention)
<1>1. DaysInAll \in Int /\ day \in Int /\ 1 <= day /\ day <= DaysInAll
  BY MonthSums DEF Day
<1>2. CASE convention = "none" \/ day \notin Weekend
  <2>1. RollToBusinessDay(day, convention) = day
    BY <1>2 DEF RollToBusinessDay
  <2> QED
    BY <1>1, <2>1
<1>3. CASE convention = "following" /\ day \in Weekend
  <2> DEFINE last == Max(Day)
             next == {d \in day .. last + 1 : d \notin Weekend}
  <2>1. Day \in SUBSET Int /\ Day \subseteq 1 .. DaysInAll /\ 1 \in Int /\ Day # {}
    BY <1>1 DEF Day
  <2>2. IsFiniteSet(Day)
    BY Zenon, <1>1, <2>1, PartsAreFinite
  <2>3. last \in Day /\ \A d \in Day : d <= last
    BY <2>1, <2>2, LeastAndGreatest
  <2>4. last \in Int /\ day <= last
    BY <2>1, <2>3
  <2>5. last + 1 \notin Day
    BY <2>3, <2>4
  <2> HIDE DEF last
  <2>6. last + 1 \in next /\ next \in SUBSET Int /\ next \subseteq day .. last + 1
    BY <1>1, <2>4, <2>5
  <2>7. RollToBusinessDay(day, convention) = Min(next)
    BY <1>3 DEF RollToBusinessDay, last
  <2> HIDE DEF next
  <2>8. day \in Int /\ last + 1 \in Int
    BY <1>1, <2>4
  <2>9. IsFiniteSet(next)
    BY Zenon, <2>6, <2>8, PartsAreFinite
  <2>10. Min(next) \in next
    BY <2>6, <2>9, LeastAndGreatest
  <2>11. Min(next) \in day .. last + 1
    BY <2>6, <2>10
  <2> QED
    BY <1>1, <2>7, <2>8, <2>11
<1>4. CASE convention = "preceding" /\ day \in Weekend
  <2> DEFINE earlier == {d \in 0 .. day : d \notin Weekend}
  <2>1. 0 \notin Day
    BY DEF Day
  <2>2. /\ 0 \in earlier /\ earlier \in SUBSET Int /\ earlier \subseteq 0 .. day
        /\ 0 \in Int /\ day \in Int
    BY <1>1, <2>1
  <2>3. RollToBusinessDay(day, convention) = Max(earlier)
    BY <1>4 DEF RollToBusinessDay
  <2> HIDE DEF earlier
  <2>4. IsFiniteSet(earlier)
    BY Zenon, <2>2, PartsAreFinite
  <2>5. Max(earlier) \in earlier
    BY <2>2, <2>4, LeastAndGreatest
  <2> QED
    BY <1>4, <2>2, <2>3, <2>5
<1> QED
  BY <1>2, <1>3, <1>4

-----------------------------------------------------------------------------
(* The rows of a forecast.                                                   *)
Row == [payout : Int, from : Nat \ {0}, to : Day, amount : Int,
        undefined : BOOLEAN, tentative : BOOLEAN, confirmed : BOOLEAN,
        seen : BOOLEAN]

LEMMA EventFacts ==
    ASSUME NEW es \in Seq(Event), NEW i \in DOMAIN es
    PROVE  es[i] \in Event /\ es[i].amount \in Int /\ es[i].on \in Day
<1>1. es[i] \in Event
  BY ElementOfSeq
<1> QED
  BY <1>1 DEF Event

LEMMA PrincipalIsInt ==
    ASSUME NEW es \in Seq(Event), NEW day PROVE PrincipalOn(es, day) \in Int
<1> DEFINE f == [i \in DOMAIN es |-> es[i].amount]
           S == {i \in DOMAIN es : es[i].on <= day}
<1>1. S \subseteq 1 .. Len(es) /\ 1 \in Int /\ Len(es) \in Int
  <2>1. DOMAIN es = 1 .. Len(es) /\ Len(es) \in Nat
    BY LenProperties
  <2> QED
    BY <2>1
<1>2. \A i \in S : f[i] \in Int
  BY EventFacts
<1>3. PrincipalOn(es, day) = SumFunctionOnSet(f, S)
  BY DEF PrincipalOn
<1> HIDE DEF f, S
<1>4. IsFiniteSet(S)
  BY Zenon, <1>1, PartsAreFinite
<1> QED
  BY <1>2, <1>3, <1>4, SumIsInt

LEMMA RateIsNat ==
    ASSUME NEW rs \in Seq(RatePeriod), NEW day, Covering(rs, day) # {}
    PROVE  RateOn(rs, day) \in Nat
<1>1. (CHOOSE i \in Covering(rs, day) : TRUE) \in Covering(rs, day)
  OBVIOUS
<1>2. PICK i \in DOMAIN rs : i = CHOOSE j \in Covering(rs, day) : TRUE
  BY <1>1 DEF Covering
<1>3. i \in 1 .. Len(rs)
  OBVIOUS
<1>4. rs[i].rate \in Rates
  BY <1>3, PeriodFacts
<1> QED
  BY <1>2, <1>4 DEF RateOn

LEMMA AccrualDaysFinite ==
    ASSUME NEW t \in Terms, NEW from \in Int, NEW to \in Int
    PROVE  /\ IsFiniteSet(AccrualDays(t, from, to))
           /\ \A d \in AccrualDays(t, from, to) : d \in Int /\ d <= to
<1>1. PICK a \in Int, b \in Int : AccrualDays(t, from, to) = a .. b /\ b <= to
  <2>1. (IF t.startIncluded THEN from ELSE from + 1) \in Int
    OBVIOUS
  <2>2. /\ (IF t.endIncluded THEN to ELSE to - 1) \in Int
        /\ (IF t.endIncluded THEN to ELSE to - 1) <= to
    OBVIOUS
  <2> QED
    BY <2>1, <2>2 DEF AccrualDays
<1>2. IsFiniteSet(a .. b)
  BY FS_Interval
<1> QED
  BY <1>1, <1>2

Earned(es, rs, from, to) ==
    SumFunctionOnSet(
        [d \in AccrualDays(term, from, to) |-> PrincipalOn(es, d) * RateOn(rs, d)],
        AccrualDays(term, from, to))

LEMMA EarnedIsInt ==
    ASSUME term \in Terms, NEW es \in Seq(Event), NEW rs \in Seq(RatePeriod),
           NEW from \in Int, NEW to \in Int,
           \A d \in AccrualDays(term, from, to) : Covering(rs, d) # {}
    PROVE  Earned(es, rs, from, to) \in Int
<1>1. PICK days : days = AccrualDays(term, from, to)
  OBVIOUS
<1> DEFINE f == [d \in days |-> PrincipalOn(es, d) * RateOn(rs, d)]
<1>2. IsFiniteSet(days)
  BY <1>1, AccrualDaysFinite
<1>3. ASSUME NEW d \in days PROVE f[d] \in Int
  <2>1. PrincipalOn(es, d) \in Int
    BY PrincipalIsInt
  <2>2. RateOn(rs, d) \in Nat
    BY <1>1, RateIsNat
  <2> QED
    BY <2>1, <2>2
<1>4. Earned(es, rs, from, to) = SumFunctionOnSet(f, days)
  BY <1>1 DEF Earned
<1> HIDE DEF f
<1> QED
  BY <1>2, <1>3, <1>4, SumIsInt

IsRow(l, from, to) ==
    /\ l \in Row /\ l.from = from /\ l.to = to
    /\ l.payout = RollToBusinessDay(to, term.convention)
    /\ l.confirmed = FALSE /\ l.seen = FALSE

LEMMA RowFacts ==
    ASSUME term \in Terms, NEW es \in Seq(Event), NEW rs \in Seq(RatePeriod),
           NEW from \in Nat \ {0}, NEW to \in Day,
           NEW l, l = ForecastLine(es, rs, from, to)
    PROVE  IsRow(l, from, to)
<1>1. to \in Int /\ from \in Int
  BY MonthSums DEF Day
<1>2. term.convention \in {"none", "following", "preceding"}
  BY DEF Term
<1>3. PICK payout \in Int : payout = RollToBusinessDay(to, term.convention)
  BY <1>2, RolledDays
<1>4. PICK undefined \in BOOLEAN :
        undefined = (\E d \in AccrualDays(term, from, to) : Covering(rs, d) = {})
  OBVIOUS
<1>5. PICK amount : amount = IF undefined THEN 0 ELSE Earned(es, rs, from, to)
  OBVIOUS
<1>6. amount \in Int
  BY <1>1, <1>4, <1>5, EarnedIsInt
<1>7. l = [payout |-> payout, from |-> from, to |-> to, amount |-> amount,
           undefined |-> undefined, tentative |-> payout # to,
           confirmed |-> FALSE, seen |-> FALSE]
  BY Zenon, <1>3, <1>4, <1>5 DEF ForecastLine, Earned
<1> QED
  BY <1>3, <1>6, <1>7 DEF Row, IsRow

(* A computed forecast, of any events and rates.                             *)
StartOf(dates, i) == IF i = 1 THEN term.opened ELSE dates[i - 1] + 1

IsForecast(new) ==
    /\ new \in Seq(Row)
    /\ Len(new) = Len(PayoutDates(term))
    /\ \A i \in 1 .. Len(new) :
        /\ new[i].to = PayoutDates(term)[i]
        /\ new[i].from = StartOf(PayoutDates(term), i)
        /\ new[i].payout = RollToBusinessDay(new[i].to, term.convention)
        /\ new[i].confirmed = FALSE /\ new[i].seen = FALSE

LEMMA BuiltForecast ==
    ASSUME term \in Terms, NEW es \in Seq(Event), NEW rs \in Seq(RatePeriod)
    PROVE  /\ IsForecast(BuildForecast(es, rs))
           /\ \A l \in Range(BuildForecast(es, rs)) :
                l = ForecastLine(es, rs, l.from, l.to)
<1>1. PICK dates : dates = PayoutDates(term)
  OBVIOUS
<1>2. dates \in Seq(Day)
  BY <1>1, ScheduleOfTerm DEF IsSchedule
<1>3. PICK n \in Nat : n = Len(dates) /\ DOMAIN dates = 1 .. n
  BY <1>2
<1>4. PICK new : new = BuildForecast(es, rs)
  OBVIOUS
<1>5. new = [i \in 1 .. n |-> ForecastLine(es, rs, StartOf(dates, i), dates[i])]
  BY Zenon, <1>1, <1>3, <1>4 DEF BuildForecast, StartOf
<1>6. ASSUME NEW i \in 1 .. n
      PROVE  StartOf(dates, i) \in Nat \ {0} /\ dates[i] \in Day
  <2>1. term.opened \in Day
    BY DEF Term
  <2>2. \A d \in Day : d \in Nat \ {0} /\ d + 1 \in Nat \ {0}
    BY MonthSums DEF Day
  <2>3. i # 1 => i - 1 \in 1 .. n
    OBVIOUS
  <2>4. \A j \in 1 .. n : dates[j] \in Day
    BY <1>2, <1>3, ElementOfSeq
  <2> QED
    BY <2>1, <2>2, <2>3, <2>4 DEF StartOf
<1>7. ASSUME NEW i \in 1 .. n
      PROVE  /\ new[i] \in Row /\ new[i].from = StartOf(dates, i)
             /\ new[i].to = dates[i]
             /\ new[i].payout = RollToBusinessDay(new[i].to, term.convention)
             /\ new[i].confirmed = FALSE /\ new[i].seen = FALSE
             /\ new[i] = ForecastLine(es, rs, new[i].from, new[i].to)
  <2>1. PICK from \in Nat \ {0} : from = StartOf(dates, i)
    BY <1>6
  <2>2. PICK to \in Day : to = dates[i]
    BY <1>6
  <2>3. PICK l : l = new[i]
    OBVIOUS
  <2>4. l = ForecastLine(es, rs, from, to)
    BY <1>5, <2>1, <2>2, <2>3
  <2>5. IsRow(l, from, to)
    BY <2>4, RowFacts
  <2> QED
    BY Zenon, <2>1, <2>2, <2>3, <2>4, <2>5 DEF IsRow
<1>8. new \in Seq(Row) /\ Len(new) = n /\ DOMAIN new = 1 .. n
  <2>1. \A i \in 1 .. n : new[i] \in Row
    BY <1>7
  <2>2. new \in [1 .. n -> Row]
    BY Zenon, <1>5, <2>1
  <2> QED
    BY <2>2
<1>9. IsForecast(new)
  BY <1>1, <1>3, <1>7, <1>8 DEF IsForecast
<1>10. \A l \in Range(new) : l = ForecastLine(es, rs, l.from, l.to)
  BY <1>7, <1>8 DEF Range
<1> QED
  BY <1>4, <1>9, <1>10

-----------------------------------------------------------------------------
(* The rows of the table: each is typed, of a date of the schedule, and due  *)
(* on that date's working day.                                               *)
Follows(l, t) ==
    /\ l \in Line /\ l.to \in Range(PayoutDates(t))
    /\ l.payout = RollToBusinessDay(l.to, t.convention)

RowsFollow(ls, t) == ls \in Seq(Line) /\ \A l \in Range(ls) : Follows(l, t)

LEMMA StoredRow ==
    ASSUME NEW l \in Row, l.amount >= 0, l.from <= l.to PROVE l \in Line
<1>1. l.from \in Day
  BY MonthSums DEF Row, Day
<1>2. l.amount \in Nat
  BY DEF Row
<1> QED
  BY <1>1, <1>2 DEF Row, Line

LEMMA ForecastRows ==
    ASSUME term \in Terms, NEW new, IsForecast(new), NEW l \in Range(new)
    PROVE  /\ l \in Row /\ l.to \in Range(PayoutDates(term))
           /\ l.payout = RollToBusinessDay(l.to, term.convention)
           /\ l.confirmed = FALSE /\ l.seen = FALSE
<1>1. new \in Seq(Row) /\ DOMAIN new = 1 .. Len(new)
  BY DEF IsForecast
<1>2. PICK i \in 1 .. Len(new) : l = new[i]
  BY <1>1 DEF Range
<1>3. DOMAIN PayoutDates(term) = 1 .. Len(new)
  BY ScheduleOfTerm DEF IsSchedule, IsForecast
<1>4. l.to \in Range(PayoutDates(term))
  BY <1>2, <1>3 DEF IsForecast, Range
<1>5. l \in Row
  BY <1>1, <1>2, ElementOfSeq
<1> QED
  BY <1>2, <1>4, <1>5 DEF IsForecast

LEMMA ForecastPeriods ==
    ASSUME term \in Terms, NEW new, IsForecast(new),
           NEW to \in Range(PayoutDates(term))
    PROVE  \E l \in Range(new) : l.to = to
<1>1. new \in Seq(Row) /\ DOMAIN new = 1 .. Len(new)
  BY DEF IsForecast
<1>2. DOMAIN PayoutDates(term) = 1 .. Len(new)
  BY ScheduleOfTerm DEF IsSchedule, IsForecast
<1>3. PICK i \in 1 .. Len(new) : to = PayoutDates(term)[i]
  BY <1>2 DEF Range
<1>4. new[i] \in Range(new) /\ new[i].to = to
  BY <1>1, <1>3 DEF IsForecast, Range
<1> QED
  BY <1>4

LEMMA SomeStored ==
    ASSUME term \in Terms, NEW new, IsForecast(new), NEW S, Storable(Only(new, S))
    PROVE  RowsFollow(Only(new, S), term)
<1>1. PICK out : out = Only(new, S)
  OBVIOUS
<1>2. new \in Seq(Row)
  BY DEF IsForecast
<1>3. /\ out \in Seq(Row)
      /\ \A l : l \in Range(out) <=> l \in Range(new) /\ l \in S
  BY <1>1, <1>2, OnlyMembers
<1>4. DOMAIN out = 1 .. Len(out) /\ \A i \in 1 .. Len(out) : out[i] \in Row
  BY <1>3
<1>5. ASSUME NEW i \in 1 .. Len(out) PROVE out[i] \in Line
  <2>1. PICK l \in Row : l = out[i]
    BY <1>4
  <2>2. l.amount >= 0 /\ l.from <= l.to
    BY <1>1, <1>4, <2>1 DEF Storable
  <2> QED
    BY <2>1, <2>2, StoredRow
<1>6. out \in Seq(Line)
  BY <1>3, <1>5
<1>7. ASSUME NEW l \in Range(out) PROVE Follows(l, term)
  <2>1. l \in Line
    BY <1>4, <1>5 DEF Range
  <2>2. l \in Range(new)
    BY <1>3
  <2>3. /\ l.to \in Range(PayoutDates(term))
        /\ l.payout = RollToBusinessDay(l.to, term.convention)
    BY <2>2, ForecastRows
  <2> QED
    BY <2>1, <2>3 DEF Follows
<1> QED
  BY <1>1, <1>6, <1>7 DEF RowsFollow

LEMMA AllStored ==
    ASSUME term \in Terms, NEW new, IsForecast(new), Storable(new)
    PROVE  RowsFollow(new, term)
<1>1. new \in Seq(Row) /\ DOMAIN new = 1 .. Len(new)
  BY DEF IsForecast
<1>2. ASSUME NEW i \in 1 .. Len(new) PROVE new[i] \in Line
  <2>1. PICK l \in Row : l = new[i]
    BY <1>1
  <2>2. l.amount >= 0 /\ l.from <= l.to
    BY <1>1, <2>1 DEF Storable
  <2> QED
    BY <2>1, <2>2, StoredRow
<1>3. new \in Seq(Line)
  BY <1>1, <1>2
<1>4. ASSUME NEW l \in Range(new) PROVE Follows(l, term)
  <2>1. l \in Line
    BY <1>1, <1>2 DEF Range
  <2>2. /\ l.to \in Range(PayoutDates(term))
        /\ l.payout = RollToBusinessDay(l.to, term.convention)
    BY ForecastRows
  <2> QED
    BY <2>1, <2>2 DEF Follows
<1> QED
  BY <1>3, <1>4 DEF RowsFollow

LEMMA JoinedFollow ==
    ASSUME NEW t, NEW a, NEW b, RowsFollow(a, t), RowsFollow(b, t)
    PROVE  RowsFollow(a \o b, t)
<1>1. a \in Seq(Line) /\ b \in Seq(Line)
  BY DEF RowsFollow
<1>2. PICK ab : ab = a \o b
  OBVIOUS
<1>3. /\ ab \in Seq(Line)
      /\ \A l : l \in Range(ab) <=> l \in Range(a) \/ l \in Range(b)
  BY <1>1, <1>2, ConcatMembers
<1> QED
  BY <1>2, <1>3 DEF RowsFollow

LEMMA PartFollows ==
    ASSUME NEW t, NEW ls, RowsFollow(ls, t), NEW S
    PROVE  RowsFollow(Only(ls, S), t)
<1>1. ls \in Seq(Line)
  BY DEF RowsFollow
<1>2. PICK out : out = Only(ls, S)
  OBVIOUS
<1>3. /\ out \in Seq(Line)
      /\ \A l : l \in Range(out) <=> l \in Range(ls) /\ l \in S
  BY <1>1, <1>2, OnlyMembers
<1> QED
  BY <1>2, <1>3 DEF RowsFollow

(* Rows whose marks alone are set anew.                                      *)
Relabelled(ls, next) ==
    /\ next \in Seq(Line) /\ Len(next) = Len(ls)
    /\ \A i \in 1 .. Len(ls) :
        /\ next[i].to = ls[i].to /\ next[i].payout = ls[i].payout
        /\ next[i].from = ls[i].from /\ next[i].amount = ls[i].amount

LEMMA RelabelledFollow ==
    ASSUME NEW t, NEW ls, RowsFollow(ls, t), NEW next, Relabelled(ls, next)
    PROVE  RowsFollow(next, t)
<1>1. ls \in Seq(Line) /\ next \in Seq(Line) /\ Len(next) = Len(ls)
  BY DEF RowsFollow, Relabelled
<1>2. DOMAIN ls = 1 .. Len(ls) /\ DOMAIN next = 1 .. Len(ls)
  BY <1>1
<1>3. ASSUME NEW i \in 1 .. Len(ls) PROVE Follows(next[i], t)
  <2>1. Follows(ls[i], t)
    BY <1>2 DEF RowsFollow, Range
  <2>2. next[i] \in Line
    BY <1>1, <1>2
  <2>3. next[i].to = ls[i].to /\ next[i].payout = ls[i].payout
    BY DEF Relabelled
  <2> QED
    BY <2>1, <2>2, <2>3 DEF Follows
<1> QED
  BY <1>1, <1>2, <1>3 DEF RowsFollow, Range

LEMMA ConfirmedRow ==
    ASSUME NEW i \in Unconfirmed \cup {0}, lines \in Seq(Line)
    PROVE  /\ Relabelled(lines, Confirm(i))
           /\ \A j \in 1 .. Len(lines) :
                /\ Confirm(i)[j].seen = lines[j].seen
                /\ lines[j].confirmed => Confirm(i)[j] = lines[j]
                /\ Confirm(i)[j].confirmed <=> lines[j].confirmed \/ j = i
<1>1. DOMAIN lines = 1 .. Len(lines) /\ \A j \in 1 .. Len(lines) : lines[j] \in Line
  BY DEF Unconfirmed
<1>2. PICK next : next = Confirm(i)
  OBVIOUS
<1>3. CASE i = 0
  <2>1. next = lines /\ \A j \in 1 .. Len(lines) : j # i
    BY <1>2, <1>3 DEF Confirm
  <2> QED
    BY <1>1, <1>2, <2>1 DEF Relabelled
<1>4. CASE i # 0
  <2>1. i \in 1 .. Len(lines) /\ lines[i].confirmed = FALSE
    BY <1>1, <1>4 DEF Unconfirmed, Line
  <2>2. PICK l : l = [lines[i] EXCEPT !.confirmed = TRUE]
    OBVIOUS
  <2>3. lines[i] \in Line
    BY <1>1, <2>1
  <2>4. /\ l \in Line /\ l.to = lines[i].to /\ l.payout = lines[i].payout
        /\ l.from = lines[i].from /\ l.amount = lines[i].amount
        /\ l.seen = lines[i].seen /\ l.confirmed = TRUE
    BY <2>2, <2>3 DEF Line
  <2>5. next = [lines EXCEPT ![i] = l]
    BY <1>2, <1>4, <2>2 DEF Confirm
  <2>6. /\ next \in Seq(Line) /\ Len(next) = Len(lines)
        /\ \A j \in 1 .. Len(lines) : next[j] = IF j = i THEN l ELSE lines[j]
    BY <2>1, <2>4, <2>5, ExceptSeq
  <2>7. Relabelled(lines, next)
    BY <2>4, <2>6 DEF Relabelled
  <2>8. \A j \in 1 .. Len(lines) :
            /\ next[j].seen = lines[j].seen
            /\ lines[j].confirmed => next[j] = lines[j]
            /\ next[j].confirmed <=> lines[j].confirmed \/ j = i
    BY <2>1, <2>4, <2>6
  <2> QED
    BY <1>2, <2>7, <2>8
<1> QED
  BY <1>3, <1>4

LEMMA MarkedRows ==
    ASSUME NEW ls \in Seq(Line), NEW S
    PROVE  /\ Relabelled(ls, Mark(ls, S))
           /\ \A j \in 1 .. Len(ls) :
                Mark(ls, S)[j] = [ls[j] EXCEPT !.seen = ls[j] \in S]
<1>1. DOMAIN ls = 1 .. Len(ls) /\ Len(ls) \in Nat
  BY LenProperties
<1>2. PICK next : next = Mark(ls, S)
  OBVIOUS
<1>3. next = [j \in 1 .. Len(ls) |-> [ls[j] EXCEPT !.seen = ls[j] \in S]]
  BY <1>1, <1>2 DEF Mark
<1>4. ASSUME NEW j \in 1 .. Len(ls)
      PROVE  /\ next[j] \in Line
             /\ next[j].to = ls[j].to /\ next[j].payout = ls[j].payout
             /\ next[j].from = ls[j].from /\ next[j].amount = ls[j].amount
  <2>0. (ls[j] \in S) \in BOOLEAN
    OBVIOUS
  <2>1. PICK b \in BOOLEAN : b = (ls[j] \in S)
    BY Zenon, <2>0
  <2>2. PICK l \in Line : l = ls[j]
    BY <1>1
  <2>3. next[j] = [l EXCEPT !.seen = b]
    BY Zenon, <1>3, <2>1, <2>2
  <2>4. PICK k : k = [l EXCEPT !.seen = b]
    OBVIOUS
  <2>5. /\ k \in Line /\ k.to = l.to /\ k.payout = l.payout
        /\ k.from = l.from /\ k.amount = l.amount
    BY <2>4 DEF Line
  <2> QED
    BY Zenon, <2>2, <2>3, <2>4, <2>5
<1>5. next \in Seq(Line) /\ Len(next) = Len(ls)
  <2>1. \A j \in 1 .. Len(ls) : next[j] \in Line
    BY <1>4
  <2>2. next \in [1 .. Len(ls) -> Line]
    BY Zenon, <1>3, <2>1
  <2> QED
    BY <1>1, <2>2
<1>6. \A j \in 1 .. Len(ls) : next[j] = [ls[j] EXCEPT !.seen = ls[j] \in S]
  BY Zenon, <1>3
<1>7. Relabelled(ls, next)
  BY Zenon, <1>4, <1>5 DEF Relabelled
<1> QED
  BY Zenon, <1>2, <1>6, <1>7

-----------------------------------------------------------------------------
(* The inductive invariant of the rows, and the kinds of steps there are.    *)
SlowOK ==
    \/ slow = Idle
    \/ /\ slow.step \in {"delete", "insert"} /\ IsForecast(slow.new)
       /\ slow = [step |-> slow.step, new |-> slow.new]

RowsInv ==
    /\ RatesInv /\ Len(rates) <= MaxRates
    /\ matured \in BOOLEAN /\ closed \in BOOLEAN
    /\ events \in Seq(Event) /\ Len(events) <= MaxEvents
    /\ RowsFollow(lines, term)
    /\ SlowOK

Recorded(e) ==
    e \in Event /\ Len(events) < MaxEvents /\ events' = Append(events, e)

(* An event that is followed by a rebuild from its date.                     *)
FromStep(i, e) ==
    /\ i \in Unconfirmed \cup {0} /\ Recorded(e)
    /\ RebuildFrom(Confirm(i), events', e.on)
    /\ UNCHANGED <<term, matured, closed, rates, slow>>

(* An event that rebuilds nothing: interest or a closure taken back.         *)
BackStep(e) ==
    /\ Recorded(e) /\ e.type \in {"interest", "closure"} /\ e.reverses # 0
    /\ closed' \in BOOLEAN
    /\ UNCHANGED <<term, matured, rates, lines, slow>>

LEMMA FirstEvents ==
    ASSUME NEW type \in {"opening", "funding", "topUp", "withdrawal", "closure",
                        "interest"},
           NEW day \in Day, NEW amount \in Int
    PROVE  /\ NewEvent(type, day, amount, 0) \in Event
           /\ NewEvent(type, day, amount, 0).on = day
BY DEF NewEvent, Event

LEMMA RecordedEvent ==
    ASSUME NEW e \in Event, RecordEvent(e) PROVE Recorded(e)
BY DEF RecordEvent, Recorded

LEMMA Compensation ==
    ASSUME RowsInv, NEW i \in DOMAIN events, NEW day \in Day, Compensate(i, day)
    PROVE  \E e : /\ Recorded(e) /\ e.on = day /\ e.type = events[i].type
                 /\ e.reverses # 0
<1>1. events[i] \in Event
  BY EventFacts DEF RowsInv
<1>2. i \in 0 .. MaxEvents /\ i # 0
  BY DEF RowsInv
<1> DEFINE e == NewEvent(events[i].type, day, -events[i].amount, i)
<1>3. PICK type, amount : type = events[i].type /\ amount = -events[i].amount
  OBVIOUS
<1>4. /\ amount \in Int
      /\ type \in {"opening", "funding", "topUp", "withdrawal", "closure", "interest"}
  BY <1>1, <1>3 DEF Event
<1>5. e = [type |-> type, on |-> day, amount |-> amount, reverses |-> i]
  BY <1>3 DEF NewEvent
<1>6. e \in Event /\ e.on = day /\ e.type = type /\ e.reverses = i
  BY <1>2, <1>4, <1>5 DEF Event
<1>7. RecordEvent(e)
  BY DEF Compensate
<1> HIDE DEF e
<1>8. Recorded(e)
  BY <1>6, <1>7, RecordedEvent
<1> QED
  BY <1>2, <1>3, <1>6, <1>8

LEMMA StepKinds ==
    ASSUME RowsInv, [Next]_vars
    PROVE  \/ \E day \in OperationDays, r \in Rates : AddRatePeriod(day, r)
           \/ \E i, e : FromStep(i, e)
           \/ \E i \in Unconfirmed : PayInterestOut(i)
           \/ \E i \in Unconfirmed \cup {0}, day \in OperationDays : Close(i, day)
           \/ \E e : BackStep(e)
           \/ UNCHANGED vars \/ Mature \/ BeginRecalculation
           \/ SelectUnconfirmed \/ FinishRecalculation
<1>1. \A day \in OperationDays : day \in Day
  OBVIOUS
<1>2. Confirm(0) = lines
  BY DEF Confirm
<1>3. ASSUME NEW day \in OperationDays, TopUp(day) PROVE \E i, e : FromStep(i, e)
  <2>1. PICK e : e = NewEvent("topUp", day, 1, 0)
    OBVIOUS
  <2>2. e \in Event /\ e.on = day
    BY <1>1, <2>1, FirstEvents
  <2>3. Recorded(e)
    BY <1>3, <2>1, <2>2, RecordedEvent DEF TopUp
  <2>4. FromStep(0, e)
    BY <1>2, <1>3, <2>2, <2>3 DEF TopUp, FromStep
  <2> QED
    BY <2>4
<1>4. ASSUME NEW day \in OperationDays, Withdraw(day) PROVE \E i, e : FromStep(i, e)
  <2>1. PICK e : e = NewEvent("withdrawal", day, -1, 0)
    OBVIOUS
  <2>2. e \in Event /\ e.on = day
    BY <1>1, <2>1, FirstEvents
  <2>3. Recorded(e)
    BY <1>4, <2>1, <2>2, RecordedEvent DEF Withdraw
  <2>4. FromStep(0, e)
    BY <1>2, <1>4, <2>2, <2>3 DEF Withdraw, FromStep
  <2> QED
    BY <2>4
<1>5. ASSUME NEW day \in OperationDays, NEW i \in Unconfirmed \cup {0},
             CapitalizeInterest(i, day)
      PROVE  \E j, e : FromStep(j, e)
  <2>1. PICK e : e = NewEvent("interest", day, 1, 0)
    OBVIOUS
  <2>2. e \in Event /\ e.on = day
    BY <1>1, <2>1, FirstEvents
  <2>3. Recorded(e)
    BY <1>5, <2>1, <2>2, RecordedEvent DEF CapitalizeInterest
  <2>4. FromStep(i, e)
    BY <1>5, <2>2, <2>3 DEF CapitalizeInterest, FromStep
  <2> QED
    BY <2>4
<1>6. ASSUME NEW day \in OperationDays, NEW i \in DOMAIN events,
             ReversePrincipal(i, day)
      PROVE  \E j, e : FromStep(j, e)
  <2>1. Compensate(i, day) /\ RebuildFrom(lines, events', day)
    BY <1>6 DEF ReversePrincipal
  <2>2. PICK e : Recorded(e) /\ e.on = day
    BY <1>1, <2>1, Compensation
  <2>3. FromStep(0, e)
    BY <1>2, <1>6, <2>1, <2>2 DEF ReversePrincipal, FromStep
  <2> QED
    BY <2>3
<1>7. ASSUME NEW day \in OperationDays, NEW i \in DOMAIN events,
             ReverseInterest(i, day) \/ ReverseClosure(i, day)
      PROVE  \E e : BackStep(e)
  <2>1. Compensate(i, day) /\ events[i].type \in {"interest", "closure"}
    BY <1>7 DEF ReverseInterest, ReverseClosure
  <2>2. PICK e : Recorded(e) /\ e.type = events[i].type /\ e.reverses # 0
    BY <1>1, <2>1, Compensation
  <2>3. closed' \in BOOLEAN
    BY <1>7 DEF ReverseInterest, ReverseClosure, RowsInv
  <2>4. BackStep(e)
    BY <1>7, <2>1, <2>2, <2>3 DEF ReverseInterest, ReverseClosure, BackStep
  <2> QED
    BY <2>4
<1> QED
  BY <1>3, <1>4, <1>5, <1>6, <1>7 DEF Next

LEMMA TermStays == ASSUME RowsInv, [Next]_vars PROVE term' = term
BY StepKinds
   DEF AddRatePeriod, FromStep, PayInterestOut, Close, BackStep, vars, Mature,
       BeginRecalculation, SelectUnconfirmed, FinishRecalculation

LEMMA RecordedEvents ==
    ASSUME RowsInv, NEW e, Recorded(e)
    PROVE  events' \in Seq(Event) /\ Len(events') <= MaxEvents
BY DEF RowsInv, Recorded

LEMMA ConfirmedFollow ==
    ASSUME RowsInv, NEW i \in Unconfirmed \cup {0}
    PROVE  RowsFollow(Confirm(i), term)
<1>1. RowsFollow(lines, term) /\ lines \in Seq(Line)
  BY DEF RowsInv, RowsFollow
<1> QED
  BY <1>1, ConfirmedRow, RelabelledFollow

(* What the two rebuilds leave in the table.                                 *)
LEMMA WholeRebuild ==
    ASSUME RowsInv, NEW rs \in Seq(RatePeriod), RebuildAll(lines, events, rs)
    PROVE  \E new :
            /\ new = BuildForecast(events, rs)
            /\ IsForecast(new) /\ Storable(new) /\ RowsFollow(new, term)
            /\ RowsFollow(Only(lines, Confirmed(lines)), term)
            /\ lines' = Only(lines, Confirmed(lines)) \o new
<1>1. term \in Terms /\ events \in Seq(Event) /\ RowsFollow(lines, term)
  BY DEF RowsInv, RatesInv
<1>2. PICK new : new = BuildForecast(events, rs)
  OBVIOUS
<1>3. IsForecast(new)
  BY <1>1, <1>2, BuiltForecast
<1>4. Storable(new) /\ lines' = Only(lines, Confirmed(lines)) \o new
  BY <1>2 DEF RebuildAll
<1>5. RowsFollow(new, term)
  BY <1>1, <1>3, <1>4, AllStored
<1>6. RowsFollow(Only(lines, Confirmed(lines)), term)
  BY <1>1, PartFollows
<1> QED
  BY <1>2, <1>3, <1>4, <1>5, <1>6

LaterRows(new, ls, day) ==
    {l \in Range(new) : l.payout >= day /\ l.payout \notin PaidOn(ls)}

EarlierRows(ls, day) == {l \in Range(ls) : l.confirmed \/ l.payout < day}

LEMMA PartialRebuild ==
    ASSUME RowsInv, NEW es \in Seq(Event), NEW ls, RowsFollow(ls, term), NEW day,
           RebuildFrom(ls, es, day)
    PROVE  \E new :
            /\ new = BuildForecast(es, rates)
            /\ IsForecast(new)
            /\ Storable(Only(new, LaterRows(new, ls, day)))
            /\ RowsFollow(Only(ls, EarlierRows(ls, day)), term)
            /\ RowsFollow(Only(new, LaterRows(new, ls, day)), term)
            /\ lines' = Only(ls, EarlierRows(ls, day))
                            \o Only(new, LaterRows(new, ls, day))
<1>1. term \in Terms /\ rates \in Seq(RatePeriod)
  BY DEF RowsInv, RatesInv, PeriodsTyped
<1>2. PICK new : new = BuildForecast(es, rates)
  OBVIOUS
<1>3. IsForecast(new)
  BY <1>1, <1>2, BuiltForecast
<1>4. AddedFrom(ls, es, day) = Only(new, LaterRows(new, ls, day))
  BY Zenon, <1>2 DEF AddedFrom, LaterRows, PaidOn
<1>5. KeptFrom(ls, day) = Only(ls, EarlierRows(ls, day))
  BY Zenon DEF KeptFrom, EarlierRows
<1>6. /\ Storable(Only(new, LaterRows(new, ls, day)))
      /\ lines' = Only(ls, EarlierRows(ls, day))
                      \o Only(new, LaterRows(new, ls, day))
  BY <1>4, <1>5 DEF RebuildFrom
<1>7. RowsFollow(Only(new, LaterRows(new, ls, day)), term)
  BY <1>1, <1>3, <1>6, SomeStored
<1>8. RowsFollow(Only(ls, EarlierRows(ls, day)), term)
  BY PartFollows
<1> QED
  BY <1>2, <1>3, <1>6, <1>7, <1>8

LEMMA LateRebuild ==
    ASSUME RowsInv, FinishRecalculation
    PROVE  \/ /\ Replaceable(lines) /\ IsForecast(slow.new) /\ Storable(slow.new)
              /\ RowsFollow(slow.new, term)
              /\ RowsFollow(Only(lines, {l \in Range(lines) : ~l.seen}), term)
              /\ lines' = Only(lines, {l \in Range(lines) : ~l.seen}) \o slow.new
           \/ lines' = Mark(lines, {})
<1>1. term \in Terms /\ RowsFollow(lines, term)
  BY DEF RowsInv, RatesInv
<1>2. slow.step = "insert"
  BY DEF FinishRecalculation
<1>3. IsForecast(slow.new)
  BY <1>2 DEF RowsInv, SlowOK, Idle
<1>4. CASE Replaceable(lines)
  <2>1. Storable(slow.new)
    BY <1>4 DEF Replaceable
  <2>2. RowsFollow(slow.new, term)
    BY <1>1, <1>3, <2>1, AllStored
  <2>3. RowsFollow(Only(lines, {l \in Range(lines) : ~l.seen}), term)
    BY <1>1, PartFollows
  <2>4. lines' = Only(lines, {l \in Range(lines) : ~l.seen}) \o slow.new
    BY <1>4 DEF FinishRecalculation
  <2> QED
    BY <1>3, <1>4, <2>1, <2>2, <2>3, <2>4
<1>5. CASE ~Replaceable(lines)
  BY <1>5 DEF FinishRecalculation
<1> QED
  BY <1>4, <1>5

LEMMA RowsFollowStep ==
    ASSUME RowsInv, [Next]_vars PROVE RowsFollow(lines', term)
<1>0. RowsFollow(lines, term) /\ lines \in Seq(Line)
  BY DEF RowsInv, RowsFollow
<1>1. ASSUME NEW day \in OperationDays, NEW r \in Rates, AddRatePeriod(day, r)
      PROVE  RowsFollow(lines', term)
  <2>1. PICK rs : rs = rates'
    OBVIOUS
  <2>2. rs \in Seq(RatePeriod)
    BY <2>1, RatesStep DEF RowsInv, RatesInv, PeriodsTyped
  <2>3. RebuildAll(lines, events, rs)
    BY <1>1, <2>1 DEF AddRatePeriod
  <2> QED
    BY <2>2, <2>3, WholeRebuild, JoinedFollow
<1>2. ASSUME NEW i, NEW e, FromStep(i, e) PROVE RowsFollow(lines', term)
  <2>1. PICK es : es = events'
    OBVIOUS
  <2>2. PICK ls : ls = Confirm(i)
    OBVIOUS
  <2>3. es \in Seq(Event)
    BY <1>2, <2>1, RecordedEvents DEF FromStep
  <2>4. RowsFollow(ls, term)
    BY <1>2, <2>2, ConfirmedFollow DEF FromStep
  <2>5. RebuildFrom(ls, es, e.on)
    BY <1>2, <2>1, <2>2 DEF FromStep
  <2> QED
    BY <2>3, <2>4, <2>5, PartialRebuild, JoinedFollow
<1>3. ASSUME NEW i \in Unconfirmed, PayInterestOut(i) PROVE RowsFollow(lines', term)
  BY <1>3, ConfirmedFollow DEF PayInterestOut
<1>4. ASSUME NEW i \in Unconfirmed \cup {0}, NEW day \in OperationDays, Close(i, day)
      PROVE  RowsFollow(lines', term)
  BY <1>4, ConfirmedFollow, PartFollows DEF Close
<1>5. CASE (\E e : BackStep(e)) \/ UNCHANGED vars \/ Mature \/ BeginRecalculation
  BY <1>0, <1>5 DEF BackStep, vars, Mature, BeginRecalculation
<1>6. CASE SelectUnconfirmed
  BY <1>0, <1>6, MarkedRows, RelabelledFollow DEF SelectUnconfirmed
<1>7. CASE FinishRecalculation
  <2>1. RowsFollow(Mark(lines, {}), term)
    BY <1>0, MarkedRows, RelabelledFollow
  <2> QED
    BY <1>7, <2>1, LateRebuild, JoinedFollow
<1> QED
  BY <1>1, <1>2, <1>3, <1>4, <1>5, <1>6, <1>7, StepKinds

LEMMA RatesCountStep ==
    ASSUME RowsInv, [Next]_vars PROVE Len(rates') <= MaxRates
<1>1. ASSUME NEW day \in OperationDays, NEW r \in Rates, AddRatePeriod(day, r)
      PROVE  Len(rates') <= MaxRates
  <2>0. PICK rs \in Seq(RatePeriod) : rs = rates
    BY DEF RowsInv, RatesInv, PeriodsTyped
  <2>5. PICK t \in Terms : t = term
    BY DEF RowsInv, RatesInv
  <2>6. PICK next : next = rates'
    OBVIOUS
  <2>1. rs = rates /\ next = rates' /\ t = term
    BY <2>0, <2>5, <2>6
  <2>2. PeriodsTyped(rs) /\ Len(rs) \in Nat
    BY <2>1, LenProperties DEF RowsInv, RatesInv
  <2>3. /\ Len(rs) < MaxRates /\ rs[Len(rs)].from < day
        /\ next = Changed(rs, t, day, r)
    BY <1>1, <2>1 DEF AddRatePeriod, Changed, NewPeriod
  <2>4. Len(next) = Len(rs) + 1
    BY <2>2, <2>3, PeriodsAfter
  <2> QED
    BY <2>1, <2>2, <2>3, <2>4
<1>2. Len(rates) <= MaxRates
  BY DEF RowsInv
<1> QED
  BY <1>1, <1>2, StepKinds
  DEF FromStep, PayInterestOut, Close, BackStep, vars, Mature,
      BeginRecalculation, SelectUnconfirmed, FinishRecalculation

LEMMA EventsStep ==
    ASSUME RowsInv, [Next]_vars
    PROVE  events' \in Seq(Event) /\ Len(events') <= MaxEvents
<1>1. events \in Seq(Event) /\ Len(events) <= MaxEvents
  BY DEF RowsInv
<1>2. CASE \E i, e : FromStep(i, e)
  BY <1>2, RecordedEvents DEF FromStep
<1>3. CASE \E e : BackStep(e)
  BY <1>3, RecordedEvents DEF BackStep
<1>4. ASSUME NEW i \in Unconfirmed \cup {0}, NEW day \in OperationDays, Close(i, day)
      PROVE  events' \in Seq(Event) /\ Len(events') <= MaxEvents
  <2>1. PICK amount : amount = -Balance
    OBVIOUS
  <2>2. amount \in Int
    BY <1>1, <2>1, PrincipalIsInt DEF Balance
  <2>3. PICK e : e = NewEvent("closure", day, amount, 0)
    OBVIOUS
  <2>4. day \in Day
    OBVIOUS
  <2>5. e \in Event
    BY <2>2, <2>3, <2>4, FirstEvents
  <2>6. RecordEvent(e)
    BY <1>4, <2>1, <2>3 DEF Close
  <2> QED
    BY <2>5, <2>6, RecordedEvent, RecordedEvents
<1> QED
  BY <1>1, <1>2, <1>3, <1>4, StepKinds
  DEF AddRatePeriod, PayInterestOut, vars, Mature,
      BeginRecalculation, SelectUnconfirmed, FinishRecalculation

LEMMA SlowStep == ASSUME RowsInv, [Next]_vars PROVE SlowOK'
<1>0. SlowOK /\ term' = term
  BY TermStays DEF RowsInv
<1>1. CASE UNCHANGED slow
  BY <1>0, <1>1 DEF SlowOK, IsForecast, StartOf
<1>2. CASE BeginRecalculation
  <2>1. PICK new : new = BuildForecast(events, rates)
    OBVIOUS
  <2>2. IsForecast(new)
    BY <2>1, BuiltForecast DEF RowsInv, RatesInv, PeriodsTyped
  <2>3. slow' = [step |-> "delete", new |-> new]
    BY <1>2, <2>1 DEF BeginRecalculation
  <2>4. IsForecast(new)'
    BY <1>0, <2>2 DEF IsForecast, StartOf
  <2>5. slow'.step = "delete" /\ slow'.new = new
    BY <2>3
  <2> QED
    BY <2>3, <2>4, <2>5 DEF SlowOK, IsForecast, StartOf
<1>3. CASE SelectUnconfirmed
  <2>1. slow.step = "delete" /\ slow' = [slow EXCEPT !.step = "insert"]
    BY <1>3 DEF SelectUnconfirmed
  <2>2. PICK new : new = slow.new
    OBVIOUS
  <2>3. IsForecast(new) /\ slow = [step |-> "delete", new |-> new]
    BY <1>0, <2>1, <2>2 DEF SlowOK, Idle
  <2>4. slow' = [step |-> "insert", new |-> new]
    BY <2>1, <2>3
  <2>5. IsForecast(new)'
    BY <1>0, <2>3 DEF IsForecast, StartOf
  <2>6. slow'.step = "insert" /\ slow'.new = new
    BY <2>4
  <2> QED
    BY <2>4, <2>5, <2>6 DEF SlowOK, IsForecast, StartOf
<1>4. CASE FinishRecalculation
  BY <1>4 DEF FinishRecalculation, SlowOK
<1> QED
  BY <1>1, <1>2, <1>3, <1>4, StepKinds
  DEF AddRatePeriod, FromStep, PayInterestOut, Close, BackStep, vars, Mature

LEMMA FlagsStep ==
    ASSUME RowsInv, [Next]_vars PROVE matured' \in BOOLEAN /\ closed' \in BOOLEAN
<1>1. matured \in BOOLEAN /\ closed \in BOOLEAN
  BY DEF RowsInv
<1> QED
  BY <1>1, StepKinds
  DEF AddRatePeriod, FromStep, PayInterestOut, Close, BackStep, vars, Mature,
      BeginRecalculation, SelectUnconfirmed, FinishRecalculation

LEMMA RowsStep == RowsInv /\ [Next]_vars => RowsInv'
<1> SUFFICES ASSUME RowsInv, [Next]_vars PROVE RowsInv'
  OBVIOUS
<1>1. RatesInv'
  BY RatesStep DEF RowsInv
<1>2. RowsFollow(lines', term')
  BY RowsFollowStep, TermStays
<1>3. RowsFollow(lines, term)'
  BY <1>2 DEF RowsFollow, Follows
<1> QED
  BY <1>1, <1>3, RatesCountStep, EventsStep, SlowStep, FlagsStep DEF RowsInv

LEMMA RowsAtFirst == Init => RowsInv
<1> SUFFICES ASSUME Init PROVE RowsInv
  OBVIOUS
<1>1. RatesInv
  BY RatesAtFirst
<1>2. term \in Terms /\ rates \in Seq(RatePeriod)
  BY <1>1 DEF RatesInv, PeriodsTyped
<1>3. Len(rates) <= MaxRates
  <2>1. PICK r : rates = <<r>>
    BY DEF Init
  <2>2. Len(rates) = 1
    BY <2>1
  <2> QED
    BY <2>2
<1>4. PICK e \in Event : events = <<e>>
  <2>1. CASE events = <<NewEvent("funding", term.opened, 2, 0)>>
    BY <1>2, <2>1, TermFacts, FirstEvents
  <2>2. CASE \E day \in OperationDays : events = <<NewEvent("opening", day, 1, 0)>>
    BY <2>2, FirstEvents
  <2> QED
    BY <2>1, <2>2 DEF Init
<1>5. events \in Seq(Event) /\ Len(events) = 1
  BY <1>4
<1>6. RowsFollow(lines, term)
  <2>1. CASE lines = <<>>
    <3>1. lines \in Seq(Line) /\ Range(lines) = {}
      BY <2>1 DEF Range
    <3> QED
      BY <3>1 DEF RowsFollow
  <2>2. CASE Storable(BuildForecast(events, rates)) /\ lines = BuildForecast(events, rates)
    <3>1. IsForecast(lines)
      BY <1>2, <1>5, <2>2, BuiltForecast
    <3>2. Storable(lines)
      BY <2>2
    <3> QED
      BY <1>2, <3>1, <3>2, AllStored
  <2> QED
    BY <2>1, <2>2 DEF Init
<1>7. matured = FALSE /\ closed = FALSE /\ SlowOK
  BY DEF Init, SlowOK
<1>8. Len(events) <= MaxEvents
  BY <1>5
<1> QED
  BY <1>1, <1>3, <1>5, <1>6, <1>7, <1>8 DEF RowsInv

LEMMA RowsInvariant == Spec => []RowsInv
BY RowsAtFirst, RowsStep, PTL DEF Spec

LEMMA RowsInvGivesTypes == RowsInv => ForecastsInv
<1> SUFFICES ASSUME RowsInv PROVE ForecastsInv
  OBVIOUS
<1>1. OneRatePerDay
  BY OrderedPeriodsGiveOneRate DEF RowsInv
<1>2. Len(rates) \in 1 .. MaxRates
  BY LenProperties DEF RowsInv, RatesInv, PeriodsTyped
<1> QED
  BY <1>1, <1>2
  DEF ForecastsInv, ForecastsTypeOK, RowsInv, RatesInv, PeriodsTyped, RowsFollow

(* Whatever order the operations come in, and whenever a rebuild on request  *)
(* ends, no row is stored with a negative amount or an inverted period, and  *)
(* each day of the term has one rate (the table's constraints and            *)
(* _recalculate_forecast_for_term).                                          *)
THEOREM RowsStayTyped == Spec => []ForecastsInv
BY RowsInvariant, RowsInvGivesTypes, PTL

-----------------------------------------------------------------------------
(* The rows after a step, by their membership.                               *)
LEMMA LeftAndAdded ==
    ASSUME NEW X, NEW a \in Seq(X), NEW S, NEW b \in Seq(X)
    PROVE  \A l : l \in Range(Only(a, S) \o b) <=>
                    (l \in Range(a) /\ l \in S) \/ l \in Range(b)
<1>1. PICK out : out = Only(a, S)
  OBVIOUS
<1>2. /\ out \in Seq(X)
      /\ \A l : l \in Range(out) <=> l \in Range(a) /\ l \in S
  BY <1>1, OnlyMembers
<1>3. \A l : l \in Range(out \o b) <=> l \in Range(out) \/ l \in Range(b)
  BY <1>2, ConcatMembers
<1> QED
  BY <1>1, <1>2, <1>3

LEMMA RowAt ==
    ASSUME NEW X, NEW ls \in Seq(X)
    PROVE  \A l : l \in Range(ls) <=> \E i \in 1 .. Len(ls) : l = ls[i]
<1>1. DOMAIN ls = 1 .. Len(ls)
  OBVIOUS
<1> QED
  BY <1>1 DEF Range

LEMMA ConfirmedBecomePaid ==
    ASSUME NEW a, NEW b, Confirmed(a) \subseteq Confirmed(b)
    PROVE  Paid(a) \subseteq Paid(b)
BY DEF Paid

LEMMA ConfirmKeepsConfirmed ==
    ASSUME NEW i \in Unconfirmed \cup {0}, lines \in Seq(Line)
    PROVE  Confirmed(lines) \subseteq Confirmed(Confirm(i))
<1>1. PICK next : next = Confirm(i)
  OBVIOUS
<1>2. /\ next \in Seq(Line) /\ Len(next) = Len(lines)
      /\ \A j \in 1 .. Len(lines) : lines[j].confirmed => next[j] = lines[j]
  BY <1>1, ConfirmedRow DEF Relabelled
<1>3. ASSUME NEW l \in Confirmed(lines) PROVE l \in Confirmed(next)
  <2>1. l \in Range(lines) /\ l.confirmed
    BY DEF Confirmed
  <2>2. PICK j \in 1 .. Len(lines) : l = lines[j]
    BY <2>1, RowAt
  <2>3. next[j] = l
    BY <1>2, <2>1, <2>2
  <2>4. l \in Range(next)
    BY <1>2, <2>3, RowAt
  <2> QED
    BY <2>1, <2>4 DEF Confirmed
<1> QED
  BY <1>1, <1>3

LEMMA MarkKeepsPaid ==
    ASSUME NEW ls \in Seq(Line), NEW S PROVE Paid(ls) \subseteq Paid(Mark(ls, S))
<1>1. PICK next : next = Mark(ls, S)
  OBVIOUS
<1>2. /\ next \in Seq(Line) /\ Len(next) = Len(ls)
      /\ \A j \in 1 .. Len(ls) : next[j] = [ls[j] EXCEPT !.seen = ls[j] \in S]
  BY <1>1, MarkedRows DEF Relabelled
<1>3. ASSUME NEW x \in Paid(ls) PROVE x \in Paid(next)
  <2>1. PICK l \in Confirmed(ls) : x = [l EXCEPT !.seen = FALSE]
    BY DEF Paid
  <2>2. l \in Range(ls) /\ l.confirmed
    BY DEF Confirmed
  <2>3. PICK j \in 1 .. Len(ls) : l = ls[j]
    BY <2>2, RowAt
  <2>4. PICK k : k = next[j]
    OBVIOUS
  <2>5. l \in Line
    BY <2>3
  <2>6. PICK b : b = (ls[j] \in S)
    OBVIOUS
  <2>7. k = [l EXCEPT !.seen = b]
    BY <1>2, <2>3, <2>4, <2>6
  <2>8. k.confirmed /\ [k EXCEPT !.seen = FALSE] = x
    BY <2>1, <2>2, <2>5, <2>7 DEF Line
  <2>9. k \in Range(next)
    BY <1>2, <2>4, RowAt
  <2>10. k \in Confirmed(next)
    BY <2>8, <2>9 DEF Confirmed
  <2> QED
    BY <2>8, <2>10 DEF Paid
<1> QED
  BY <1>1, <1>3

LEMMA PaidStep == ASSUME RowsInv, [Next]_vars PROVE Paid(lines) \subseteq Paid(lines')
<1>0. lines \in Seq(Line)
  BY DEF RowsInv, RowsFollow
<1>1. ASSUME NEW day \in OperationDays, NEW r \in Rates, AddRatePeriod(day, r)
      PROVE  Paid(lines) \subseteq Paid(lines')
  <2>1. PICK rs : rs = rates'
    OBVIOUS
  <2>2. rs \in Seq(RatePeriod)
    BY <2>1, RatesStep DEF RowsInv, RatesInv, PeriodsTyped
  <2>3. RebuildAll(lines, events, rs)
    BY <1>1, <2>1 DEF AddRatePeriod
  <2>4. PICK new \in Seq(Line) : lines' = Only(lines, Confirmed(lines)) \o new
    BY <2>2, <2>3, WholeRebuild DEF RowsFollow
  <2>5. \A l : l \in Range(lines) /\ l \in Confirmed(lines) => l \in Range(lines')
    BY <1>0, <2>4, LeftAndAdded
  <2>6. Confirmed(lines) \subseteq Confirmed(lines')
    BY <2>5 DEF Confirmed
  <2> QED
    BY <2>6, ConfirmedBecomePaid
<1>2. ASSUME NEW i, NEW e, FromStep(i, e) PROVE Paid(lines) \subseteq Paid(lines')
  <2>1. PICK es : es = events'
    OBVIOUS
  <2>2. PICK ls : ls = Confirm(i)
    OBVIOUS
  <2>3. es \in Seq(Event)
    BY <1>2, <2>1, RecordedEvents DEF FromStep
  <2>4. RowsFollow(ls, term) /\ ls \in Seq(Line)
    BY <1>2, <2>2, ConfirmedFollow DEF FromStep, RowsFollow
  <2>5. RebuildFrom(ls, es, e.on)
    BY <1>2, <2>1, <2>2 DEF FromStep
  <2>6. PICK added \in Seq(Line) : lines' = Only(ls, EarlierRows(ls, e.on)) \o added
    BY <2>3, <2>4, <2>5, PartialRebuild DEF RowsFollow
  <2>7. \A l : l \in Range(ls) /\ l \in EarlierRows(ls, e.on) => l \in Range(lines')
    BY <2>4, <2>6, LeftAndAdded
  <2>8. Confirmed(ls) \subseteq Confirmed(lines')
    BY <2>7 DEF Confirmed, EarlierRows
  <2>9. Confirmed(lines) \subseteq Confirmed(ls)
    BY <1>0, <1>2, <2>2, ConfirmKeepsConfirmed DEF FromStep
  <2> QED
    BY <2>8, <2>9, ConfirmedBecomePaid
<1>3. ASSUME NEW i \in Unconfirmed, PayInterestOut(i)
      PROVE  Paid(lines) \subseteq Paid(lines')
  BY <1>0, <1>3, ConfirmKeepsConfirmed, ConfirmedBecomePaid DEF PayInterestOut
<1>4. ASSUME NEW i \in Unconfirmed \cup {0}, NEW day \in OperationDays, Close(i, day)
      PROVE  Paid(lines) \subseteq Paid(lines')
  <2>1. PICK ls : ls = Confirm(i)
    OBVIOUS
  <2>2. ls \in Seq(Line)
    BY <2>1, ConfirmedFollow DEF RowsFollow
  <2>3. lines' = Only(ls, Confirmed(ls))
    BY <1>4, <2>1 DEF Close
  <2>4. \A l : l \in Range(lines') <=> l \in Range(ls) /\ l \in Confirmed(ls)
    BY <2>2, <2>3, OnlyMembers
  <2>5. Confirmed(ls) \subseteq Confirmed(lines')
    BY <2>4 DEF Confirmed
  <2>6. Confirmed(lines) \subseteq Confirmed(ls)
    BY <1>0, <2>1, ConfirmKeepsConfirmed
  <2> QED
    BY <2>5, <2>6, ConfirmedBecomePaid
<1>5. CASE (\E e : BackStep(e)) \/ UNCHANGED vars \/ Mature \/ BeginRecalculation
  <2>1. lines' = lines
    BY <1>5 DEF BackStep, vars, Mature, BeginRecalculation
  <2> QED
    BY <2>1
<1>6. CASE SelectUnconfirmed
  BY <1>0, <1>6, MarkKeepsPaid DEF SelectUnconfirmed
<1>7. CASE FinishRecalculation
  <2>1. CASE lines' = Mark(lines, {})
    BY <1>0, <2>1, MarkKeepsPaid
  <2>2. CASE lines' # Mark(lines, {})
    <3>1. PICK new \in Seq(Line) :
            /\ Replaceable(lines)
            /\ lines' = Only(lines, {l \in Range(lines) : ~l.seen}) \o new
      BY <1>7, <2>2, LateRebuild DEF RowsFollow
    <3>2. \A l : /\ l \in Range(lines) /\ l \in {k \in Range(lines) : ~k.seen}
                => l \in Range(lines')
      BY <1>0, <3>1, LeftAndAdded
    <3>3. \A i \in 1 .. Len(lines) : ~(lines[i].seen /\ lines[i].confirmed)
      BY <1>0, <3>1 DEF Replaceable
    <3>4. \A l \in Range(lines) : ~(l.seen /\ l.confirmed)
      BY <1>0, <3>3, RowAt
    <3>5. Confirmed(lines) \subseteq Confirmed(lines')
      BY <3>2, <3>4 DEF Confirmed
    <3> QED
      BY <3>5, ConfirmedBecomePaid
  <2> QED
    BY <2>1, <2>2
<1> QED
  BY <1>1, <1>2, <1>3, <1>4, <1>5, <1>6, <1>7, StepKinds

(* A row confirmed by a payment is never changed, deleted or replaced, in    *)
(* whatever order payments and rebuilds come (the foreign key of             *)
(* DepositCapitalizationEvent and delete_unconfirmed_forecasts).             *)
THEOREM PaidRowsAreKept == Spec => PaidRowsStay
<1>1. RowsInv /\ [Next]_vars => [Paid(lines) \subseteq Paid(lines')]_vars
  BY PaidStep
<1> QED
  BY <1>1, RowsInvariant, PTL DEF Spec, PaidRowsStay

-----------------------------------------------------------------------------
(* The periods after a step.                                                 *)
LEMMA PeriodOf ==
    ASSUME NEW ls, NEW to PROVE to \in Periods(ls) <=> \E l \in Range(ls) : l.to = to
BY DEF Periods

LEMMA RelabelledPeriods ==
    ASSUME NEW ls \in Seq(Line), NEW next, Relabelled(ls, next)
    PROVE  Periods(next) = Periods(ls)
<1>1. /\ next \in Seq(Line) /\ Len(next) = Len(ls)
      /\ \A i \in 1 .. Len(ls) : next[i].to = ls[i].to
  BY DEF Relabelled
<1>2. ASSUME NEW to \in Periods(ls) PROVE to \in Periods(next)
  <2>1. PICK l \in Range(ls) : l.to = to
    BY PeriodOf
  <2>2. PICK i \in 1 .. Len(ls) : l = ls[i]
    BY RowAt
  <2>3. next[i] \in Range(next) /\ next[i].to = to
    BY <1>1, <2>1, <2>2, RowAt
  <2> QED
    BY <2>3, PeriodOf
<1>3. ASSUME NEW to \in Periods(next) PROVE to \in Periods(ls)
  <2>1. PICK l \in Range(next) : l.to = to
    BY PeriodOf
  <2>2. PICK i \in 1 .. Len(ls) : l = next[i]
    BY <1>1, RowAt
  <2>3. ls[i] \in Range(ls) /\ ls[i].to = to
    BY <1>1, <2>1, <2>2, RowAt
  <2> QED
    BY <2>3, PeriodOf
<1> QED
  BY <1>2, <1>3

PeriodKept(to) ==
    \/ to \in Periods(lines') \/ closed'
    \/ RollToBusinessDay(to, term.convention) \in PaidOn(lines')

LEMMA WholeForecastKeeps ==
    ASSUME RowsInv, NEW to \in Periods(lines), NEW new \in Seq(Line), IsForecast(new),
           NEW S, lines' = Only(lines, S) \o new
    PROVE  to \in Periods(lines')
<1>1. lines \in Seq(Line) /\ term \in Terms /\ \A l \in Range(lines) : Follows(l, term)
  BY DEF RowsInv, RatesInv, RowsFollow
<1>2. to \in Range(PayoutDates(term))
  BY <1>1, PeriodOf DEF Follows
<1>3. PICK l \in Range(new) : l.to = to
  BY <1>1, <1>2, ForecastPeriods
<1>4. l \in Range(lines')
  BY <1>1, LeftAndAdded
<1> QED
  BY <1>3, <1>4, PeriodOf

LEMMA PeriodsStep ==
    ASSUME RowsInv, [Next]_vars, NEW to \in Periods(lines) PROVE PeriodKept(to)
<1>0. lines \in Seq(Line) /\ term \in Terms
  BY DEF RowsInv, RowsFollow, RatesInv
<1>1. ASSUME NEW day \in OperationDays, NEW r \in Rates, AddRatePeriod(day, r)
      PROVE  PeriodKept(to)
  <2>1. PICK rs : rs = rates'
    OBVIOUS
  <2>2. rs \in Seq(RatePeriod)
    BY <2>1, RatesStep DEF RowsInv, RatesInv, PeriodsTyped
  <2>3. RebuildAll(lines, events, rs)
    BY <1>1, <2>1 DEF AddRatePeriod
  <2>4. PICK new \in Seq(Line) :
            IsForecast(new) /\ lines' = Only(lines, Confirmed(lines)) \o new
    BY <2>2, <2>3, WholeRebuild DEF RowsFollow
  <2>5. to \in Periods(lines')
    BY <2>4, WholeForecastKeeps
  <2> QED
    BY <2>5 DEF PeriodKept
<1>2. ASSUME NEW i, NEW e, FromStep(i, e) PROVE PeriodKept(to)
  <2>1. PICK es : es = events'
    OBVIOUS
  <2>2. PICK ls : ls = Confirm(i)
    OBVIOUS
  <2>3. es \in Seq(Event)
    BY <1>2, <2>1, RecordedEvents DEF FromStep
  <2>4. RowsFollow(ls, term) /\ ls \in Seq(Line)
    BY <1>2, <2>2, ConfirmedFollow DEF FromStep, RowsFollow
  <2>5. RebuildFrom(ls, es, e.on)
    BY <1>2, <2>1, <2>2 DEF FromStep
  <2>6. PICK day \in Int : day = e.on
    BY <1>2 DEF FromStep, Recorded, Event, Day
  <2>7. PICK new :
            /\ IsForecast(new)
            /\ Only(new, LaterRows(new, ls, day)) \in Seq(Line)
            /\ lines' = Only(ls, EarlierRows(ls, day))
                            \o Only(new, LaterRows(new, ls, day))
    BY <2>3, <2>4, <2>5, <2>6, PartialRebuild DEF RowsFollow
  <2>8. \A l : l \in EarlierRows(ls, day) => l \in Range(lines')
    BY <2>4, <2>7, LeftAndAdded DEF EarlierRows
  <2>9. \A l : l \in LaterRows(new, ls, day) => l \in Range(lines')
    <3>1. new \in Seq(Row)
      BY <2>7 DEF IsForecast
    <3>2. PICK added \in Seq(Line) : added = Only(new, LaterRows(new, ls, day))
      BY <2>7
    <3>3. \A l : l \in Range(added) <=> l \in Range(new) /\ l \in LaterRows(new, ls, day)
      BY <3>1, <3>2, OnlyMembers
    <3>4. \A l : l \in Range(added) => l \in Range(lines')
      BY <2>4, <2>7, <3>2, LeftAndAdded
    <3> QED
      BY <3>3, <3>4 DEF LaterRows
  <2>10. to \in Periods(ls)
    BY <1>0, <1>2, <2>2, ConfirmedRow, RelabelledPeriods DEF FromStep
  <2>11. PICK l \in Range(ls) : l.to = to
    BY <2>10, PeriodOf
  <2>12. PICK payout \in Int :
            payout = l.payout /\ payout = RollToBusinessDay(to, term.convention)
    BY <2>4, <2>11 DEF RowsFollow, Follows, Line
  <2>13. CASE l \in EarlierRows(ls, day)
    BY <2>8, <2>11, <2>13, PeriodOf DEF PeriodKept
  <2>14. CASE payout \in PaidOn(ls)
    <3>1. PICK k \in Confirmed(ls) : k.payout = payout
      BY <2>14 DEF PaidOn
    <3>2. k \in Range(lines') /\ k.confirmed
      BY <2>8, <3>1 DEF Confirmed, EarlierRows
    <3>3. payout \in PaidOn(lines')
      BY <3>1, <3>2 DEF PaidOn, Confirmed
    <3> QED
      BY <2>12, <3>3 DEF PeriodKept
  <2>15. CASE l \notin EarlierRows(ls, day) /\ payout \notin PaidOn(ls)
    <3>0. ~(payout < day)
      BY Zenon, <2>11, <2>12, <2>15 DEF EarlierRows
    <3>1. payout >= day
      BY <3>0
    <3>2. to \in Range(PayoutDates(term))
      BY <2>4, <2>11 DEF RowsFollow, Follows
    <3>3. PICK n \in Range(new) : n.to = to
      BY <1>0, <2>7, <3>2, ForecastPeriods
    <3>4. n.payout = payout
      BY <1>0, <2>7, <2>12, <3>3, ForecastRows
    <3>5. n \in LaterRows(new, ls, day)
      BY <2>15, <3>1, <3>3, <3>4 DEF LaterRows
    <3> QED
      BY <2>9, <3>3, <3>5, PeriodOf DEF PeriodKept
  <2> QED
    BY <2>13, <2>14, <2>15
<1>3. ASSUME NEW i \in Unconfirmed, PayInterestOut(i) PROVE PeriodKept(to)
  <2>1. Periods(Confirm(i)) = Periods(lines)
    BY <1>0, ConfirmedRow, RelabelledPeriods
  <2> QED
    BY <1>3, <2>1 DEF PayInterestOut, PeriodKept
<1>4. ASSUME NEW i \in Unconfirmed \cup {0}, NEW day \in OperationDays, Close(i, day)
      PROVE  PeriodKept(to)
  BY <1>4 DEF Close, PeriodKept
<1>5. CASE (\E e : BackStep(e)) \/ UNCHANGED vars \/ Mature \/ BeginRecalculation
  <2>1. lines' = lines
    BY <1>5 DEF BackStep, vars, Mature, BeginRecalculation
  <2> QED
    BY <2>1 DEF PeriodKept
<1>6. ASSUME NEW S, lines' = Mark(lines, S) PROVE PeriodKept(to)
  <2>1. Periods(Mark(lines, S)) = Periods(lines)
    BY <1>0, MarkedRows, RelabelledPeriods
  <2> QED
    BY <1>6, <2>1 DEF PeriodKept
<1>7. CASE SelectUnconfirmed
  BY <1>6, <1>7 DEF SelectUnconfirmed
<1>8. CASE FinishRecalculation
  <2>1. CASE lines' = Mark(lines, {})
    BY <1>6, <2>1
  <2>2. CASE lines' # Mark(lines, {})
    <3>1. PICK new \in Seq(Line) :
            /\ IsForecast(new)
            /\ lines' = Only(lines, {l \in Range(lines) : ~l.seen}) \o new
      BY <1>8, <2>2, LateRebuild DEF RowsFollow
    <3>2. to \in Periods(lines')
      BY <3>1, WholeForecastKeeps
    <3> QED
      BY <3>2 DEF PeriodKept
  <2> QED
    BY <2>1, <2>2
<1> QED
  BY <1>1, <1>2, <1>3, <1>4, <1>5, <1>7, <1>8, StepKinds

(* No rebuild loses a payout that is still expected, for any calendar,       *)
(* schedule and order of operations (delete_unconfirmed_forecasts and the    *)
(* rows _recalculate_forecast_for_term puts in their place).                 *)
THEOREM NoPeriodIsLost == Spec => PeriodsStay
<1>1. RowsInv /\ [Next]_vars =>
        [\A to \in Periods(lines) \ Periods(lines') :
            \/ closed'
            \/ RollToBusinessDay(to, term.convention) \in PaidOn(lines')]_vars
  BY PeriodsStep DEF PeriodKept
<1> QED
  BY <1>1, RowsInvariant, PTL DEF Spec, PeriodsStay

-----------------------------------------------------------------------------
(* Periods with two rows.                                                    *)
TwoRows(ls, to) ==
    \E i, j \in 1 .. Len(ls) : i < j /\ ls[i].to = to /\ ls[j].to = to

LEMMA DoubledHasTwoRows ==
    ASSUME NEW X, NEW ls \in Seq(X), NEW to
    PROVE  to \in Doubled(ls) <=> TwoRows(ls, to)
<1>1. DOMAIN ls = 1 .. Len(ls) /\ Len(ls) \in Nat
  BY LenProperties
<1> DEFINE S == RowsOf(ls, to)
<1>2. \A i : i \in S <=> i \in 1 .. Len(ls) /\ ls[i].to = to
  BY <1>1 DEF RowsOf
<1>3. to \in Doubled(ls) <=> \E l \in Range(ls) : l.to = to /\ Cardinality(S) > 1
  BY DEF Doubled
<1> HIDE DEF S
<1>4. S \subseteq 1 .. Len(ls) /\ 1 \in Int /\ Len(ls) \in Int
  BY <1>1, <1>2
<1>5. IsFiniteSet(S)
  BY Zenon, <1>4, PartsAreFinite
<1>6. Cardinality(S) \in Nat
  BY <1>5, FS_CardinalityType
<1>7. ASSUME to \in Doubled(ls) PROVE TwoRows(ls, to)
  <2>1. Cardinality(S) > 1
    BY <1>3, <1>7
  <2>2. S # {}
    BY <1>5, <1>6, <2>1, FS_EmptySet
  <2>3. PICK i \in S : TRUE
    BY <2>2
  <2>4. S # {i}
    <3>1. Cardinality({i}) = 1
      BY FS_Singleton
    <3>2. Cardinality(S) # 1
      BY <1>6, <2>1
    <3> QED
      BY Zenon, <3>1, <3>2
  <2>5. PICK j \in S : j # i
    BY <2>3, <2>4
  <2>6. i \in 1 .. Len(ls) /\ j \in 1 .. Len(ls) /\ ls[i].to = to /\ ls[j].to = to
    BY <1>2, <2>3, <2>5
  <2>7. i < j \/ j < i
    BY <2>5, <2>6
  <2> QED
    BY <2>6, <2>7 DEF TwoRows
<1>8. ASSUME TwoRows(ls, to) PROVE to \in Doubled(ls)
  <2>1. PICK i \in 1 .. Len(ls), j \in 1 .. Len(ls) :
            i < j /\ ls[i].to = to /\ ls[j].to = to
    BY <1>8 DEF TwoRows
  <2>2. i \in S /\ j \in S /\ i # j
    <3>1. i # j
      BY <2>1
    <3> QED
      BY Zenon, <1>2, <2>1, <3>1
  <2>3. Cardinality(S) # 0 /\ Cardinality(S) # 1
    <3>1. Cardinality(S) # 0
      BY <1>5, <2>2, FS_EmptySet
    <3>2. ~\E x : S = {x}
      BY <2>2
    <3>3. Cardinality(S) # 1
      BY <1>5, <3>2, FS_Singleton
    <3> QED
      BY <3>1, <3>3
  <2>4. Cardinality(S) > 1
    BY <1>6, <2>3
  <2>5. ls[i] \in Range(ls)
    BY RowAt
  <2> QED
    BY <1>3, <2>1, <2>4, <2>5
<1> QED
  BY <1>7, <1>8

LEMMA RelabelledDoubles ==
    ASSUME NEW ls \in Seq(Line), NEW next, Relabelled(ls, next), NEW to
    PROVE  TwoRows(next, to) <=> TwoRows(ls, to)
BY DEF Relabelled, TwoRows

LEMMA PartDoubles ==
    ASSUME NEW X, NEW ls \in Seq(X), NEW S, NEW to, TwoRows(Only(ls, S), to)
    PROVE  TwoRows(ls, to)
<1>1. PICK p : IsPlaces(p, ls, S)
  BY OnlyPlaces
<1>2. PICK out : out = Only(ls, S)
  OBVIOUS
<1>3. /\ \A k \in 1 .. Len(out) : out[k] = ls[p[k]] /\ p[k] \in 1 .. Len(ls)
      /\ \A j, k \in 1 .. Len(out) : j < k => p[j] < p[k]
  BY <1>1, <1>2 DEF IsPlaces
<1>4. PICK i \in 1 .. Len(out), j \in 1 .. Len(out) :
        i < j /\ out[i].to = to /\ out[j].to = to
  BY <1>2 DEF TwoRows
<1>5. /\ p[i] \in 1 .. Len(ls) /\ p[j] \in 1 .. Len(ls) /\ p[i] < p[j]
      /\ ls[p[i]].to = to /\ ls[p[j]].to = to
  BY <1>3, <1>4
<1> QED
  BY <1>5 DEF TwoRows

LEMMA JoinedDoubles ==
    ASSUME NEW X, NEW ls \in Seq(X), NEW S, NEW b \in Seq(X), NEW to,
           TwoRows(Only(ls, S) \o b, to)
    PROVE  \/ TwoRows(ls, to) \/ TwoRows(b, to)
           \/ \E i \in 1 .. Len(ls) : /\ ls[i] \in S /\ ls[i].to = to
                                    /\ \E r \in Range(b) : r.to = to
<1>1. PICK out \in Seq(X) : out = Only(ls, S)
  BY OnlyPlaces
<1>2. PICK n \in Nat, m \in Nat : n = Len(out) /\ m = Len(b)
  BY <1>1
<1>3. PICK ab : ab = out \o b
  OBVIOUS
<1>4. /\ Len(ab) = n + m
      /\ \A i \in 1 .. n : ab[i] = out[i]
      /\ \A i \in 1 .. m : ab[n + i] = b[i]
  BY <1>1, <1>2, <1>3
<1>5. PICK i \in 1 .. n + m, j \in 1 .. n + m :
        i < j /\ ab[i].to = to /\ ab[j].to = to
  BY <1>1, <1>3, <1>4 DEF TwoRows
<1>6. CASE j <= n
  <2>1. i \in 1 .. n /\ j \in 1 .. n
    BY <1>5, <1>6
  <2>2. TwoRows(out, to)
    BY <1>2, <1>4, <1>5, <2>1 DEF TwoRows
  <2> QED
    BY <1>1, <2>2, PartDoubles
<1>7. CASE n < i
  <2>1. PICK k \in 1 .. m, l \in 1 .. m : k < l /\ i = n + k /\ j = n + l
    <3>1. i - n \in 1 .. m /\ j - n \in 1 .. m /\ i - n < j - n
      BY <1>5, <1>7
    <3>2. i = n + (i - n) /\ j = n + (j - n)
      OBVIOUS
    <3> QED
      BY <3>1, <3>2
  <2>2. b[k].to = to /\ b[l].to = to
    BY <1>4, <1>5, <2>1
  <2> QED
    BY <1>2, <2>1, <2>2 DEF TwoRows
<1>8. CASE i <= n /\ n < j
  <2>1. i \in 1 .. n /\ out[i].to = to
    BY <1>4, <1>5, <1>8
  <2>2. out[i] \in Range(out)
    BY <1>1, <1>2, <2>1, RowAt
  <2>3. out[i] \in Range(ls) /\ out[i] \in S
    BY <1>1, <2>2, OnlyMembers
  <2>4. PICK k \in 1 .. Len(ls) : out[i] = ls[k]
    BY <2>3, RowAt
  <2>5. PICK l \in 1 .. m : j = n + l
    <3>1. j - n \in 1 .. m /\ j = n + (j - n)
      BY <1>5, <1>8
    <3> QED
      BY <3>1
  <2>6. b[l].to = to /\ b[l] \in Range(b)
    BY <1>2, <1>4, <1>5, <2>5, RowAt
  <2> QED
    BY <2>1, <2>3, <2>4, <2>6
<1>9. j <= n \/ n < i \/ (i <= n /\ n < j)
  OBVIOUS
<1> QED
  BY Zenon, <1>6, <1>7, <1>8, <1>9

(* Rows that can be stored are of different dates of the schedule.           *)
LEMMA DatesApart ==
    ASSUME term \in Terms, NEW new, IsForecast(new),
           NEW i \in 1 .. Len(new), NEW j \in 1 .. Len(new), i < j,
           new[j].from <= new[j].to
    PROVE  new[i].to # new[j].to
<1>1. PICK dates : dates = PayoutDates(term)
  OBVIOUS
<1>2. /\ dates \in Seq(Day)
      /\ \A k, l \in 1 .. Len(dates) :
            k < l /\ dates[l - 1] < dates[l] => dates[k] < dates[l]
  BY <1>1, ScheduleOfTerm DEF IsSchedule
<1>3. Len(new) = Len(dates) /\ Len(dates) \in Nat
  BY <1>1, <1>2 DEF IsForecast
<1>4. /\ new[i].to = dates[i] /\ new[j].to = dates[j]
      /\ new[j].from = StartOf(dates, j)
  BY <1>1 DEF IsForecast
<1>5. i \in 1 .. Len(dates) /\ j \in 1 .. Len(dates) /\ j - 1 \in 1 .. Len(dates) /\ j # 1
  BY <1>3
<1>6. \A d \in Day : d \in Int
  BY DEF Day
<1>7. dates[i] \in Int /\ dates[j] \in Int /\ dates[j - 1] \in Int
  <2>1. \A k \in 1 .. Len(dates) : dates[k] \in Day
    BY <1>2, ElementOfSeq
  <2> QED
    BY Zenon, <1>5, <1>6, <2>1
<1>8. dates[j - 1] + 1 <= dates[j]
  BY <1>4, <1>5 DEF StartOf
<1>9. dates[j - 1] < dates[j]
  BY <1>7, <1>8
<1>10. dates[i] < dates[j]
  BY <1>2, <1>5, <1>9
<1> QED
  BY <1>4, <1>7, <1>10

LEMMA StoredApart ==
    ASSUME term \in Terms, NEW new, IsForecast(new), Storable(new), NEW to
    PROVE  ~TwoRows(new, to)
<1>1. new \in Seq(Row) /\ DOMAIN new = 1 .. Len(new)
  BY DEF IsForecast
<1>2. \A j \in 1 .. Len(new) : new[j].from <= new[j].to
  BY <1>1 DEF Storable
<1> QED
  BY <1>2, DatesApart DEF TwoRows

LEMMA PartApart ==
    ASSUME term \in Terms, NEW new, IsForecast(new), NEW S, Storable(Only(new, S)), NEW to
    PROVE  ~TwoRows(Only(new, S), to)
<1>1. new \in Seq(Row)
  BY DEF IsForecast
<1>2. PICK p : IsPlaces(p, new, S)
  BY <1>1, OnlyPlaces
<1>3. PICK out \in Seq(Row) : out = Only(new, S)
  BY <1>1, OnlyPlaces
<1>4. /\ \A k \in 1 .. Len(out) : out[k] = new[p[k]] /\ p[k] \in 1 .. Len(new)
      /\ \A j, k \in 1 .. Len(out) : j < k => p[j] < p[k]
  BY <1>2, <1>3 DEF IsPlaces
<1>5. \A k \in 1 .. Len(out) : out[k].from <= out[k].to
  BY <1>3 DEF Storable
<1>6. ASSUME NEW i \in 1 .. Len(out), NEW j \in 1 .. Len(out), i < j
      PROVE  out[i].to # out[j].to
  <2>1. PICK k \in 1 .. Len(new) : k = p[i]
    BY <1>4
  <2>2. PICK l \in 1 .. Len(new) : l = p[j]
    BY <1>4
  <2>3. k < l /\ out[i] = new[k] /\ out[j] = new[l]
    BY <1>4, <1>6, <2>1, <2>2
  <2>4. new[l].from <= new[l].to
    BY <1>5, <2>3
  <2>5. new[k].to # new[l].to
    BY <2>3, <2>4, DatesApart
  <2> QED
    BY <2>3, <2>5
<1> QED
  BY <1>3, <1>6 DEF TwoRows

DoubleCaused(to) ==
    \/ rates' # rates /\ \E i \in RowsOf(lines, to) : lines[i].confirmed
    \/ /\ slow.step = "insert" /\ slow' = Idle
       /\ \E i \in RowsOf(lines, to) : ~lines[i].seen

LEMMA ChangedRates ==
    ASSUME RowsInv, NEW day \in OperationDays, NEW r \in Rates, AddRatePeriod(day, r)
    PROVE  rates' # rates
<1>1. PICK rs \in Seq(RatePeriod) : rs = rates
  BY DEF RowsInv, RatesInv, PeriodsTyped
<1>2. PICK t \in Terms : t = term
  BY DEF RowsInv, RatesInv
<1>3. PICK next : next = rates'
  OBVIOUS
<1>4. PeriodsTyped(rs) /\ Len(rs) \in Nat
  BY <1>1, LenProperties DEF RowsInv, RatesInv
<1>5. rs[Len(rs)].from < day /\ next = Changed(rs, t, day, r)
  BY <1>1, <1>2, <1>3 DEF AddRatePeriod, Changed, NewPeriod
<1>6. Len(next) = Len(rs) + 1
  BY <1>4, <1>5, PeriodsAfter
<1> QED
  BY <1>1, <1>3, <1>4, <1>6

LEMMA DoublesStep ==
    ASSUME RowsInv, [Next]_vars, NEW to, TwoRows(lines', to), ~TwoRows(lines, to)
    PROVE  DoubleCaused(to)
<1>0. lines \in Seq(Line) /\ term \in Terms
  BY DEF RowsInv, RowsFollow, RatesInv
<1>a. \A i \in 1 .. Len(lines) : lines[i].to = to => i \in RowsOf(lines, to)
  BY <1>0 DEF RowsOf
<1>1. ASSUME NEW day \in OperationDays, NEW r \in Rates, AddRatePeriod(day, r)
      PROVE  DoubleCaused(to)
  <2>1. PICK rs : rs = rates'
    OBVIOUS
  <2>2. rs \in Seq(RatePeriod)
    BY <2>1, RatesStep DEF RowsInv, RatesInv, PeriodsTyped
  <2>3. RebuildAll(lines, events, rs)
    BY <1>1, <2>1 DEF AddRatePeriod
  <2>4. PICK new \in Seq(Line) :
            /\ IsForecast(new) /\ Storable(new)
            /\ lines' = Only(lines, Confirmed(lines)) \o new
    BY <2>2, <2>3, WholeRebuild DEF RowsFollow
  <2>5. ~TwoRows(new, to)
    BY <1>0, <2>4, StoredApart
  <2>6. TwoRows(Only(lines, Confirmed(lines)) \o new, to)
    BY <2>4
  <2>7. PICK i \in 1 .. Len(lines) : lines[i] \in Confirmed(lines) /\ lines[i].to = to
    BY <1>0, <2>5, <2>6, JoinedDoubles
  <2> QED
    BY <1>1, <1>a, <2>7, ChangedRates DEF DoubleCaused, Confirmed
<1>2. ASSUME NEW i, NEW e, FromStep(i, e) PROVE FALSE
  <2>1. PICK es : es = events'
    OBVIOUS
  <2>2. PICK ls : ls = Confirm(i)
    OBVIOUS
  <2>3. es \in Seq(Event)
    BY <1>2, <2>1, RecordedEvents DEF FromStep
  <2>4. RowsFollow(ls, term) /\ ls \in Seq(Line)
    BY <1>2, <2>2, ConfirmedFollow DEF FromStep, RowsFollow
  <2>5. RebuildFrom(ls, es, e.on)
    BY <1>2, <2>1, <2>2 DEF FromStep
  <2>6. PICK day \in Int : day = e.on
    BY <1>2 DEF FromStep, Recorded, Event, Day
  <2>7. PICK new :
            /\ IsForecast(new)
            /\ Storable(Only(new, LaterRows(new, ls, day)))
            /\ Only(new, LaterRows(new, ls, day)) \in Seq(Line)
            /\ lines' = Only(ls, EarlierRows(ls, day))
                            \o Only(new, LaterRows(new, ls, day))
    BY <2>3, <2>4, <2>5, <2>6, PartialRebuild DEF RowsFollow
  <2>8. PICK added \in Seq(Line) : added = Only(new, LaterRows(new, ls, day))
    BY <2>7
  <2>9. ~TwoRows(added, to)
    BY <1>0, <2>7, <2>8, PartApart
  <2>10. ~TwoRows(ls, to)
    BY <1>0, <1>2, <2>2, ConfirmedRow, RelabelledDoubles DEF FromStep
  <2>11. TwoRows(Only(ls, EarlierRows(ls, day)) \o added, to)
    BY <2>7, <2>8
  <2>12. PICK j \in 1 .. Len(ls) :
            /\ ls[j] \in EarlierRows(ls, day) /\ ls[j].to = to
            /\ \E r \in Range(added) : r.to = to
    BY <2>4, <2>9, <2>10, <2>11, JoinedDoubles
  <2>13. PICK r \in Range(added) : r.to = to
    BY <2>12
  <2>14. r \in Range(new) /\ r \in LaterRows(new, ls, day)
    <3>1. new \in Seq(Row)
      BY <2>7 DEF IsForecast
    <3> QED
      BY <2>8, <2>13, <3>1, OnlyMembers
  <2>15. PICK payout \in Int :
            payout = RollToBusinessDay(to, term.convention) /\ ls[j].payout = payout
    <3>1. ls[j] \in Range(ls)
      BY <2>4, RowAt
    <3>2. Follows(ls[j], term)
      BY <2>4, <3>1 DEF RowsFollow
    <3> QED
      BY <2>12, <3>2 DEF Follows, Line
  <2>16. r.payout = payout
    BY <1>0, <2>7, <2>13, <2>14, <2>15, ForecastRows
  <2>17. payout >= day /\ payout \notin PaidOn(ls)
    BY Zenon, <2>14, <2>16 DEF LaterRows
  <2>18. ls[j] \in Range(ls) /\ (ls[j].confirmed \/ payout < day)
    BY Zenon, <2>12, <2>15 DEF EarlierRows
  <2>19. ~(payout < day)
    BY <2>17
  <2>20. payout \in PaidOn(ls)
    BY Zenon, <2>15, <2>18, <2>19 DEF PaidOn, Confirmed
  <2> QED
    BY <2>17, <2>20
<1>3. ASSUME NEW i \in Unconfirmed, PayInterestOut(i) PROVE FALSE
  BY <1>0, <1>3, ConfirmedRow, RelabelledDoubles DEF PayInterestOut
<1>4. ASSUME NEW i \in Unconfirmed \cup {0}, NEW day \in OperationDays, Close(i, day)
      PROVE  FALSE
  <2>1. PICK ls : ls = Confirm(i)
    OBVIOUS
  <2>2. ls \in Seq(Line)
    BY <2>1, ConfirmedFollow DEF RowsFollow
  <2>3. lines' = Only(ls, Confirmed(ls))
    BY <1>4, <2>1 DEF Close
  <2>4. TwoRows(ls, to)
    BY <2>2, <2>3, PartDoubles
  <2> QED
    BY <1>0, <2>1, <2>4, ConfirmedRow, RelabelledDoubles
<1>5. CASE (\E e : BackStep(e)) \/ UNCHANGED vars \/ Mature \/ BeginRecalculation
  BY <1>5 DEF BackStep, vars, Mature, BeginRecalculation
<1>6. ASSUME NEW S, lines' = Mark(lines, S) PROVE FALSE
  BY <1>0, <1>6, MarkedRows, RelabelledDoubles
<1>7. CASE SelectUnconfirmed
  BY <1>6, <1>7 DEF SelectUnconfirmed
<1>8. CASE FinishRecalculation
  <2>1. CASE lines' = Mark(lines, {})
    BY <1>6, <2>1
  <2>2. CASE lines' # Mark(lines, {})
    <3>1. PICK new \in Seq(Line) :
            /\ IsForecast(new) /\ Storable(new)
            /\ lines' = Only(lines, {l \in Range(lines) : ~l.seen}) \o new
      BY <1>8, <2>2, LateRebuild DEF RowsFollow
    <3>2. ~TwoRows(new, to)
      BY <1>0, <3>1, StoredApart
    <3>3. TwoRows(Only(lines, {l \in Range(lines) : ~l.seen}) \o new, to)
      BY <3>1
    <3>4. PICK i \in 1 .. Len(lines) :
            lines[i] \in {l \in Range(lines) : ~l.seen} /\ lines[i].to = to
      BY <1>0, <3>2, <3>3, JoinedDoubles
    <3> QED
      BY <1>8, <1>a, <3>4 DEF DoubleCaused, FinishRecalculation
  <2> QED
    BY <2>1, <2>2
<1> QED
  BY <1>1, <1>2, <1>3, <1>4, <1>5, <1>7, <1>8, StepKinds

(* A period gets a second row from a rebuild of the whole forecast only,     *)
(* beside a confirmed row or, when the rebuild took no lock, beside a row    *)
(* made since; a rebuild from a date never doubles one (the rows             *)
(* _recalculate_forecast_for_term keeps, deletes and creates).               *)
THEOREM DoublesAreCaused == Spec => DoublesHaveCause
<1>1. ASSUME RowsInv, [Next]_vars, NEW to \in Doubled(lines') \ Doubled(lines)
      PROVE  DoubleCaused(to)
  <2>1. lines \in Seq(Line) /\ lines' \in Seq(Line)
    BY <1>1, RowsFollowStep DEF RowsInv, RowsFollow
  <2>2. TwoRows(lines', to)
    <3>1. PICK next \in Seq(Line) : next = lines'
      BY <2>1
    <3>2. TwoRows(next, to)
      BY <3>1, DoubledHasTwoRows
    <3> QED
      BY <3>1, <3>2
  <2>3. ~TwoRows(lines, to)
    BY <2>1, DoubledHasTwoRows
  <2> QED
    BY <1>1, <2>2, <2>3, DoublesStep
<1>2. RowsInv /\ [Next]_vars =>
        [\A to \in Doubled(lines') \ Doubled(lines) :
            \/ rates' # rates /\ \E i \in RowsOf(lines, to) : lines[i].confirmed
            \/ /\ slow.step = "insert" /\ slow' = Idle
               /\ \E i \in RowsOf(lines, to) : ~lines[i].seen]_vars
  BY <1>1 DEF DoubleCaused
<1> QED
  BY <1>2, RowsInvariant, PTL DEF Spec, DoublesHaveCause

-----------------------------------------------------------------------------
(* What is expected of a row depends on the principal up to its last day.    *)
LEMMA LaterEvent ==
    ASSUME NEW es \in Seq(Event), NEW e \in Event, NEW d \in Int, d < e.on
    PROVE  PrincipalOn(Append(es, e), d) = PrincipalOn(es, d)
<1>1. PICK all : all = Append(es, e)
  OBVIOUS
<1>2. PICK n \in Nat : n = Len(es)
  BY LenProperties
<1>3. /\ all \in Seq(Event) /\ DOMAIN all = 1 .. n + 1 /\ DOMAIN es = 1 .. n
      /\ all[n + 1] = e /\ \A i \in 1 .. n : all[i] = es[i]
  BY <1>1, <1>2
<1> DEFINE S == {i \in DOMAIN es : es[i].on <= d}
           T == {i \in DOMAIN all : all[i].on <= d}
           f == [i \in DOMAIN es |-> es[i].amount]
           g == [i \in DOMAIN all |-> all[i].amount]
<1>4. PICK day \in Int : day = e.on
  BY DEF Event, Day
<1>5. ~(day <= d)
  BY <1>4
<1>6. T = S
  <2>1. ASSUME NEW i \in T PROVE i \in S
    <3>1. i \in 1 .. n + 1 /\ all[i].on <= d
      BY <1>3
    <3>2. i # n + 1
      BY <1>3, <1>4, <1>5, <3>1
    <3>3. i \in 1 .. n
      BY <3>1, <3>2
    <3> QED
      BY <1>3, <3>1, <3>3
  <2>2. ASSUME NEW i \in S PROVE i \in T
    <3>1. i \in 1 .. n /\ es[i].on <= d
      BY <1>3
    <3>2. i \in 1 .. n + 1
      BY <3>1
    <3> QED
      BY <1>3, <3>1, <3>2
  <2> QED
    BY <2>1, <2>2
<1>7. S \subseteq 1 .. n /\ 1 \in Int /\ n \in Int
  BY <1>3
<1>8. \A i \in S : g[i] = f[i]
  <2> SUFFICES ASSUME NEW i \in S PROVE g[i] = f[i]
    OBVIOUS
  <2>1. i \in 1 .. n /\ i \in 1 .. n + 1
    BY <1>3
  <2> QED
    BY <1>3, <2>1
<1>9. /\ PrincipalOn(es, d) = SumFunctionOnSet(f, S)
      /\ PrincipalOn(all, d) = SumFunctionOnSet(g, T)
  BY Zenon DEF PrincipalOn
<1> HIDE DEF S, T, f, g
<1>10. IsFiniteSet(S)
  BY Zenon, <1>7, PartsAreFinite
<1>11. SumFunctionOnSet(g, S) = SumFunctionOnSet(f, S)
  BY <1>8, <1>10, SumOfEquals
<1> QED
  BY Zenon, <1>1, <1>6, <1>9, <1>11

LEMMA AmountOf ==
    ASSUME NEW es, NEW rs, NEW from, NEW to
    PROVE  ForecastLine(es, rs, from, to).amount =
             IF \E d \in AccrualDays(term, from, to) : Covering(rs, d) = {}
             THEN 0 ELSE Earned(es, rs, from, to)
BY DEF ForecastLine, Earned

LEMMA SameAmount ==
    ASSUME term \in Terms, NEW es, NEW fs, NEW rs,
           NEW from \in Int, NEW to \in Int,
           \A d \in Int : d <= to => PrincipalOn(es, d) = PrincipalOn(fs, d)
    PROVE  ForecastLine(es, rs, from, to).amount = ForecastLine(fs, rs, from, to).amount
<1>1. PICK days : days = AccrualDays(term, from, to)
  OBVIOUS
<1> DEFINE f == [d \in days |-> PrincipalOn(es, d) * RateOn(rs, d)]
           g == [d \in days |-> PrincipalOn(fs, d) * RateOn(rs, d)]
<1>2. IsFiniteSet(days) /\ \A d \in days : d \in Int /\ d <= to
  BY <1>1, AccrualDaysFinite
<1>3. \A d \in days : PrincipalOn(es, d) = PrincipalOn(fs, d)
  BY <1>2
<1>4. \A d \in days : f[d] = g[d]
  BY Zenon, <1>3
<1>5. /\ Earned(es, rs, from, to) = SumFunctionOnSet(f, days)
      /\ Earned(fs, rs, from, to) = SumFunctionOnSet(g, days)
  BY Zenon, <1>1 DEF Earned
<1> HIDE DEF f, g
<1>6. Earned(es, rs, from, to) = Earned(fs, rs, from, to)
  BY <1>2, <1>4, <1>5, SumOfEquals
<1> QED
  BY Zenon, <1>6, AmountOf

IsFresh(l, es, rs) == l.amount = ForecastLine(es, rs, l.from, l.to).amount

LEMMA FreshRows ==
    ASSUME NEW ls, NEW es, NEW rs
    PROVE  Fresh(ls, es, rs) <=> \A l \in Range(ls) : ~l.confirmed => IsFresh(l, es, rs)
BY DEF Fresh, IsFresh

LEMMA FreshKept ==
    ASSUME term \in Terms, NEW l \in Line, Follows(l, term), NEW es \in Seq(Event),
           NEW rs, NEW e \in Event, l.payout < e.on, term.convention # "preceding",
           IsFresh(l, es, rs)
    PROVE  IsFresh(l, Append(es, e), rs)
<1>1. PICK from \in Int, to \in Int, payout \in Int, day \in Int :
        from = l.from /\ to = l.to /\ payout = l.payout /\ day = e.on
  <2>1. \A d \in Day : d \in Int
    BY DEF Day
  <2>2. l.from \in Int /\ l.to \in Int /\ l.payout \in Int /\ e.on \in Int
    BY <2>1 DEF Line, Event
  <2> QED
    BY <2>2
<1>2. to <= payout
  <2>1. l.to \in Day /\ term.convention \in {"none", "following", "preceding"}
    BY DEF Line, Term
  <2>2. l.to <= RollToBusinessDay(l.to, term.convention)
    BY <2>1, RolledDays
  <2> QED
    BY Zenon, <1>1, <2>2 DEF Follows
<1>3. payout < day
  BY Zenon, <1>1
<1>4. PICK fs : fs = Append(es, e)
  OBVIOUS
<1>5. ASSUME NEW d \in Int, d <= to PROVE PrincipalOn(es, d) = PrincipalOn(fs, d)
  <2>1. d < day
    BY <1>2, <1>3, <1>5
  <2>2. d < e.on
    BY Zenon, <1>1, <2>1
  <2> QED
    BY <1>4, <2>2, LaterEvent
<1>6. ForecastLine(es, rs, from, to).amount = ForecastLine(fs, rs, from, to).amount
  BY <1>5, SameAmount
<1> QED
  BY Zenon, <1>1, <1>4, <1>6 DEF IsFresh

LEMMA RelabelledFresh ==
    ASSUME NEW ls \in Seq(Line), NEW next, Relabelled(ls, next),
           \A j \in 1 .. Len(ls) : ls[j].confirmed => next[j].confirmed,
           NEW es, NEW rs, Fresh(ls, es, rs)
    PROVE  Fresh(next, es, rs)
<1>1. /\ next \in Seq(Line) /\ Len(next) = Len(ls)
      /\ \A j \in 1 .. Len(ls) :
            /\ next[j].to = ls[j].to /\ next[j].from = ls[j].from
            /\ next[j].amount = ls[j].amount
  BY DEF Relabelled
<1>2. ASSUME NEW l \in Range(next), ~l.confirmed PROVE IsFresh(l, es, rs)
  <2>1. PICK j \in 1 .. Len(ls) : l = next[j]
    BY <1>1, RowAt
  <2>2. ls[j] \in Range(ls) /\ ~ls[j].confirmed
    BY <1>2, <2>1, RowAt
  <2>3. IsFresh(ls[j], es, rs)
    BY <2>2, FreshRows
  <2>4. l.to = ls[j].to /\ l.from = ls[j].from /\ l.amount = ls[j].amount
    BY <1>1, <2>1
  <2> QED
    BY Zenon, <2>3, <2>4 DEF IsFresh
<1> QED
  BY <1>2, FreshRows

LEMMA BuiltIsFresh ==
    ASSUME term \in Terms, NEW es \in Seq(Event), NEW rs \in Seq(RatePeriod),
           NEW l \in Range(BuildForecast(es, rs))
    PROVE  IsFresh(l, es, rs)
<1>1. l = ForecastLine(es, rs, l.from, l.to)
  BY BuiltForecast
<1>2. PICK k : k = ForecastLine(es, rs, l.from, l.to)
  OBVIOUS
<1>3. l.amount = k.amount
  BY <1>1, <1>2
<1> QED
  BY Zenon, <1>2, <1>3 DEF IsFresh

StaleCaused ==
    \/ term.convention = "preceding"
    \/ slow.step = "insert" /\ slow' = Idle
    \/ /\ events' # events
       /\ Last(events').type \in {"interest", "closure"}
       /\ Last(events').reverses # 0

LEMMA BackStepExcused == ASSUME RowsInv, NEW e, BackStep(e) PROVE StaleCaused
<1>1. PICK n \in Nat : n = Len(events)
  BY LenProperties DEF RowsInv
<1>2. PICK es : es = events'
  OBVIOUS
<1>3. es = Append(events, e) /\ e \in Event /\ events \in Seq(Event)
  BY <1>2 DEF BackStep, Recorded, RowsInv
<1>4. Len(es) = n + 1 /\ es[n + 1] = e
  BY <1>1, <1>3
<1>5. es # events
  BY <1>1, <1>4
<1>6. Last(es) = e
  BY <1>4 DEF Last
<1>7. e.type \in {"interest", "closure"} /\ e.reverses # 0
  BY DEF BackStep
<1> QED
  BY Zenon, <1>2, <1>5, <1>6, <1>7 DEF StaleCaused

LEMMA FreshStep ==
    ASSUME RowsInv, [Next]_vars, Fresh(lines, events, rates), ~StaleCaused
    PROVE  Fresh(lines', events', rates')
<1>0. /\ lines \in Seq(Line) /\ term \in Terms /\ events \in Seq(Event)
      /\ rates \in Seq(RatePeriod)
  BY DEF RowsInv, RowsFollow, RatesInv, PeriodsTyped
<1>1. ASSUME NEW day \in OperationDays, NEW r \in Rates, AddRatePeriod(day, r)
      PROVE  Fresh(lines', events', rates')
  <2>1. PICK rs : rs = rates'
    OBVIOUS
  <2>2. rs \in Seq(RatePeriod)
    BY <2>1, RatesStep DEF RowsInv, RatesInv, PeriodsTyped
  <2>3. RebuildAll(lines, events, rs) /\ events' = events
    BY <1>1, <2>1 DEF AddRatePeriod
  <2>4. PICK new :
            /\ new = BuildForecast(events, rs) /\ new \in Seq(Line)
            /\ lines' = Only(lines, Confirmed(lines)) \o new
    BY <2>2, <2>3, WholeRebuild DEF RowsFollow
  <2>5. PICK next : next = lines'
    OBVIOUS
  <2>6. ASSUME NEW l \in Range(next), ~l.confirmed PROVE IsFresh(l, events, rs)
    <3>1. l \in Confirmed(lines) \/ l \in Range(new)
      BY <1>0, <2>4, <2>5, LeftAndAdded
    <3>2. l \in Range(BuildForecast(events, rs))
      BY <2>4, <2>6, <3>1 DEF Confirmed
    <3> QED
      BY <1>0, <2>2, <3>2, BuiltIsFresh
  <2>7. Fresh(next, events, rs)
    BY <2>6, FreshRows
  <2> QED
    BY Zenon, <2>1, <2>3, <2>5, <2>7
<1>2. ASSUME NEW i, NEW e, FromStep(i, e) PROVE Fresh(lines', events', rates')
  <2>1. PICK es : es = events'
    OBVIOUS
  <2>2. PICK ls : ls = Confirm(i)
    OBVIOUS
  <2>3. /\ es \in Seq(Event) /\ es = Append(events, e) /\ e \in Event
        /\ rates' = rates
    BY <1>2, <2>1, RecordedEvents DEF FromStep, Recorded
  <2>4. RowsFollow(ls, term) /\ ls \in Seq(Line)
    BY <1>2, <2>2, ConfirmedFollow DEF FromStep, RowsFollow
  <2>5. RebuildFrom(ls, es, e.on)
    BY <1>2, <2>1, <2>2 DEF FromStep
  <2>6. PICK day : day = e.on
    OBVIOUS
  <2>7. PICK new :
            /\ new = BuildForecast(es, rates) /\ IsForecast(new)
            /\ Only(new, LaterRows(new, ls, day)) \in Seq(Line)
            /\ lines' = Only(ls, EarlierRows(ls, day))
                            \o Only(new, LaterRows(new, ls, day))
    BY <2>3, <2>4, <2>5, <2>6, PartialRebuild DEF RowsFollow
  <2>8. PICK next : next = lines'
    OBVIOUS
  <2>9. PICK added \in Seq(Line) : added = Only(new, LaterRows(new, ls, day))
    BY <2>7
  <2>10. Fresh(ls, events, rates)
    <3>1. i \in Unconfirmed \cup {0}
      BY <1>2 DEF FromStep
    <3>2. /\ Relabelled(lines, ls)
          /\ \A j \in 1 .. Len(lines) : lines[j].confirmed => ls[j].confirmed
      BY <1>0, <2>2, <3>1, ConfirmedRow
    <3> QED
      BY <1>0, <3>2, RelabelledFresh
  <2>11. term.convention # "preceding"
    BY DEF StaleCaused
  <2>12. ASSUME NEW l \in Range(next), ~l.confirmed PROVE IsFresh(l, es, rates)
    <3>1. \/ l \in Range(ls) /\ l \in EarlierRows(ls, day)
          \/ l \in Range(added)
      BY <2>4, <2>7, <2>8, <2>9, LeftAndAdded
    <3>2. CASE l \in Range(ls) /\ l \in EarlierRows(ls, day)
      <4>1. l.payout < e.on
        BY <2>6, <2>12, <3>2 DEF EarlierRows
      <4>2. Follows(l, term) /\ l \in Line
        BY <2>4, <3>2 DEF RowsFollow, Follows
      <4>3. IsFresh(l, events, rates)
        BY <2>10, <2>12, <3>2, FreshRows
      <4> QED
        BY <1>0, <2>3, <2>11, <4>1, <4>2, <4>3, FreshKept
    <3>3. CASE l \in Range(added)
      <4>1. new \in Seq(Row)
        BY <2>7 DEF IsForecast
      <4>2. l \in Range(new)
        BY <2>9, <3>3, <4>1, OnlyMembers
      <4>3. l \in Range(BuildForecast(es, rates))
        BY <2>7, <4>2
      <4> QED
        BY <1>0, <2>3, <4>3, BuiltIsFresh
    <3> QED
      BY <3>1, <3>2, <3>3
  <2>13. Fresh(next, es, rates)
    BY <2>12, FreshRows
  <2> QED
    BY Zenon, <2>1, <2>3, <2>8, <2>13
<1>3. ASSUME NEW i \in Unconfirmed, PayInterestOut(i)
      PROVE  Fresh(lines', events', rates')
  <2>1. PICK next : next = Confirm(i)
    OBVIOUS
  <2>2. /\ Relabelled(lines, next)
        /\ \A j \in 1 .. Len(lines) : lines[j].confirmed => next[j].confirmed
    BY <1>0, <2>1, ConfirmedRow
  <2>3. Fresh(next, events, rates)
    BY <1>0, <2>2, RelabelledFresh
  <2>4. lines' = next /\ events' = events /\ rates' = rates
    BY <1>3, <2>1 DEF PayInterestOut
  <2> QED
    BY Zenon, <2>3, <2>4
<1>4. ASSUME NEW i \in Unconfirmed \cup {0}, NEW day \in OperationDays, Close(i, day)
      PROVE  Fresh(lines', events', rates')
  <2>1. PICK ls : ls = Confirm(i)
    OBVIOUS
  <2>2. ls \in Seq(Line)
    BY <2>1, ConfirmedFollow DEF RowsFollow
  <2>3. PICK next : next = Only(ls, Confirmed(ls))
    OBVIOUS
  <2>4. \A l \in Range(next) : l.confirmed
    BY <2>2, <2>3, OnlyMembers DEF Confirmed
  <2>5. PICK es, rs : es = events' /\ rs = rates'
    OBVIOUS
  <2>6. Fresh(next, es, rs)
    BY <2>4, FreshRows
  <2>7. lines' = next
    BY <1>4, <2>1, <2>3 DEF Close
  <2> QED
    BY Zenon, <2>5, <2>6, <2>7
<1>5. ASSUME NEW e, BackStep(e) PROVE FALSE
  BY <1>5, BackStepExcused
<1>6. CASE UNCHANGED vars \/ Mature \/ BeginRecalculation
  <2>1. lines' = lines /\ events' = events /\ rates' = rates
    BY <1>6 DEF vars, Mature, BeginRecalculation
  <2> QED
    BY Zenon, <2>1
<1>7. CASE SelectUnconfirmed
  <2>1. PICK S : lines' = Mark(lines, S)
    BY <1>7 DEF SelectUnconfirmed
  <2>2. PICK next : next = Mark(lines, S)
    OBVIOUS
  <2>3. /\ Relabelled(lines, next)
        /\ \A j \in 1 .. Len(lines) :
                next[j] = [lines[j] EXCEPT !.seen = lines[j] \in S]
    BY <1>0, <2>2, MarkedRows
  <2>4. ASSUME NEW j \in 1 .. Len(lines), lines[j].confirmed
        PROVE  next[j].confirmed
    <3>1. PICK l \in Line : l = lines[j]
      BY <1>0
    <3>2. PICK b : b = (lines[j] \in S)
      OBVIOUS
    <3>3. next[j] = [l EXCEPT !.seen = b]
      BY Zenon, <2>3, <3>1, <3>2
    <3> QED
      BY <2>4, <3>1, <3>3 DEF Line
  <2>5. Fresh(next, events, rates)
    BY <1>0, <2>3, <2>4, RelabelledFresh
  <2>6. lines' = next /\ events' = events /\ rates' = rates
    BY <1>7, <2>1, <2>2 DEF SelectUnconfirmed
  <2> QED
    BY Zenon, <2>5, <2>6
<1>8. CASE FinishRecalculation
  BY <1>8 DEF FinishRecalculation, StaleCaused
<1> QED
  BY <1>1, <1>2, <1>3, <1>4, <1>5, <1>6, <1>7, <1>8, StepKinds

(* What the forecast shows is what the present principal and rates yield: an *)
(* operation that finds it so leaves it so, although a rebuild from a date   *)
(* computes the later payouts only.  It fails as the property says: a payout *)
(* rolled back, something taken back that rebuilds nothing, a late rebuild   *)
(* (the date _recalculate_forecast_for_term is given by its callers).        *)
THEOREM StaleIsCaused == Spec => StaleHasCause
<1>1. RowsInv /\ [Next]_vars =>
        [Fresh(lines, events, rates) /\ ~Fresh(lines', events', rates') =>
            \/ term.convention = "preceding"
            \/ slow.step = "insert" /\ slow' = Idle
            \/ /\ events' # events
               /\ Last(events').type \in {"interest", "closure"}
               /\ Last(events').reverses # 0]_vars
  BY FreshStep DEF StaleCaused
<1> QED
  BY <1>1, RowsInvariant, PTL DEF Spec, StaleHasCause

=============================================================================
