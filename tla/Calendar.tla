------------------------------ MODULE Calendar ------------------------------
(* A calendar of short months: days are numbers, a month is a position of    *)
(* MonthLengths.  The code gets the same from calendar.monthrange and from   *)
(* dateutil's relativedelta.                                                 *)
EXTENDS Integers, Sequences, FiniteSetsExt, SequencesExt

CONSTANT MonthLengths  \* days of each month of the calendar

ASSUME CalendarAssumption == MonthLengths \in Seq(Nat \ {0})

DaysInAll == SumFunction(MonthLengths)

Day == 1 .. DaysInAll

MonthStart(m) == 1 + SumFunctionOnSet(MonthLengths, 1 .. m - 1)

MonthEnd(m) == MonthStart(m) + MonthLengths[m] - 1

MonthOf(day) ==
    CHOOSE m \in DOMAIN MonthLengths : day \in MonthStart(m) .. MonthEnd(m)

(* _clamp_to_month.                                                          *)
ClampToMonth(m, dayOfMonth) ==
    MonthStart(m) - 1 + Min({dayOfMonth, MonthLengths[m]})

(* A date moved by whole months, on the last day of a month too short.       *)
AddMonths(day, months) ==
    ClampToMonth(MonthOf(day) + months, day - MonthStart(MonthOf(day)) + 1)
=============================================================================
