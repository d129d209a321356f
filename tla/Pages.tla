-------------------------------- MODULE Pages -------------------------------
(* The pages of figures and the cache before them.                           *)
(*                                                                           *)
(* A page is kept for some minutes under a key.  The key of the detailed     *)
(* statistics holds a version of their reader, kept in the cache as well;    *)
(* the other keys are fixed and are deleted.  A write that sends a signal    *)
(* invalidates the pages of its own user when it has committed; `missed`     *)
(* remembers why a picture of the rows is out of reach of an invalidation.   *)
EXTENDS Loans

CONSTANTS
    Changes,       \* rows that may be written or deleted
    NewLoans,      \* loans that may be taken
    Workers,       \* requests that write
    MaxVersion,    \* bound on the version of a reader's keys
    MaxEvents      \* bound on the writes and accidents of a behaviour

PageNames == {"statistics", "dashboard", "comparison", "reports", "profile"}

(* A page as it is asked for; family is member=family of the statistics.     *)
Asks == [page : PageNames, user : Users, family : BOOLEAN]

ASSUME PagesAssumption ==
    /\ Changes \subseteq Row /\ NewLoans \subseteq Loan
    /\ MaxVersion \in Nat \ {0} /\ MaxEvents \in Nat

VARIABLES
    rows,      \* the rows in the database
    loans,     \* the loans in the database
    now,       \* timezone.now()
    asked,     \* the page that is followed
    version,   \* user_stats_version_<user>, 0 when the key is not there
    entries,   \* the page's pictures in the cache, by version or 0
    request,   \* the reader
    writer,    \* each worker
    events     \* writes and accidents so far
vars == <<rows, loans, now, asked, version, entries, request, writer, events>>

Causes == {"none", "silent", "member", "died", "turned", "rewound", "late"}

(* What a page was computed from, and why no invalidation will reach it.     *)
Picture == [rows : SUBSET Row, loans : SUBSET Loan, at : Moment,
            missed : Causes]
Now == [rows |-> rows, loans |-> loans, at |-> now, missed |-> "none"]
Idle == [phase |-> "idle"]

-----------------------------------------------------------------------------
(* Each page from a picture.                                                 *)

Members == IF asked.family THEN Users ELSE {asked.user}
AccountsOf(us) == {a \in Accounts : Owner[a] \in us}
LoansOf(ls, us) == {l \in ls : l.user \in us}

Statistics(S, ls, at) ==
    LET as == AccountsOf(Members)
        cards == as \cap CreditCards
    IN  <<MonthsData(S, at), BudgetsData(S, at), Chart(S, at),
          TopWithComparison("expense", S, at), TopWithComparison("income", S, at),
          CashflowForecast(as, Lent(ls), S, at),
          {CardBlock(c, S, at) : c \in cards},
          CardsSummary(UNION {CardPlan(c, S, at) : c \in cards}),
          PaymentCalendar(cards, ScheduleRows(ls), S, at), Alerts(cards, S, at)>>

(* A plan breaks the two pages that show months.                             *)
Fails(pic) == /\ asked.page \in {"statistics", "dashboard"}
              /\ PlansBreak(OfUsers(pic.rows, Members), pic.at)

(* The figures of the page asked for.                                        *)
FiguresOf(S, ls, at) ==
    CASE asked.page = "statistics" -> Statistics(S, ls, at)
      [] asked.page = "dashboard" ->
            <<MonthsData(S, at), TopCategories("expense", InPeriod(S, at))>>
      [] asked.page = "comparison" -> <<Comparison(S, at)>>
      [] asked.page = "reports" -> <<BudgetCharts(S, at)>>
      [] asked.page = "profile" ->
            <<UserStatistics(AccountsOf(Members), Lent(ls), S, at)>>

(* None when its code fails.                                                 *)
Answer(pic) ==
    IF Fails(pic) THEN <<>>
    ELSE FiguresOf(OfUsers(pic.rows, Members), LoansOf(pic.loans, Members),
                   pic.at)

-----------------------------------------------------------------------------
(* cache.get(version_key, 1).                                                *)
VersionOf(u) == IF version[u] = 0 THEN 1 ELSE version[u]

(* The key that a request for the page uses.                                 *)
Key == IF asked.page = "statistics" THEN VersionOf(asked.user) ELSE 0

Mark(pic, cause) ==
    IF pic.missed = "none" THEN [pic EXCEPT !.missed = cause] ELSE pic
MarkedEntries(cause) ==
    entries' = [k \in DOMAIN entries |-> Mark(entries[k], cause)]
(* A reader keeps the key it has read although the version goes back.        *)
MarkedRequest(cause) ==
    request' = CASE request.phase = "computed" ->
                        [request EXCEPT !.picture = Mark(@, cause)]
                 [] request.phase = "asked" /\ cause = "rewound" ->
                        [request EXCEPT !.missed = cause]
                 [] OTHER -> request
Marked(cause) ==
    IF cause = "none" THEN UNCHANGED <<entries, request>>
    ELSE MarkedEntries(cause) /\ MarkedRequest(cause)
Unmarked == Marked("none")

Happens == events < MaxEvents /\ events' = events + 1

(* Nobody at work and nothing in the cache.                                  *)
Quiet ==
    /\ version = [u \in Users |-> 0]
    /\ entries = <<>>
    /\ request = Idle
    /\ writer = [w \in Workers |-> Idle]
    /\ events = 0

(* The moments at which the months that the pages show are in the calendar.  *)
Shown == {at \in Moment : Today(at) \in Day /\ ThisMonth(at) >= StatMonths}

(* Any rows and loans there may be.                                          *)
Init ==
    /\ rows \in SUBSET Row /\ IsFiniteSet(rows)
    /\ loans \in SUBSET Loan /\ IsFiniteSet(loans)
    /\ now \in Shown /\ asked \in Asks
    /\ Quiet

-----------------------------------------------------------------------------
(* The reader.                                                               *)

(* get_user_detailed_statistics_cache_key, and the fixed keys.               *)
Ask ==
    /\ request = Idle
    /\ request' = [phase |-> "asked", key |-> Key, missed |-> "none"]
    /\ UNCHANGED <<rows, loans, now, asked, version, entries, writer, events>>

(* The page is in the cache.                                                 *)
Hit ==
    /\ request.phase = "asked" /\ request.key \in DOMAIN entries
    /\ request' = Idle
    /\ UNCHANGED <<rows, loans, now, asked, version, entries, writer, events>>

(* It is not: it is computed, or its code fails and nothing is stored.       *)
Compute ==
    /\ request.phase = "asked" /\ request.key \notin DOMAIN entries
    /\ request' = IF Fails(Now) THEN Idle
                  ELSE [phase |-> "computed", key |-> request.key,
                        picture |-> [Now EXCEPT !.missed = request.missed]]
    /\ UNCHANGED <<rows, loans, now, asked, version, entries, writer, events>>

(* cache.set.                                                                *)
Store ==
    /\ request.phase = "computed"
    /\ entries' = [k \in DOMAIN entries \cup {request.key} |->
                    IF k = request.key THEN request.picture ELSE entries[k]]
    /\ request' = Idle
    /\ UNCHANGED <<rows, loans, now, asked, version, writer, events>>

-----------------------------------------------------------------------------
(* The writers.                                                              *)

(* The senders of users/services/signals.py, and the deposit service where   *)
(* it books interest.  Planning and Budget send nothing.                     *)
Signalled(kind) == kind \notin {"plan", "limit"}

(* What the page followed hears of a write: invalidations are of the keys of *)
(* the writing user alone, and none is of the profile.                       *)
Unheard(u, signalled) ==
    IF u \notin Members THEN "none"
    ELSE IF ~signalled \/ asked.page = "profile" THEN "silent"
    ELSE IF u # asked.user THEN "member"
    ELSE "none"

(* A write of user u has committed; the invalidation follows in its worker.  *)
Invalidating(w, u, then) ==
    writer' = [writer EXCEPT ![w] =
                [phase |-> "committed", user |-> u, then |-> then]]


Write(w, r) ==
    /\ writer[w] = Idle
    /\ rows' = IF r \in rows THEN rows \ {r} ELSE rows \cup {r}
    /\ Happens
    /\ IF Signalled(r.kind) THEN Invalidating(w, Owner[r.account], <<>>)
       ELSE UNCHANGED writer
    /\ Marked(Unheard(Owner[r.account], Signalled(r.kind)))
    /\ UNCHANGED <<loans, now, asked, version>>

(* ?refresh=1 of the statistics page: the invalidation alone.                *)
Refresh(w, u) ==
    /\ writer[w] = Idle
    /\ Happens
    /\ Invalidating(w, u, <<>>)
    /\ Unmarked
    /\ UNCHANGED <<rows, loans, now, asked, version>>

(* LoanCreateView: account and loan in one transaction, whose commit calls   *)
(* the account's signal; then the schedule.                                  *)
TakeLoan(w, l) ==
    /\ writer[w] = Idle /\ loans = {}
    /\ loans' = loans \cup {l}
    /\ Happens
    /\ Invalidating(w, l.user, <<l>>)
    /\ Marked(Unheard(l.user, TRUE))
    /\ UNCHANGED <<rows, now, asked, version>>

StoreSchedule(w) ==
    /\ writer[w].phase = "schedule"
    /\ loans' = (loans \ {writer[w].loan})
                    \cup {[writer[w].loan EXCEPT !.status = "scheduled"]}
    /\ writer' = [writer EXCEPT ![w] = Idle]
    /\ Marked(Unheard(writer[w].loan.user, FALSE))
    /\ UNCHANGED <<rows, now, asked, version, events>>

(* LoanDeleteView: the loan with its schedule, then the account, which       *)
(* PROTECT may keep; only the account sends a signal.                        *)
DeleteLoan(w, l) ==
    /\ writer[w] = Idle /\ l.status # "deleted"
    /\ \A o \in Workers : writer[o].phase = "schedule" => writer[o].loan # l
    /\ loans' = (loans \ {l}) \cup {[l EXCEPT !.status = "deleted"]}
    /\ Happens
    /\ writer' = [writer EXCEPT ![w] =
                    [phase |-> "account",
                     loan |-> [l EXCEPT !.status = "deleted"]]]
    /\ Marked(Unheard(l.user, FALSE))
    /\ UNCHANGED <<rows, now, asked, version>>

DeleteAccount(w) ==
    /\ writer[w].phase = "account"
    /\ loans' = loans \ {writer[w].loan}
    /\ Invalidating(w, writer[w].loan.user, <<>>)
    /\ Marked(Unheard(writer[w].loan.user, TRUE))
    /\ UNCHANGED <<rows, now, asked, version, events>>

(* invalidate_user_detailed_statistics_cache: get, set, delete.              *)
NextVersion(v) == v + 1

ReadVersion(w) ==
    /\ writer[w].phase = "committed"
    /\ writer' = [writer EXCEPT ![w] =
                    [phase |-> "read", user |-> writer[w].user,
                     read |-> VersionOf(writer[w].user),
                     then |-> writer[w].then]]
    /\ UNCHANGED <<rows, loans, now, asked, version, entries, request, events>>

SetVersion(w) ==
    LET u == writer[w].user
        next == NextVersion(writer[w].read)
    IN  /\ writer[w].phase = "read" /\ next <= MaxVersion
        /\ version' = [version EXCEPT ![u] = next]
        /\ writer' = [writer EXCEPT ![w] =
                        [phase |-> "set", user |-> u, then |-> writer[w].then]]
        /\ IF u = asked.user /\ next < VersionOf(u) THEN Marked("rewound")
           ELSE Unmarked
        /\ UNCHANGED <<rows, loans, now, asked, events>>

(* A faulty form: the reports are not among the deleted pages.               *)
Deleted_NotReports == {"dashboard", "comparison"}

(* The pages deleted by name; the profile is not among them.                 *)
Deleted == {"dashboard", "reports", "comparison"}

DropPages(w) ==
    LET mine == writer[w].user = asked.user /\ asked.page \in Deleted
    IN  /\ writer[w].phase = "set"
        /\ writer' = [writer EXCEPT ![w] =
                IF writer[w].then = <<>> THEN Idle
                ELSE [phase |-> "schedule", loan |-> Head(writer[w].then)]]
        /\ IF mine
           THEN /\ entries' = <<>>
                /\ IF request.phase = "computed" /\ request.picture # Now
                   THEN MarkedRequest("late") ELSE UNCHANGED request
           ELSE Unmarked
        /\ UNCHANGED <<rows, loans, now, asked, version, events>>

(* The worker process dies between its commit and the end of the rest.       *)
Die(w) ==
    /\ writer[w] # Idle
    /\ Happens
    /\ writer' = [writer EXCEPT ![w] = Idle]
    /\ IF writer[w].phase \in {"committed", "read", "set"}
            /\ writer[w].user = asked.user
       THEN Marked("died") ELSE Unmarked
    /\ UNCHANGED <<rows, loans, now, asked, version>>

-----------------------------------------------------------------------------
(* The cache and the clock.                                                  *)

(* An entry expires, or is culled.                                           *)
Forget(k) ==
    /\ entries' = Restrict(entries, DOMAIN entries \ {k})
    /\ UNCHANGED <<rows, loans, now, asked, version, request, writer, events>>

(* So does the version, which lives half as long as the statistics under it. *)
ForgetVersion(u) ==
    /\ version[u] # 0
    /\ Happens
    /\ version' = [version EXCEPT ![u] = 0]
    /\ IF u = asked.user THEN Marked("rewound") ELSE Unmarked
    /\ UNCHANGED <<rows, loans, now, asked, writer>>

(* The date changes under the pages.                                         *)
Turn ==
    /\ now + 1 \in Moment
    /\ Happens
    /\ now' = now + 1
    /\ Marked("turned")
    /\ UNCHANGED <<rows, loans, asked, version, writer>>

Next ==
    \/ Ask \/ Hit \/ Compute \/ Store \/ Turn
    \/ \E w \in Workers :
        \/ \E r \in Changes : Write(w, r)
        \/ \E u \in Users : Refresh(w, u)
        \/ \E l \in NewLoans : TakeLoan(w, l)
        \/ \E l \in loans : DeleteLoan(w, l)
        \/ StoreSchedule(w) \/ DeleteAccount(w)
        \/ ReadVersion(w) \/ SetVersion(w) \/ DropPages(w) \/ Die(w)
    \/ \E k \in DOMAIN entries : Forget(k)
    \/ \E u \in Users : ForgetVersion(u)

Spec == Init /\ [][Next]_vars

-----------------------------------------------------------------------------
(* Properties.                                                               *)

UnderWay == \E w \in Workers : /\ writer[w].phase \in {"committed", "read", "set"}
                                /\ writer[w].user = asked.user

(* A page served from the cache shows the figures of the rows as they are,   *)
(* unless its invalidation is under way, or never comes for one of the named *)
(* causes: a write that sends no signal or is another member's, a worker     *)
(* that died, a new date, a version that went back to an earlier number, a   *)
(* page computed before an invalidation and stored after it.                 *)
StalePageHasCause ==
    Key \in DOMAIN entries =>
        \/ entries[Key].missed # "none"
        \/ UnderWay
        \/ entries[Key] = Now
        \/ Answer(entries[Key]) = Answer(Now)

(* The other properties are of the rows, the loans and the clock, and are    *)
(* looked at in every history before anything more happens.                  *)
AtFirst == events = 0 /\ request = Idle

Later(S) == {r \in S : r.at > EndOfDay(Today(now))}
HasInterest(S, m) == OfKind(InMonth(S, m), {"interest"}) # {}
Sides(f) == [income |-> f.income, expenses |-> f.expenses]

(* The figures of a month that different pages show are the same, unless the *)
(* rows hold what one of them leaves out: a deposit's interest, rows dated   *)
(* after today, or the night hours in which UTC is still in the last month.  *)
MonthsAgree(S) ==
    LET m == ThisMonth(now)
        kpis == MonthKpis(S, now)
        compared == Comparison(S, now)
        profile == UserStatistics(AccountsOf(Members), 0, S, now)
    IN  /\ kpis = BudgetCharts(S, now)
        /\ \/ compared.current = kpis.figure
           \/ MonthOf(LocalDay(now)) # m \/ Later(InMonth(S, m)) # {}
        /\ \/ profile.current = compared.current
           \/ HasInterest(S, m) \/ Later(S) # {}
        /\ profile.previous = compared.previous \/ HasInterest(S, m - 1)
        /\ \/ Sides(MonthData(m, S, now)) = compared.current
           \/ HasInterest(S, m)
        /\ Sides(MonthData(m - 1, S, now)) = profile.previous

(* The chart of a period adds up to its months, unless two moments of a kind *)
(* fall on one date; the balance of the last month is what the accounts have *)
(* gained, unless receipts, interest or later rows moved them.               *)
ChartAgrees(S) ==
    LET days == ChartDays(InPeriod(S, now))
        drawn(kind) == SumFunction([d \in days |->
                                        ChartDay(kind, d, InPeriod(S, now))])
        months(kind) == SumOf({kind}, InPeriod(S, now))
        twice(kind) == \E r, o \in OfKind(InPeriod(S, now), {kind}) :
                            r.at # o.at /\ UtcDay(r.at) = UtcDay(o.at)
    IN  /\ \A kind \in {"income", "expense"} :
                drawn(kind) = months(kind) \/ twice(kind)
        /\ LET as == AccountsOf(Members)
           IN  \/ MonthData(ThisMonth(now), S, now).balance
                     = Balances(as, S) - Balances(as, {})
               \/ OfKind(S, {"purchase", "return", "interest"}) # {}
               \/ Later(S) # {}

(* The trend ends at today's balance, unless transactions are dated later or *)
(* in the first day before the hour; it starts at the balance of that day,   *)
(* unless something else than transactions moved it since.                   *)
TrendAgrees(S) ==
    LET as == AccountsOf(Members)
        since == {r \in S : LocalDay(r.at) >= TrendStart(now)}
        transactions == OfKind(since, {"income", "expense"})
    IN  /\ \/ BalanceTrend(as, S, now)[Today(now)] = Balances(as, S)
           \/ \E r \in transactions :
                r.at < now - 2 * TrendDays \/ LocalDay(r.at) > Today(now)
        /\ \/ BalanceAt(as, TrendStart(now), S) = Balances(as, S \ since)
           \/ OfKind(since, {"purchase", "return", "interest"}) # {}

FiguresAgree ==
    AtFirst => LET S == OfUsers(rows, Members)
               IN  MonthsAgree(S) /\ ChartAgrees(S) /\ TrendAgrees(S)

(* A card's debts: what the summary says and what the plan of payments says  *)
(* is what the balance lacks to the limit, unless the card was opened with   *)
(* another balance or lent its money to a transfer; the plan also unless rows*)
(* are dated later, a payment came after a month was due, a month returned   *)
(* more than it spent, or the card did not enter the period with its limit.  *)
(* The debt left at the end of grace is the month's purchases less all that  *)
(* was paid since the month began, unless it was paid in the month itself.   *)
Lacks(c) == NotNegative(CreditLimit[c] - Balance(c, rows))
MovedOut(c) == \E r \in OfKind(rows, {"transfer"}) : r.account = c
DebtAgrees(c) == \/ CardDebt(c, rows) = Lacks(c)
                 \/ MovedOut(c) \/ Opening[c] # CreditLimit[c]

PlanAgrees(c) ==
    LET months == CardMonths(c, rows, now)
        payments == CollectedPayments(c, InPeriod(rows, now))
    IN  \/ Remaining(CardPlan(c, rows, now)) = Lacks(c)
        \/ MovedOut(c)
        \/ \E r \in Later(rows) : c \in {r.account, r.to}
        \/ \E p \in payments, e \in months : e.debt > 0 /\ p.at > e.due
        \/ \E e \in months : e.debt < 0
        \/ Balance(c, {r \in rows : r.at < StartOfDay(StatStart(now))})
                # CreditLimit[c]

GraceAgrees(c) ==
    LET m == ThisMonth(now)
        grace == GraceInfo(c, m, rows, now)
        inMonth == InMonth(rows, m)
    IN  \/ grace.final = NotNegative(Total(Purchases(c, inMonth))
                - CardPayments(c, {r \in rows : r.at \in
                        StartOfDay(MonthStart(m)) .. grace.graceEnd}))
        \/ Bank[c] # "other" /\ Repayments(c, inMonth) # {}

CardAgrees(c) == DebtAgrees(c) /\ PlanAgrees(c) /\ GraceAgrees(c)

CardDebtsAgree == AtFirst => \A c \in CreditCards : CardAgrees(c)

(* The lines of a schedule pay the loan back, each with its interest to a    *)
(* kopeck, and at least the loan, unless its equal parts were rounded one by *)
(* one or the payments so far up that the last one gives money back.         *)
PaysBack(l) ==
    LET lines == Schedule(l)
        uneven == l.kind = "Differentiated" /\ l.amount % l.months # 0
        givesBack == lines[l.months].principal < 0
    IN  /\ \/ SumFunction([i \in 1 .. l.months |-> lines[i].principal])
                 = l.amount
           \/ uneven
        /\ lines[l.months].balance = 0
        /\ \A i \in 1 .. l.months :
            /\ lines[i].payment - lines[i].interest - lines[i].principal \in -1 .. 1
            /\ \/ lines[i].principal >= 0
               \/ i = l.months /\ lines[i].payment <= 0
        /\ Overpayment(l) >= 0 \/ uneven \/ givesBack \/ l.status # "scheduled"

(* They fall on the day of the loan, unless a month on the way was too short *)
(* for it; months after the calendar's last one have no days to fall on.     *)
KeepsDay(l) ==
    LET month == MonthOf(l.day)
        dayOfMonth == l.day - MonthStart(month) + 1
    IN  \A i \in 1 .. l.months :
            \/ PaymentDay(l, i) = AddMonths(l.day, i)
            \/ \E k \in 1 .. i - 1 : MonthLengths[month + k] < dayOfMonth
            \/ month + i > Len(MonthLengths)

LinesAddUp(l) == PaysBack(l) /\ KeepsDay(l)

LoanLinesAddUp == AtFirst => \A l \in loans : LinesAddUp(l)
=============================================================================
