------------------------------- MODULE Budget -------------------------------
(* The budget: the tree of categories, the list of months, the plans and the *)
(* limits, and what its pages make of them for one user or for a family.     *)
(* Amounts are whole, and a date is a month and whether it is its first day. *)
EXTENDS Family, Integers, FiniteSetsExt

CONSTANTS
    Categories,
    NoCategory,     \* parent_category or budget.category is NULL
    Months,         \* 1 .. the last month of the instance
    Entered,        \* the months of them in which amounts are entered
    ThisMonth,
    Batch,          \* NUMBER_TWELFTH_MONTH_YEAR
    Amounts,        \* what may be spent in a category and a month, or planned
    LimitAmounts,
    Thresholds,
    TreeDepth,      \* 3 where the tree of categories is shown
    FormIds,        \* category forms that are being handled
    PressIds        \* presses of the button that adds months

ASSUME BudgetAssumption ==
    /\ NoCategory \notin Categories /\ IsFiniteSet(Categories)
    /\ ThisMonth \in Months /\ Entered \subseteq Months
    /\ Months \subseteq Nat /\ Batch \in Nat \ {0}
    /\ Amounts \subseteq Nat /\ 0 \in Amounts /\ LimitAmounts \subseteq Nat
    /\ Thresholds \subseteq 1 .. 100 /\ TreeDepth \in Nat \ {0}

VARIABLES
    category,  \* the categories: from their keys to rows
    spent,     \* the amount of the transactions of a category in a month
    listed,    \* DateList of each user
    plans,     \* Planning: from category and date to an amount
    limits,    \* Budget: from user, category and month to a row
    form,      \* the category forms, with the row they will save
    press      \* the presses, with how far generate_date_list is

budgetVars == <<category, spent, listed, plans, limits, form, press>>
vars == <<familyVars, budgetVars>>

Types == {"expense", "income"}
Dates == Months \X {"first", "later"}
Category == [user : Users, type : Types, parent : Categories \cup {NoCategory}]
Idle == [at |-> "idle"]
Table(f, D, R) == DOMAIN f \subseteq D /\ \A x \in DOMAIN f : f[x] \in R
Empty == [x \in {} |-> 0]

BudgetTypeOK ==
    /\ FamilyTypeOK
    /\ Table(category, Categories, Category)
    /\ spent \in [Categories -> [Months -> Amounts]]
    /\ listed \in [Users -> SUBSET Dates]
    /\ Table(plans, (DOMAIN category) \X Dates, Amounts)
    /\ Table(limits, Users \X (DOMAIN category \cup {NoCategory}) \X Months,
             [limit : LimitAmounts, threshold : Thresholds])
    /\ form \in [FormIds -> {Idle} \cup
            [at : {"loaded"}, of : Categories, row : Category]]
    /\ press \in [PressIds -> {Idle} \cup
            [at : {"last", "dates", "read", "insert"}, user : Users,
             type : Types, from : Dates, missing : SUBSET (Categories \X Dates)]]

BudgetInit ==
    /\ category = Empty /\ plans = Empty /\ limits = Empty
    /\ spent = [c \in Categories |-> [m \in Months |-> 0]]
    /\ listed = [u \in Users |-> {}]
    /\ form = [f \in FormIds |-> Idle]
    /\ press = [k \in PressIds |-> Idle]

-----------------------------------------------------------------------------
(* The categories.                                                           *)
CategoriesOf(u, t) ==
    {c \in DOMAIN category : category[c].user = u /\ category[c].type = t}
ChildrenOf(c) == {d \in DOMAIN category : category[d].parent = c}

(* CategoryCreateView and QuickCategoryCreateView, which knows no parents; a *)
(* key is not used again while something may still refer to it.              *)
CreateCategory(c, u, t, p) ==
    /\ c \notin DOMAIN category
    /\ \A f \in FormIds :
        form[f].at = "loaded" => c \notin {form[f].of, form[f].row.parent}
    /\ \A k \in PressIds :
        press[k].at = "insert" => \A x \in press[k].missing : x[1] # c
    /\ p \in CategoriesOf(u, t) \cup {NoCategory}
    /\ category' = Put(category, c, [user |-> u, type |-> t, parent |-> p])
    /\ UNCHANGED <<familyVars, spent, listed, plans, limits, form, press>>

(* A faulty form: the type of the parent is not asked for.                   *)
LoadCategory_AnyType(f, c, p) ==
    /\ form[f] = Idle /\ c \in DOMAIN category
    /\ p \in (DOMAIN category \cup {NoCategory}) \ {c}
    /\ form' = [form EXCEPT ![f] = [at |-> "loaded", of |-> c,
                    row |-> [category[c] EXCEPT !.parent = p]]]
    /\ UNCHANGED <<familyVars, category, spent, listed, plans, limits, press>>

(* CategoryUpdateView: any other category of its user and type may become    *)
(* the parent.                                                               *)
LoadCategory(f, c, p) ==
    /\ form[f] = Idle /\ c \in DOMAIN category
    /\ LET siblings == CategoriesOf(category[c].user, category[c].type)
       IN  p \in (siblings \cup {NoCategory}) \ {c}
    /\ form' = [form EXCEPT ![f] = [at |-> "loaded", of |-> c,
                    row |-> [category[c] EXCEPT !.parent = p]]]
    /\ UNCHANGED <<familyVars, category, spent, listed, plans, limits, press>>

(* form_valid saves the whole row: one deleted meanwhile is inserted again,  *)
(* a parent deleted meanwhile makes it fail.                                 *)
SaveCategory(f) ==
    /\ form[f].at = "loaded"
    /\ LET row == form[f].row IN
       category' = IF row.parent \in DOMAIN category \cup {NoCategory}
                   THEN Put(category, form[f].of, row) ELSE category
    /\ form' = [form EXCEPT ![f] = Idle]
    /\ UNCHANGED <<familyVars, spent, listed, plans, limits, press>>

(* CategoryDeleteView: children and transactions protect a category; its     *)
(* plans and limits go with it.                                              *)
DeleteCategory(c) ==
    /\ c \in DOMAIN category /\ ChildrenOf(c) = {}
    /\ \A m \in Months : spent[c][m] = 0
    /\ category' = Restrict(category, DOMAIN category \ {c})
    /\ plans' = Restrict(plans, {k \in DOMAIN plans : k[1] # c})
    /\ limits' = Restrict(limits, {k \in DOMAIN limits : k[2] # c})
    /\ UNCHANGED <<familyVars, spent, listed, form, press>>

(* Transactions of the category are made, changed or deleted.                *)
Spend(c, m, n) ==
    /\ c \in DOMAIN category /\ spent[c][m] # n
    /\ spent' = [spent EXCEPT ![c][m] = n]
    /\ UNCHANGED <<familyVars, category, listed, plans, limits, form, press>>

(* CategoryTreeBuilder: the categories on each level, and count_desc.        *)
TreeLevels(u, t) ==
    LET level[n \in 1 .. TreeDepth] ==
            LET above == IF n = 1 THEN {NoCategory} ELSE level[n - 1]
            IN  {c \in CategoriesOf(u, t) : category[c].parent \in above}
    IN  level

(* A faulty form: only the children are counted.                             *)
CountDesc_Children(u, t, c) ==
    Cardinality({d \in CategoriesOf(u, t) : category[d].parent = c})

(* Descendants at most so many generations below.                            *)
CountDesc(u, t, c) ==
    LET within[n \in 0 .. Cardinality(Categories)] ==
            IF n = 0 THEN {} ELSE
            LET above == {c} \cup within[n - 1]
            IN  {d \in CategoriesOf(u, t) : category[d].parent \in above}
    IN  Cardinality(within[Cardinality(Categories)])

-----------------------------------------------------------------------------
(* The months.                                                               *)
Run(date) == {<<m, date[2]>> : m \in date[1] .. date[1] + Batch - 1}
LastDate(u) == CHOOSE d \in listed[u] : \A e \in listed[u] : e[1] <= d[1]

(* register_user, register_invited_user: the months from the day of joining. *)
Register(u, day) ==
    /\ listed[u] = {}
    /\ Run(<<ThisMonth, day>>) \subseteq Dates
    /\ listed' = [listed EXCEPT ![u] = Run(<<ThisMonth, day>>)]
    /\ UNCHANGED <<familyVars, category, spent, plans, limits, form, press>>

(* GenerateDateView and GenerateDatesAPIView: generate_date_list for the     *)
(* expenses and then for the incomes, which go on where the expenses ended.  *)
Press(k, u) ==
    /\ press[k] = Idle
    /\ press' = [press EXCEPT ![k] = [at |-> "last", user |-> u,
            type |-> "expense", from |-> <<ThisMonth, "first">>, missing |-> {}]]
    /\ UNCHANGED <<familyVars, category, spent, listed, plans, limits, form>>

(* A faulty form: the next months begin a month too late.                    *)
ReadLast_SkipsAMonth(k) ==
    /\ press[k].at = "last"
    /\ LET u == press[k].user
           start == IF listed[u] = {} THEN press[k].from
                    ELSE <<LastDate(u)[1] + 2, LastDate(u)[2]>>
       IN  /\ Run(start) \subseteq Dates
           /\ press' = [press EXCEPT ![k].at = "dates", ![k].from = start]
    /\ UNCHANGED <<familyVars, category, spent, listed, plans, limits, form>>

(* _start_date: without a month the one the view has looked at the clock for.*)
ReadLast(k) ==
    /\ press[k].at = "last"
    /\ LET u == press[k].user
           start == IF listed[u] = {} THEN press[k].from
                    ELSE <<LastDate(u)[1] + 1, LastDate(u)[2]>>
       IN  /\ Run(start) \subseteq Dates
           /\ press' = [press EXCEPT ![k].at = "dates", ![k].from = start]
    /\ UNCHANGED <<familyVars, category, spent, listed, plans, limits, form>>

(* _ensure_dates; a date made twice is one month on every page.              *)
EnsureDates(k) ==
    /\ press[k].at = "dates"
    /\ listed' = [listed EXCEPT ![press[k].user] = @ \cup Run(press[k].from)]
    /\ press' = [press EXCEPT ![k].at = "read"]
    /\ UNCHANGED <<familyVars, category, spent, plans, limits, form>>

(* _ensure_planning: the plans that are not there.                           *)
ReadPlans(k) ==
    /\ press[k].at = "read"
    /\ LET cs == CategoriesOf(press[k].user, press[k].type) IN
       press' = [press EXCEPT ![k].at = "insert",
                    ![k].missing = (cs \X Run(press[k].from)) \ DOMAIN plans]
    /\ UNCHANGED <<familyVars, category, spent, listed, plans, limits, form>>

(* bulk_create: a plan saved or a category deleted meanwhile fails it whole. *)
WithZeros(K) ==
    [k \in DOMAIN plans \cup K |-> IF k \in K THEN 0 ELSE plans[k]]

InsertPlans(k) ==
    /\ press[k].at = "insert"
    /\ IF /\ press[k].missing \cap DOMAIN plans = {}
          /\ {x[1] : x \in press[k].missing} \subseteq DOMAIN category
       THEN /\ plans' = WithZeros(press[k].missing)
            /\ press' = [press EXCEPT ![k] =
                IF press[k].type = "expense"
                THEN [press[k] EXCEPT !.at = "last", !.type = "income",
                                      !.missing = {}]
                ELSE Idle]
       ELSE press' = [press EXCEPT ![k] = Idle] /\ UNCHANGED plans
    /\ UNCHANGED <<familyVars, category, spent, listed, limits, form>>

PressDies(k) ==
    /\ press[k] # Idle
    /\ press' = [press EXCEPT ![k] = Idle]
    /\ UNCHANGED <<familyVars, category, spent, listed, plans, limits, form>>

-----------------------------------------------------------------------------
(* Plans and limits.  _resolve_budget_scope: a family is everybody in the    *)
(* groups its user owns.                                                     *)
FamilyUsers(u) == {w \in Users : \E g \in Owned(u) : Member(w, g)}
Scopes(u) == {{u}} \cup ({FamilyUsers(u)} \ {{}})

(* SavePlanningAPIView: on the very date it is given, for the category's     *)
(* user, whoever of the scope has asked.                                     *)
SavePlan(c, date, n) ==
    /\ c \in DOMAIN category
    /\ plans' = Put(plans, <<c, date>>, n)
    /\ UNCHANGED <<familyVars, category, spent, listed, limits, form, press>>

(* SaveBudgetLimitAPIView: on the month, for the category's user; one of     *)
(* everything is the asking user's own also in the scope of a family.        *)
SaveLimit(u, c, m, n, threshold) ==
    /\ c # NoCategory => /\ c \in DOMAIN category
                         /\ category[c].type = "expense"
                         /\ category[c].user = u
    /\ limits' = Put(limits, <<u, c, m>>, [limit |-> n, threshold |-> threshold])
    /\ UNCHANGED <<familyVars, category, spent, listed, plans, form, press>>

CategoriesNext ==
    \/ \E c \in Categories, u \in Users, t \in Types,
            p \in Categories \cup {NoCategory} : CreateCategory(c, u, t, p)
    \/ \E f \in FormIds, c \in Categories, p \in Categories \cup {NoCategory} :
            LoadCategory(f, c, p)
    \/ \E f \in FormIds : SaveCategory(f)
    \/ \E c \in Categories : DeleteCategory(c)
MonthsNext ==
    \/ \E u \in Users, day \in {"first", "later"} : Register(u, day)
    \/ \E k \in PressIds, u \in Users : Press(k, u)
    \/ \E k \in PressIds : ReadLast(k) \/ EnsureDates(k) \/ ReadPlans(k)
                            \/ InsertPlans(k) \/ PressDies(k)
PlansNext == \E c \in Categories, m \in Entered, day \in {"first", "later"},
                n \in Amounts : SavePlan(c, <<m, day>>, n)
AmountsNext ==
    \/ \E c \in Categories, m \in Entered, n \in Amounts : Spend(c, m, n)
    \/ \E u \in Users, c \in Categories \cup {NoCategory}, m \in Entered,
            n \in LimitAmounts, h \in Thresholds : SaveLimit(u, c, m, n, h)
BudgetNext == CategoriesNext \/ MonthsNext \/ PlansNext \/ AmountsNext

Next == BudgetNext \/ (FamilyNext /\ UNCHANGED budgetVars)

Spec == FamilyInit /\ BudgetInit /\ [][Next]_vars

-----------------------------------------------------------------------------
(* The pages, for the users in S.                                            *)
MonthsOf(S) == {d[1] : d \in UNION {listed[u] : u \in S}}

(* get_categories, _get_category_ids_by_root.                                *)
Roots(S, t) == UNION {{c \in CategoriesOf(u, t) :
                        category[c].parent = NoCategory} : u \in S}
WithChildren(root) == {root} \cup ChildrenOf(root)

(* _get_fact_map_decimal, _get_plan_map_decimal.                             *)
SpentIn(m) == [c \in Categories |-> spent[c][m]]
Fact(S, t, root, m) ==
    SumFunctionOnSet(SpentIn(m),
        {c \in WithChildren(root) : category[c].user \in S /\ category[c].type = t})
Plan(root, m) ==
    IF <<root, <<m, "first">>>> \in DOMAIN plans
    THEN plans[<<root, <<m, "first">>>>] ELSE 0

(* _build_expense_data, _build_income_data: the rows of a table, one for a   *)
(* root, in one month and summed; the difference is left to the reader.      *)
Sums(S, t, m) ==
    [fact |-> SumFunction([root \in Roots(S, t) |-> Fact(S, t, root, m)]),
     plan |-> SumFunction([root \in Roots(S, t) |-> Plan(root, m)])]

(* build_budget_matrix_context, _resolve_status.                             *)
Status(t, cell) ==
    IF cell.plan = 0 THEN "empty"
    ELSE IF t = "expense" /\ cell.fact > cell.plan THEN "over"
    ELSE IF t = "income" /\ cell.fact >= cell.plan THEN "ok"
    ELSE IF 100 * cell.fact >= 80 * cell.plan THEN "warning"
    ELSE IF t = "expense" THEN "ok" ELSE "under"

(* BudgetView, aggregate_budget_data: the totals of a month.                 *)
BudgetPage(S, m) == [t \in Types |-> Sums(S, t, m)]

(* _build_chart_data: a month without a plan is done, or is nothing.         *)
ChartPercent(sum) ==
    IF sum.plan > 0 THEN (100 * sum.fact) \div sum.plan
    ELSE IF sum.fact = 0 THEN 0 ELSE 100

(* A faulty form: no warning at the threshold itself.                        *)
Progress_AboveOnly(fact, limit, threshold) ==
    IF limit = 0 THEN "empty"
    ELSE IF fact >= limit THEN "over"
    ELSE IF 100 * fact > threshold * limit THEN "warning"
    ELSE "ok"

(* aggregate_budget_limit_overview: the limits of everything of all users    *)
(* together, at the highest of 80 and their thresholds.                      *)
Progress(fact, limit, threshold) ==
    IF limit = 0 THEN "empty"
    ELSE IF fact >= limit THEN "over"
    ELSE IF 100 * fact >= threshold * limit THEN "warning"
    ELSE "ok"

LimitsOfAll(S, m) == {k \in DOMAIN limits :
                        k[1] \in S /\ k[2] = NoCategory /\ k[3] = m}
MonthlyLimit(S, m) ==
    LET ks == LimitsOfAll(S, m) IN
    Progress(Sums(S, "expense", m).fact,
             SumFunction([k \in ks |-> limits[k].limit]),
             Max({80} \cup {limits[k].threshold : k \in ks}))
CategoryLimit(S, root, m) ==
    LET ks == {k \in DOMAIN limits : k[1] \in S /\ k[2] = root /\ k[3] = m}
        fact == Fact(S, "expense", root, m)
    IN  IF ks = {} THEN Progress(fact, 0, 80)
        ELSE LET k == CHOOSE x \in ks : TRUE
             IN  Progress(fact, limits[k].limit, limits[k].threshold)
CategoryLimits(S) ==
    [root \in Roots(S, "expense") |-> CategoryLimit(S, root, Max(MonthsOf(S)))]

(* _get_hot_budget_categories of the dashboard: this month's.                *)
HotCategories(u) ==
    {root \in Roots({u}, "expense") :
        CategoryLimit({u}, root, ThisMonth) \in {"warning", "over"}}

(* _budgets_data of the statistics: the category alone, with its use rounded *)
(* to a tenth of a per cent before it is compared.                           *)
Usage(actual, limit) ==
    IF limit = 0 THEN 0 ELSE (2000 * actual + limit) \div (2 * limit)
Actual(u, c, m) ==
    SumFunctionOnSet(SpentIn(m),
        {d \in CategoriesOf(u, "expense") : c \in {NoCategory, d}})
StatisticsStatus(u, c, m) ==
    LET b == limits[<<u, c, m>>]
        usage == Usage(Actual(u, c, m), b.limit)
    IN  IF usage >= 1000 THEN "over"
        ELSE IF usage >= 10 * b.threshold THEN "warning"
        ELSE IF b.limit = 0 THEN "empty"
        ELSE "ok"

-----------------------------------------------------------------------------
(* What the pages promise.                                                   *)

(* A category two levels or more below a root, or on a circle of parents.    *)
Nested(c) ==
    LET p == category[c].parent IN p # NoCategory /\ category[p].parent # NoCategory

ScopesShown == UNION {Scopes(u) : u \in Users}

(* How far a category is from a root, 0 if it never gets to one.             *)
ParentOf == [c \in DOMAIN category |-> category[c].parent]
Depth(c) ==
    LET up[n \in 0 .. Cardinality(Categories)] ==
            IF n = 0 THEN c
            ELSE LET d == up[n - 1] IN
                 IF d = NoCategory THEN NoCategory ELSE ParentOf[d]
        ends == {n \in DOMAIN up : up[n] = NoCategory}
    IN  IF ends = {} THEN 0 ELSE Min(ends)

(* The budget page and its tables count every transaction of the scope in    *)
(* the months they show exactly once, but those of nested categories, and    *)
(* every plan of a root for the first of a month; the chart does not         *)
(* contradict the statuses.                                                  *)
RowsCounted ==
    \A S \in ScopesShown, t \in Types : \A m \in MonthsOf(S) :
        \A total \in {BudgetPage(S, m)[t]} :
            LET mine == UNION {CategoriesOf(u, t) : u \in S}
                roots == {c \in mine : category[c].parent = NoCategory}
                percent == ChartPercent(total)
                cell == Status(t, total)
            IN  /\ total.fact = SumFunctionOnSet(SpentIn(m),
                                        {c \in mine : ~Nested(c)})
                /\ total.plan = SumFunctionOnSet(plans,
                        DOMAIN plans \cap (roots \X {<<m, "first">>}))
                /\ cell = "over" => percent >= 100
                /\ cell = "warning" => percent \in 80 .. 100

(* The tree of the categories shows each at its place down to its depth, and *)
(* counts below its roots every category but those whose parents go round.   *)
TreeCounts ==
    \A u \in Users, t \in Types :
        LET cs == CategoriesOf(u, t)
            depth == [c \in cs |-> Depth(c)]
            levels == TreeLevels(u, t)
        IN  /\ Cardinality({c \in cs : depth[c] > 0}) =
                    SumFunction([r \in levels[1] |-> 1 + CountDesc(u, t, r)])
            /\ \A n \in 1 .. TreeDepth : levels[n] = {c \in cs : depth[c] = n}

(* The months of a user follow each other without a gap, however often the   *)
(* button is pressed, at once or after a worker died.                        *)
MonthsContiguous ==
    \A u \in Users : \A first, last \in MonthsOf({u}) :
        first .. last \subseteq MonthsOf({u})

(* Where pages may differ about a limit: part of the spending is in other    *)
(* categories than the page or the statistics look at, the threshold is one  *)
(* that the page raises, or the statistics have rounded the use up.          *)
Apart(u, c, m) ==
    LET b == limits[<<u, c, m>>]
        used == Actual(u, c, m)
    IN  \/ b.limit > 0 /\ Usage(used, b.limit) * b.limit > 1000 * used
        \/ c = NoCategory /\ b.threshold < 80
        \/ c = NoCategory /\ \E d \in CategoriesOf(u, "expense") :
                                Nested(d) /\ spent[d][m] > 0
        \/ c # NoCategory /\ \E d \in ChildrenOf(c) : spent[d][m] > 0

(* Everywhere else the budget page (_build_budget_progress), the dashboard   *)
(* and the statistics say the same of it, in the months each of them shows.  *)
LimitsAgree ==
    \A k \in DOMAIN limits :
        LET u == k[1]  c == k[2]  m == k[3]
            said == StatisticsStatus(u, c, m)
        IN  Apart(u, c, m) \/
            /\ c = NoCategory /\ m \in MonthsOf({u}) => MonthlyLimit({u}, m) = said
            /\ c \in Roots({u}, "expense") =>
                /\ MonthsOf({u}) # {} /\ m = Max(MonthsOf({u}))
                        => CategoryLimits({u})[c] = said
                /\ m = ThisMonth => (c \in HotCategories(u)
                                        <=> said \in {"over", "warning"})
=============================================================================
