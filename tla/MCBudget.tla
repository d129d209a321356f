------------------------------ MODULE MCBudget ------------------------------
EXTENDS Budget, TLC

(* Families: one is made from nothing while the budget is untouched, and     *)
(* budgets are kept by a user alone and by the owner of a family of two.     *)
FamilyOfTwo ==
    /\ existing = {Default} /\ joined = Users \X {Default} /\ invited = {}
    /\ torn = {} /\ visit = [v \in Visits |-> Over]
    /\ role = [p \in joined |-> IF p[1] = "ann" THEN "owner" ELSE "viewer"]
MCInit == (FamilyInit \/ FamilyOfTwo) /\ BudgetInit
Untouched == /\ category = Empty /\ plans = Empty /\ limits = Empty
             /\ \A u \in Users : listed[u] = {}
             /\ \A k \in PressIds : press[k] = Idle
Amount(c) == Cardinality({m \in Months : spent[c][m] > 0})
Spent == MapThenSumSet(Amount, Categories)

(* Bounds.  A family changes while there is nothing in a budget yet.         *)
FamilyFirst == Untouched \/ (FamilyOfTwo /\ invited = {})
(* All categories but one are of the expenses of ann.                        *)
FewCategories ==
    Cardinality({c \in DOMAIN category :
                    category[c].user # "ann" \/ category[c].type # "expense"}) <= 1
(* Presses are followed before bob has his months, with one category and a   *)
(* plan beside those of the presses; after that few amounts of one month.    *)
FewRows ==
    IF listed["bob"] = {}
    THEN /\ Spent = 0 /\ limits = Empty
         /\ Cardinality({k \in DOMAIN plans : plans[k] > 0}) <= 1
         /\ \A k \in DOMAIN plans : plans[k] > 0 =>
                plans[k] < Max(Amounts) /\ k[2][2] = "first"
         /\ \A k \in DOMAIN plans : plans[k] = 0 =>
                \E m \in {k[2][1] - 1, k[2][1] + 1} :
                    <<k[1], <<m, k[2][2]>>>> \in DOMAIN plans
         /\ \A f \in FormIds : form[f] = Idle
         /\ \A c \in DOMAIN category :
                category[c].parent = NoCategory /\ category[c].user = "ann"
         /\ Cardinality(DOMAIN category) <= 1
    ELSE /\ \A k \in PressIds : press[k] = Idle
         /\ \A u \in Users : listed[u] = Run(<<ThisMonth, "first">>)
         /\ Cardinality(DOMAIN plans) <= 1 /\ Cardinality(DOMAIN limits) <= 1
         /\ Spent <= IF limits = Empty THEN 1 ELSE 2
         /\ plans # Empty => Spent = 0 /\ limits = Empty
         /\ Spent > 0 \/ plans # Empty \/ limits # Empty =>
                \A f \in FormIds : form[f] = Idle
         /\ \E m \in Entered :
                \A c \in Categories, o \in Entered \ {m} : spent[c][o] = 0
         /\ \A k \in DOMAIN limits, c \in Categories, m \in Months :
                spent[c][m] > 0 => m = k[3]

(* The steps that stay within the bounds: a constraint of the configuration  *)
(* would have TLC check the invariants on all that it cuts off.              *)
Bounds == FamilyFirst /\ FewCategories /\ FewRows
MCNext ==
    \/ CategoriesNext /\ Bounds'
    \/ MonthsNext /\ Bounds'
    \/ PlansNext /\ Bounds'
    \/ AmountsNext /\ Bounds'
    \/ FamilyNext /\ UNCHANGED budgetVars /\ Bounds'
MCSpec == MCInit /\ [][MCNext]_vars

KeysAlike == Permutations(Categories) \cup Permutations(PressIds)
=============================================================================
