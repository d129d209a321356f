---------------------------- MODULE BudgetProofs ----------------------------
(* Proofs about the family groups, for any users, groups and requests, and   *)
(* about the budget, for any categories, months and presses.                 *)
EXTENDS Budget, SumProofs

USE FamilyAssumption

(* What a request under way knows of the pair it is about, in a group that   *)
(* is still there and with nobody else at work on the pair.                  *)
Knows(v) ==
    LET p == visit[v].pair IN
    /\ visit[v].at = "add" => (p \in joined <=> p \in DOMAIN role)
    /\ visit[v].at \in {"role", "read"} => p \in joined
    /\ visit[v].at = "create" => p \in joined /\ p \notin DOMAIN role
    /\ visit[v].at \in {"save", "leave"} => p \in joined /\ p \in DOMAIN role
    /\ visit[v].at = "drop" => p \notin joined

Alone(p) ==
    p[2] \in existing /\ p \notin torn =>
        /\ \A v, w \in Busy(p) : v = w
        /\ \A v \in Busy(p) : Knows(v)
        /\ Busy(p) = {} => (p \in joined <=> p \in DOMAIN role)

(* The group for everybody is never deleted, so that a request about it      *)
(* never outlives it.                                                        *)
DefaultStays == \A v \in Visits : visit[v].at \notin {"new", "over"} /\
                    visit[v].pair[2] = Default => Default \in existing

(* A request that gives a role gives one there is.                           *)
GivesRole ==
    \A v \in Visits :
        /\ visit[v].at = "role" => visit[v].gives \in Role
        /\ visit[v].at = "add" => visit[v].gives \in Role \cup {"invite"}

FamilyInv ==
    FamilyTypeOK /\ DefaultStays /\ GivesRole /\ \A p \in Pairs : Alone(p)

-----------------------------------------------------------------------------
(* The requests and the pairs they are about.                                *)
Statement == {"add", "read", "role", "create", "save", "leave", "drop"}
UnderWay == [at : Statement, pair : Pairs, gives : Role \cup {"invite", "nothing"}]
VisitsOK == visit \in [Visits -> {New, Over} \cup UnderWay]

LEMMA VisitType ==
    ASSUME VisitsOK, NEW v \in Visits
    PROVE  /\ visit[v].at \notin {"new", "over"} =>
                /\ visit[v].at \in Statement
                /\ visit[v] \in UnderWay
                /\ visit[v].pair \in Pairs
                /\ visit[v].gives \in Role \cup {"invite", "nothing"}
                /\ visit[v] = [at |-> visit[v].at, pair |-> visit[v].pair,
                               gives |-> visit[v].gives]
           /\ visit[v].at = "new" <=> visit[v] = New
           /\ visit[v].at = "over" <=> visit[v] = Over
BY DEF VisitsOK, UnderWay, New, Over, Statement

LEMMA EnterBusy ==
    ASSUME VisitsOK, NEW v \in Visits, NEW at \in Statement, NEW p \in Pairs,
           NEW gives \in Role \cup {"invite", "nothing"}, Enter(v, at, p, gives)
    PROVE  /\ VisitsOK'
           /\ \A w \in Visits : w # v => visit'[w] = visit[w]
           /\ visit'[v] = [at |-> at, pair |-> p, gives |-> gives]
           /\ \A q \in Pairs :
                Busy(q)' = IF q = p THEN Busy(q) \cup {v} ELSE Busy(q)
           /\ v \notin Busy(p)
           /\ torn \subseteq torn' /\ torn' \subseteq torn \cup {p}
           /\ Busy(p) # {} => p \in torn'
<1>1. /\ \A w \in Visits : w # v => visit'[w] = visit[w]
      /\ visit'[v] = [at |-> at, pair |-> p, gives |-> gives]
      /\ visit[v].at = "new"
  BY DEF Enter, VisitsOK, New
<1>2. VisitsOK'
  BY DEF Enter, VisitsOK, UnderWay
<1>3. ASSUME NEW q \in Pairs
      PROVE  Busy(q)' = IF q = p THEN Busy(q) \cup {v} ELSE Busy(q)
  <2>1. \A w \in Visits : w \in Busy(q)' <=>
            w \in IF q = p THEN Busy(q) \cup {v} ELSE Busy(q)
    BY <1>1 DEF Busy, Statement
  <2> QED
    BY <2>1 DEF Busy
<1>4. v \notin Busy(p)
  BY <1>1 DEF Busy
<1> QED
  BY <1>1, <1>2, <1>3, <1>4 DEF Enter

LEMMA ContinueBusy ==
    ASSUME VisitsOK, NEW v \in Visits, NEW at \in Statement,
           visit[v].at \notin {"new", "over"}, Continue(v, at)
    PROVE  /\ VisitsOK'
           /\ \A w \in Visits : w # v => visit'[w] = visit[w]
           /\ visit'[v] = [at |-> at, pair |-> visit[v].pair,
                           gives |-> visit[v].gives]
           /\ \A q \in Pairs : Busy(q)' = Busy(q)
<1>1. /\ \A w \in Visits : w # v => visit'[w] = visit[w]
      /\ visit'[v] = [at |-> at, pair |-> visit[v].pair, gives |-> visit[v].gives]
  BY VisitType DEF Continue, VisitsOK
<1>2. VisitsOK'
  BY <1>1, VisitType DEF Continue, VisitsOK, UnderWay
<1>3. ASSUME NEW q \in Pairs PROVE Busy(q)' = Busy(q)
  <2>1. \A w \in Visits : w \in Busy(q)' <=> w \in Busy(q)
    BY <1>1 DEF Busy, Statement
  <2> QED
    BY <2>1 DEF Busy
<1> QED
  BY <1>1, <1>2, <1>3

LEMMA FinishBusy ==
    ASSUME VisitsOK, NEW v \in Visits, Finish(v)
    PROVE  /\ VisitsOK'
           /\ \A w \in Visits : w # v => visit'[w] = visit[w]
           /\ visit'[v] = Over
           /\ \A q \in Pairs : Busy(q)' = Busy(q) \ {v}
<1>1. /\ \A w \in Visits : w # v => visit'[w] = visit[w]
      /\ visit'[v] = Over
  BY DEF Finish, VisitsOK
<1>2. VisitsOK'
  BY DEF Finish, VisitsOK
<1>3. ASSUME NEW q \in Pairs PROVE Busy(q)' = Busy(q) \ {v}
  <2>1. \A w \in Visits : w \in Busy(q)' <=> w \in Busy(q) \ {v}
    BY <1>1 DEF Busy, Over
  <2> QED
    BY <2>1 DEF Busy
<1> QED
  BY <1>1, <1>2, <1>3

-----------------------------------------------------------------------------
(* Steps.  What a step leaves alone stays known.                             *)
LEMMA Elsewhere ==
    ASSUME NEW v \in Visits, NEW p \in Pairs, Alone(p),
           p[2] \in existing' => p[2] \in existing,
           p \notin torn' => p \notin torn,
           \A w \in Visits : w # v => visit'[w] = visit[w],
           Busy(p)' = Busy(p), v \notin Busy(p),
           p \in joined' <=> p \in joined,
           p \in DOMAIN role' <=> p \in DOMAIN role
    PROVE  Alone(p)'
<1>1. ASSUME NEW w \in Busy(p), Knows(w) PROVE Knows(w)'
  <2>1. visit'[w] = visit[w] /\ visit[w].pair = p
    BY <1>1 DEF Busy
  <2> QED
    BY <1>1, <2>1 DEF Knows
<1> QED
  BY <1>1 DEF Alone

(* A request enters its handler about a pair the tables agree on.            *)
LEMMA EnterStep ==
    ASSUME FamilyInv, NEW v \in Visits, NEW p \in Pairs, NEW at \in Statement,
           NEW gives \in Role \cup {"invite", "nothing"}, Enter(v, at, p, gives),
           UNCHANGED <<joined, role>>,
           existing \subseteq existing', p[2] \in existing',
           \A q \in Pairs : q[2] \in existing' \ existing => Busy(q) = {},
           at = "role" => gives \in Role,
           at = "add" => gives \in Role \cup {"invite"},
           \/ at = "add"
           \/ at = "role" /\ p \in joined
           \/ at = "leave" /\ p \in joined
    PROVE  DefaultStays' /\ GivesRole' /\ \A q \in Pairs : Alone(q)'
<1>0. VisitsOK /\ FamilyTypeOK
  BY DEF FamilyInv, FamilyTypeOK, VisitsOK, UnderWay, Statement
<1>1. /\ \A w \in Visits : w # v => visit'[w] = visit[w]
      /\ visit'[v] = [at |-> at, pair |-> p, gives |-> gives]
      /\ \A q \in Pairs : Busy(q)' = IF q = p THEN Busy(q) \cup {v} ELSE Busy(q)
      /\ v \notin Busy(p)
      /\ torn \subseteq torn'
      /\ Busy(p) # {} => p \in torn'
  BY <1>0, EnterBusy
<1>2. DefaultStays'
  BY <1>1 DEF FamilyInv, DefaultStays
<1>3. GivesRole'
  BY <1>1 DEF FamilyInv, GivesRole
<1>4. Alone(p)'
  <2>1. SUFFICES ASSUME p \notin torn'
                 PROVE  (\A w, x \in Busy(p)' : w = x) /\
                        (\A w \in Busy(p)' : Knows(w)') /\ Busy(p)' # {}
    BY DEF Alone
  <2>2. Busy(p) = {} /\ Busy(p)' = {v} /\ p \notin torn
    BY <1>1, <2>1
  <2>3. p \in joined <=> p \in DOMAIN role
    BY <1>0, <2>2 DEF FamilyInv, Alone, FamilyTypeOK, Pairs
  <2>4. Knows(v)'
    BY <1>1, <2>3 DEF Knows
  <2> QED
    BY <2>2, <2>4
<1>5. ASSUME NEW q \in Pairs, q # p PROVE Alone(q)'
  <2>1. Busy(q)' = Busy(q)
    BY <1>1, <1>5
  <2>2. v \notin Busy(q)
    BY DEF Enter, New, Busy
  <2>3. CASE q[2] \in existing' \ existing
    <3>1. q \notin joined /\ q \notin DOMAIN role
      BY <1>0, <2>3 DEF FamilyTypeOK
    <3> QED
      BY <2>1, <2>3, <3>1 DEF Alone
  <2>4. CASE q[2] \in existing' => q[2] \in existing
    BY <1>1, <1>5, <2>1, <2>2, <2>4, Elsewhere DEF FamilyInv
  <2> QED
    BY <2>3, <2>4
<1> QED
  BY <1>2, <1>3, <1>4, <1>5

(* A request goes on with the pair it is about; the step changes the tables  *)
(* at that pair only.                                                        *)
AtOnly(p) ==
    /\ \A q \in Pairs : q # p => (q \in joined' <=> q \in joined)
    /\ \A q \in Pairs : q # p => (q \in DOMAIN role' <=> q \in DOMAIN role)

LEMMA ContinueStep ==
    ASSUME FamilyInv, NEW v \in Visits, NEW at \in Statement,
           visit[v].at \notin {"new", "over"}, Continue(v, at),
           UNCHANGED <<existing, torn>>, AtOnly(visit[v].pair),
           at # "add", at = "role" => visit[v].gives \in Role,
           visit[v].pair[2] \in existing /\ Knows(v) => Knows(v)'
    PROVE  DefaultStays' /\ GivesRole' /\ \A q \in Pairs : Alone(q)'
<1>0. VisitsOK
  BY DEF FamilyInv, FamilyTypeOK, VisitsOK, UnderWay, Statement
<1>1. /\ \A w \in Visits : w # v => visit'[w] = visit[w]
      /\ visit'[v] = [at |-> at, pair |-> visit[v].pair, gives |-> visit[v].gives]
      /\ \A q \in Pairs : Busy(q)' = Busy(q)
      /\ visit[v].pair \in Pairs
  BY <1>0, ContinueBusy, VisitType
<1>2. DefaultStays'
  BY <1>1 DEF FamilyInv, DefaultStays
<1>3. GivesRole'
  BY <1>1 DEF FamilyInv, GivesRole
<1>4. ASSUME NEW q \in Pairs PROVE Alone(q)'
  <2>1. CASE q = visit[v].pair
    <3>1. v \in Busy(q)
      BY <2>1 DEF Busy
    <3>2. SUFFICES ASSUME q[2] \in existing, q \notin torn PROVE Alone(q)'
      BY DEF Alone
    <3>3. Busy(q) = {v} /\ Knows(v)
      BY <3>1, <3>2 DEF FamilyInv, Alone
    <3> QED
      BY <1>1, <2>1, <3>2, <3>3 DEF Alone
  <2>2. CASE q # visit[v].pair
    <3>1. v \notin Busy(q)
      BY <2>2 DEF Busy
    <3> QED
      BY <1>1, <2>2, <3>1, Elsewhere DEF FamilyInv, AtOnly
  <2> QED
    BY <2>1, <2>2
<1> QED
  BY <1>2, <1>3, <1>4

LEMMA FinishStep ==
    ASSUME FamilyInv, NEW v \in Visits,
           visit[v].at \notin {"new", "over"}, Finish(v),
           UNCHANGED existing, AtOnly(visit[v].pair),
           torn \subseteq torn',
           visit[v].pair[2] \in existing /\ visit[v].pair \notin torn' /\ Knows(v)
                => (visit[v].pair \in joined' <=> visit[v].pair \in DOMAIN role')
    PROVE  DefaultStays' /\ GivesRole' /\ \A q \in Pairs : Alone(q)'
<1>0. VisitsOK
  BY DEF FamilyInv, FamilyTypeOK, VisitsOK, UnderWay, Statement
<1>1. /\ \A w \in Visits : w # v => visit'[w] = visit[w]
      /\ visit'[v] = Over
      /\ \A q \in Pairs : Busy(q)' = Busy(q) \ {v}
      /\ visit[v].pair \in Pairs
  BY <1>0, FinishBusy, VisitType
<1>2. DefaultStays'
  BY <1>1 DEF FamilyInv, DefaultStays, Over
<1>3. GivesRole'
  BY <1>1 DEF FamilyInv, GivesRole, Over
<1>4. ASSUME NEW q \in Pairs PROVE Alone(q)'
  <2>1. CASE q = visit[v].pair
    <3>1. v \in Busy(q)
      BY <2>1 DEF Busy
    <3>2. SUFFICES ASSUME q[2] \in existing, q \notin torn' PROVE Alone(q)'
      BY DEF Alone
    <3>3. Busy(q) = {v} /\ Knows(v)
      BY <3>1, <3>2 DEF FamilyInv, Alone
    <3>4. Busy(q)' = {}
      BY <1>1, <3>3
    <3> QED
      BY <2>1, <3>2, <3>3, <3>4 DEF Alone
  <2>2. CASE q # visit[v].pair
    <3>1. v \notin Busy(q)
      BY <2>2 DEF Busy
    <3>2. Busy(q)' = Busy(q)
      BY <1>1, <3>1
    <3> QED
      BY <1>1, <2>2, <3>1, <3>2, Elsewhere DEF FamilyInv, AtOnly
  <2> QED
    BY <2>1, <2>2
<1> QED
  BY <1>2, <1>3, <1>4

(* The tables after a row is put in or taken out.                            *)
LEMMA PutRow ==
    ASSUME NEW p \in Pairs, NEW r \in Role
    PROVE  /\ DOMAIN Put(role, p, r) = DOMAIN role \cup {p}
           /\ \A q \in DOMAIN Put(role, p, r) :
                Put(role, p, r)[q] = IF q = p THEN r ELSE role[q]
BY DEF Put

LEMMA Restricted ==
    ASSUME NEW S
    PROVE  DOMAIN Restrict(role, S) = S /\ \A q \in S : Restrict(role, S)[q] = role[q]
BY DEF Restrict

-----------------------------------------------------------------------------
(* Type correctness, one lemma for the handlers and one for the statements.  *)
TablesOK ==
    /\ existing \subseteq Groups
    /\ joined \subseteq Users \X existing
    /\ DOMAIN role \subseteq Users \X existing
    /\ \A p \in DOMAIN role : role[p] \in Role
    /\ invited \subseteq existing
    /\ torn \subseteq Pairs

LEMMA TypeParts == FamilyTypeOK <=> TablesOK /\ VisitsOK
BY DEF FamilyTypeOK, TablesOK, VisitsOK, UnderWay, Statement

LEMMA Together ==
    ASSUME TablesOK', VisitsOK', DefaultStays', GivesRole',
           \A p \in Pairs : Alone(p)'
    PROVE  FamilyInv'
<1>1. FamilyTypeOK'
  BY DEF FamilyTypeOK, TablesOK, VisitsOK, UnderWay, Statement
<1> QED
  BY <1>1 DEF FamilyInv, Pairs

LEMMA PairParts ==
    ASSUME TablesOK
    PROVE  /\ \A u \in Users, g \in Groups : <<u, g>> \in Pairs
           /\ \A u \in Users, g \in Groups : <<u, g>>[1] = u /\ <<u, g>>[2] = g
           /\ \A p \in joined \cup DOMAIN role :
                p \in Pairs /\ p[2] \in existing /\ p = <<p[1], p[2]>>
           /\ \A u, g : Owns(u, g) => g \in existing
           /\ \A u : Owned(u) \subseteq existing
BY DEF TablesOK, Pairs, Owns, Owned

LEMMA EnterTables ==
    ASSUME TablesOK, NEW v \in Visits, NEW p \in Pairs, NEW at \in Statement,
           NEW gives \in Role \cup {"invite", "nothing"}, Enter(v, at, p, gives),
           UNCHANGED <<joined, role, invited>>,
           existing \subseteq existing', existing' \subseteq Groups
    PROVE  TablesOK'
BY DEF TablesOK, Enter, Pairs

LEMMA PutType ==
    ASSUME TablesOK, NEW p \in Pairs, p[2] \in existing, NEW r \in Role,
           UNCHANGED <<existing, joined, invited, torn>>,
           role' = Put(role, p, r)
    PROVE  TablesOK'
<1>1. p \in Users \X existing
  BY DEF TablesOK, Pairs
<1>2. DOMAIN role' = DOMAIN role \cup {p}
  BY PutRow
<1>3. ASSUME NEW q \in DOMAIN role' PROVE role'[q] \in Role
  <2>1. role'[q] = IF q = p THEN r ELSE role[q]
    BY <1>3, PutRow
  <2> QED
    BY <1>2, <2>1 DEF TablesOK
<1> QED
  BY <1>1, <1>2, <1>3 DEF TablesOK

(* The statements keep what the requests know.                               *)
LEMMA JoinStep ==
    ASSUME FamilyInv, NEW v \in Visits, Join(v) PROVE FamilyInv'
<1> DEFINE p == visit[v].pair
           at == IF visit[v].gives = "invite" THEN "read" ELSE "role"
<1>0. /\ TablesOK /\ VisitsOK /\ visit[v].at = "add" /\ p \in Pairs
      /\ visit[v].gives \in Role \cup {"invite"}
      /\ UNCHANGED <<existing, role, invited, torn>>
  BY TypeParts, VisitType DEF FamilyInv, Join, GivesRole
<1>1. CASE Alive(v)
  <2>1. joined' = joined \cup {p} /\ Continue(v, at)
    BY <1>1 DEF Join
  <2>2. VisitsOK'
    BY <1>0, <2>1, ContinueBusy DEF Statement
  <2>3. TablesOK'
    BY <1>0, <1>1, <2>1 DEF TablesOK, Pairs, Alive
  <2>4. AtOnly(p)
    BY <1>0, <2>1 DEF AtOnly
  <2>5. at = "role" => visit[v].gives \in Role
    BY <1>0
  <2>6. visit'[v] = [at |-> at, pair |-> p, gives |-> visit[v].gives]
    BY <1>0, <2>1, ContinueBusy DEF Statement
  <2>7. Knows(v)'
    BY <2>1, <2>6 DEF Knows
  <2>8. DefaultStays' /\ GivesRole' /\ \A q \in Pairs : Alone(q)'
    BY <1>0, <2>1, <2>4, <2>5, <2>7, ContinueStep DEF Statement
  <2> QED
    BY <2>2, <2>3, <2>8, Together
<1>2. CASE ~Alive(v)
  <2>1. Finish(v) /\ joined' = joined
    BY <1>2 DEF Join
  <2>2. DefaultStays' /\ GivesRole' /\ \A q \in Pairs : Alone(q)'
    BY <1>0, <1>2, <2>1, FinishStep DEF AtOnly, Alive
  <2>3. TablesOK' /\ VisitsOK'
    BY <1>0, <2>1, FinishBusy DEF TablesOK
  <2> QED
    BY <2>2, <2>3, Together
<1> QED
  BY <1>1, <1>2

LEMMA GiveRoleStep ==
    ASSUME FamilyInv, NEW v \in Visits, GiveRole(v) PROVE FamilyInv'
<1> DEFINE p == visit[v].pair
<1>0. /\ TablesOK /\ VisitsOK /\ visit[v].at = "role" /\ p \in Pairs
      /\ visit[v].gives \in Role /\ Finish(v)
      /\ UNCHANGED <<existing, joined, invited, torn>>
  BY TypeParts, VisitType DEF FamilyInv, GiveRole, GivesRole
<1>1. CASE Alive(v)
  <2>1. role' = Put(role, p, visit[v].gives)
    BY <1>1 DEF GiveRole
  <2>2. DOMAIN role' = DOMAIN role \cup {p}
    BY <1>0, <2>1, PutRow
  <2>3. TablesOK' /\ VisitsOK'
    BY <1>0, <1>1, <2>1, PutType, FinishBusy DEF Alive
  <2>4. Knows(v) => p \in joined'
    BY <1>0 DEF Knows
  <2>5. AtOnly(p)
    BY <1>0, <2>2 DEF AtOnly
  <2>6. DefaultStays' /\ GivesRole' /\ \A q \in Pairs : Alone(q)'
    BY <1>0, <2>2, <2>4, <2>5, FinishStep
  <2> QED
    BY <2>3, <2>6, Together
<1>2. CASE ~Alive(v)
  <2>1. role' = role
    BY <1>2 DEF GiveRole
  <2>2. DefaultStays' /\ GivesRole' /\ \A q \in Pairs : Alone(q)'
    BY <1>0, <1>2, <2>1, FinishStep DEF AtOnly, Alive
  <2>3. TablesOK' /\ VisitsOK'
    BY <1>0, <2>1, FinishBusy DEF TablesOK
  <2> QED
    BY <2>2, <2>3, Together
<1> QED
  BY <1>1, <1>2

LEMMA ReadStep ==
    ASSUME FamilyInv, NEW v \in Visits, ReadMembership(v) PROVE FamilyInv'
<1> DEFINE p == visit[v].pair
<1>0. /\ TablesOK /\ VisitsOK /\ visit[v].at = "read" /\ p \in Pairs
      /\ UNCHANGED <<existing, joined, role, invited, torn>>
  BY TypeParts, VisitType DEF FamilyInv, ReadMembership
<1>1. TablesOK'
  BY <1>0 DEF TablesOK
<1>2. AtOnly(p)
  BY <1>0 DEF AtOnly
<1>3. CASE p \in DOMAIN role /\ role[p] = "owner"
  <2>1. Finish(v)
    BY <1>3 DEF ReadMembership
  <2>2. Knows(v) => (p \in joined' <=> p \in DOMAIN role')
    BY <1>0, <1>3 DEF Knows
  <2>3. DefaultStays' /\ GivesRole' /\ \A q \in Pairs : Alone(q)'
    BY <1>0, <1>2, <2>1, <2>2, FinishStep
  <2> QED
    BY <1>0, <1>1, <2>1, <2>3, FinishBusy, Together
<1>4. CASE ~(p \in DOMAIN role /\ role[p] = "owner")
  <2>1. PICK at \in {"create", "save"} :
            /\ Continue(v, at)
            /\ at = "create" <=> p \notin DOMAIN role
    <3>1. CASE p \in DOMAIN role
      BY <1>4, <3>1 DEF ReadMembership
    <3>2. CASE p \notin DOMAIN role
      BY <3>2 DEF ReadMembership
    <3> QED
      BY <3>1, <3>2
  <2>2. visit'[v] = [at |-> at, pair |-> p, gives |-> visit[v].gives]
    BY <1>0, <2>1, ContinueBusy DEF Statement
  <2>3. Knows(v) => Knows(v)'
    BY <1>0, <2>1, <2>2 DEF Knows
  <2>4. DefaultStays' /\ GivesRole' /\ \A q \in Pairs : Alone(q)'
    BY <1>0, <1>2, <2>1, <2>3, ContinueStep DEF Statement
  <2> QED
    BY <1>0, <1>1, <2>1, <2>4, ContinueBusy, Together DEF Statement
<1> QED
  BY <1>3, <1>4

LEMMA WriteStep ==
    ASSUME FamilyInv, NEW v \in Visits, WriteMembership(v) PROVE FamilyInv'
<1> DEFINE p == visit[v].pair
<1>0. /\ TablesOK /\ VisitsOK /\ visit[v].at \in {"create", "save"}
      /\ p \in Pairs /\ Finish(v)
      /\ UNCHANGED <<existing, joined, invited, torn>>
  BY TypeParts, VisitType DEF FamilyInv, WriteMembership
<1>1. CASE Alive(v) /\ (p \in DOMAIN role <=> visit[v].at = "save")
  <2>1. role' = Put(role, p, "viewer")
    BY <1>1 DEF WriteMembership
  <2>2. DOMAIN role' = DOMAIN role \cup {p}
    BY <1>0, <2>1, PutRow DEF Role
  <2>3. TablesOK'
    BY <1>0, <1>1, <2>1, PutType DEF Alive, Role
  <2>4. Knows(v) => p \in joined'
    BY <1>0 DEF Knows
  <2>5. AtOnly(p)
    BY <1>0, <2>2 DEF AtOnly
  <2>6. DefaultStays' /\ GivesRole' /\ \A q \in Pairs : Alone(q)'
    BY <1>0, <2>2, <2>4, <2>5, FinishStep
  <2> QED
    BY <1>0, <2>3, <2>6, FinishBusy, Together
<1>2. CASE ~(Alive(v) /\ (p \in DOMAIN role <=> visit[v].at = "save"))
  <2>1. role' = role
    BY <1>2 DEF WriteMembership
  <2>2. TablesOK' /\ AtOnly(p)
    BY <1>0, <2>1 DEF TablesOK, AtOnly
  <2>3. p[2] \in existing => ~Knows(v)
    BY <1>0, <1>2 DEF Knows, Alive
  <2>4. DefaultStays' /\ GivesRole' /\ \A q \in Pairs : Alone(q)'
    BY <1>0, <2>2, <2>3, FinishStep
  <2> QED
    BY <1>0, <2>2, <2>4, FinishBusy, Together
<1> QED
  BY <1>1, <1>2

LEMMA LeaveStep ==
    ASSUME FamilyInv, NEW v \in Visits, Leave(v) PROVE FamilyInv'
<1> DEFINE p == visit[v].pair
<1>0. /\ TablesOK /\ VisitsOK /\ visit[v].at = "leave" /\ p \in Pairs
      /\ joined' = joined \ {p} /\ Continue(v, "drop")
      /\ UNCHANGED <<existing, role, invited, torn>>
  BY TypeParts, VisitType DEF FamilyInv, Leave
<1>1. TablesOK' /\ AtOnly(p)
  BY <1>0 DEF TablesOK, AtOnly
<1>2. visit'[v] = [at |-> "drop", pair |-> p, gives |-> visit[v].gives]
  BY <1>0, ContinueBusy DEF Statement
<1>3. Knows(v)'
  BY <1>0, <1>2 DEF Knows
<1>4. DefaultStays' /\ GivesRole' /\ \A q \in Pairs : Alone(q)'
  BY <1>0, <1>1, <1>3, ContinueStep DEF Statement
<1> QED
  BY <1>0, <1>1, <1>4, ContinueBusy, Together DEF Statement

LEMMA DropStep ==
    ASSUME FamilyInv, NEW v \in Visits, Drop(v) PROVE FamilyInv'
<1> DEFINE p == visit[v].pair
<1>0. /\ TablesOK /\ VisitsOK /\ visit[v].at = "drop" /\ p \in Pairs
      /\ role' = Restrict(role, DOMAIN role \ {p}) /\ Finish(v)
      /\ UNCHANGED <<existing, joined, invited, torn>>
  BY TypeParts, VisitType DEF FamilyInv, Drop
<1>1. /\ DOMAIN role' = DOMAIN role \ {p}
      /\ \A q \in DOMAIN role \ {p} : role'[q] = role[q]
  BY <1>0, Restricted
<1>2. TablesOK' /\ AtOnly(p)
  BY <1>0, <1>1 DEF TablesOK, AtOnly
<1>3. Knows(v) => p \notin joined'
  BY <1>0 DEF Knows
<1>4. DefaultStays' /\ GivesRole' /\ \A q \in Pairs : Alone(q)'
  BY <1>0, <1>1, <1>2, <1>3, FinishStep
<1> QED
  BY <1>0, <1>2, <1>4, FinishBusy, Together

LEMMA DieStep ==
    ASSUME FamilyInv, NEW v \in Visits, Die(v) PROVE FamilyInv'
<1> DEFINE p == visit[v].pair
<1>0. /\ TablesOK /\ VisitsOK /\ visit[v].at \notin {"new", "over"}
      /\ p \in Pairs /\ Finish(v) /\ torn' = torn \cup {p}
      /\ UNCHANGED <<existing, joined, role, invited>>
  BY TypeParts, VisitType DEF FamilyInv, Die
<1>1. TablesOK' /\ AtOnly(p)
  BY <1>0 DEF TablesOK, AtOnly
<1>2. DefaultStays' /\ GivesRole' /\ \A q \in Pairs : Alone(q)'
  BY <1>0, <1>1, FinishStep
<1> QED
  BY <1>0, <1>1, <1>2, FinishBusy, Together

-----------------------------------------------------------------------------
(* The handlers enter with what they have checked.                           *)
LEMMA EnsureStep ==
    ASSUME FamilyInv, NEW v \in Visits, NEW u \in Users, EnsureDefault(v, u)
    PROVE  FamilyInv'
<1> DEFINE p == <<u, Default>>
           at == IF p \in joined THEN "role" ELSE "add"
<1>0. /\ TablesOK /\ VisitsOK /\ p \in Pairs /\ p[2] = Default
      /\ Enter(v, at, p, "owner") /\ existing' = existing \cup {Default}
      /\ UNCHANGED <<joined, role, invited>>
  BY TypeParts DEF FamilyInv, EnsureDefault, Pairs
<1>1. at \in Statement /\ "owner" \in Role
  BY DEF Statement, Role
<1>2. TablesOK'
  BY <1>0, <1>1, EnterTables DEF TablesOK
<1>3. \A q \in Pairs : q[2] \in existing' \ existing => Busy(q) = {}
  BY <1>0 DEF FamilyInv, DefaultStays, Busy
<1>4. DefaultStays' /\ GivesRole' /\ \A q \in Pairs : Alone(q)'
  BY <1>0, <1>1, <1>3, EnterStep
<1> QED
  BY <1>0, <1>1, <1>2, <1>4, EnterBusy, Together

LEMMA CreateGroupStep ==
    ASSUME FamilyInv, NEW v \in Visits, NEW u \in Users, NEW g \in Groups,
           CreateGroup(v, u, g)
    PROVE  FamilyInv'
<1> DEFINE p == <<u, g>>
<1>0. /\ TablesOK /\ VisitsOK /\ p \in Pairs /\ p[2] = g
      /\ Enter(v, "add", p, "owner") /\ existing' = existing \cup {g}
      /\ UNCHANGED <<joined, role, invited>>
  BY TypeParts DEF FamilyInv, CreateGroup, Pairs
<1>1. "add" \in Statement /\ "owner" \in Role
  BY DEF Statement, Role
<1>2. TablesOK'
  BY <1>0, <1>1, EnterTables DEF TablesOK
<1>3. ASSUME NEW q \in Pairs, q[2] \in existing' \ existing PROVE Busy(q) = {}
  <2>1. q[2] = g
    BY <1>0, <1>3
  <2>2. \A w \in Visits : visit[w].at \notin {"new", "over"} => visit[w].pair[2] # g
    BY <1>0, VisitType DEF CreateGroup
  <2> QED
    BY <2>1, <2>2 DEF Busy
<1>4. DefaultStays' /\ GivesRole' /\ \A q \in Pairs : Alone(q)'
  BY <1>0, <1>1, <1>3, EnterStep
<1> QED
  BY <1>0, <1>1, <1>2, <1>4, EnterBusy, Together

(* AddUser, RemoveUser and AcceptInvite are about a group that is there.     *)
LEMMA EnterGroupStep ==
    ASSUME FamilyInv, NEW v \in Visits, NEW w \in Users, NEW g \in existing,
           NEW gives \in Role \cup {"invite", "nothing"},
           NEW at \in {"add", "leave"}, Enter(v, at, <<w, g>>, gives),
           at = "add" => gives \in Role \cup {"invite"},
           at = "leave" => <<w, g>> \in joined,
           UNCHANGED <<existing, joined, role, invited>>
    PROVE  FamilyInv'
<1> DEFINE p == <<w, g>>
<1>0. TablesOK /\ VisitsOK /\ p \in Pairs /\ p[2] = g /\ at \in Statement
  BY TypeParts DEF FamilyInv, TablesOK, Pairs, Statement
<1>1. TablesOK'
  BY <1>0, EnterTables DEF TablesOK
<1>2. DefaultStays' /\ GivesRole' /\ \A q \in Pairs : Alone(q)'
  BY <1>0, EnterStep
<1> QED
  BY <1>0, <1>1, <1>2, EnterBusy, Together

(* A deleted group takes both its tables' rows with it.                      *)
LEMMA DeleteGroupStep ==
    ASSUME FamilyInv, NEW u \in Users, NEW g \in Groups, DeleteGroup(u, g)
    PROVE  FamilyInv'
<1>0. /\ TablesOK /\ VisitsOK /\ VisitsOK' /\ visit' = visit
      /\ existing' = existing \ {g} /\ g # Default
      /\ joined' = {p \in joined : p[2] # g}
      /\ role' = Restrict(role, {p \in DOMAIN role : p[2] # g})
      /\ invited' = invited \ {g}
      /\ torn' = {p \in torn : p[2] # g}
  BY TypeParts DEF FamilyInv, DeleteGroup, VisitsOK
<1>1. /\ DOMAIN role' = {p \in DOMAIN role : p[2] # g}
      /\ \A p \in DOMAIN role' : role'[p] = role[p]
  BY <1>0, Restricted
<1>2. TablesOK'
  <2>1. joined' \subseteq Users \X existing' /\ DOMAIN role' \subseteq Users \X existing'
    BY <1>0, <1>1 DEF TablesOK
  <2> QED
    BY <1>0, <1>1, <2>1 DEF TablesOK
<1>3. DefaultStays' /\ GivesRole'
  BY <1>0 DEF FamilyInv, DefaultStays, GivesRole
<1>4. ASSUME NEW p \in Pairs PROVE Alone(p)'
  <2>1. CASE p[2] = g
    BY <1>0, <2>1 DEF Alone
  <2>2. CASE p[2] # g
    <3>1. /\ p[2] \in existing' <=> p[2] \in existing
          /\ p \in torn' <=> p \in torn
          /\ p \in joined' <=> p \in joined
          /\ p \in DOMAIN role' <=> p \in DOMAIN role
      BY <1>0, <1>1, <2>2
    <3>2. Busy(p)' = Busy(p)
      BY <1>0 DEF Busy
    <3>3. \A w \in Busy(p) : Knows(w)' <=> Knows(w)
      <4> SUFFICES ASSUME NEW w \in Busy(p) PROVE Knows(w)' <=> Knows(w)
        OBVIOUS
      <4>1. visit[w].pair = p /\ visit'[w] = visit[w]
        BY <1>0 DEF Busy
      <4> QED
        BY <3>1, <4>1 DEF Knows
    <3> QED
      BY <3>1, <3>2, <3>3 DEF FamilyInv, Alone
  <2> QED
    BY <2>1, <2>2
<1> QED
  BY <1>0, <1>2, <1>3, <1>4, Together

-----------------------------------------------------------------------------
(* The inductive invariant, and what it is for.                              *)
LEMMA FamilyStep == FamilyInv /\ [FamilyNext]_familyVars => FamilyInv'
<1> SUFFICES ASSUME FamilyInv, [FamilyNext]_familyVars PROVE FamilyInv'
  OBVIOUS
<1>0. TablesOK /\ \A u, g : Owns(u, g) => g \in existing
  BY TypeParts, PairParts DEF FamilyInv
<1>1. ASSUME NEW u \in Users, ShowFamily(u) PROVE FamilyInv'
  <2>1. invited' \subseteq existing' /\ UNCHANGED <<existing, joined, role, visit, torn>>
    BY <1>0, <1>1, PairParts DEF ShowFamily, TablesOK
  <2>2. TablesOK' /\ VisitsOK'
    BY <1>0, <2>1, TypeParts DEF TablesOK, VisitsOK, FamilyInv
  <2>3. DefaultStays' /\ GivesRole' /\ \A p \in Pairs : Alone(p)'
    BY <2>1 DEF FamilyInv, DefaultStays, GivesRole, Alone, Busy, Knows
  <2> QED
    BY <2>2, <2>3, Together
<1>2. ASSUME NEW v \in Visits, NEW u \in Users, NEW w \in Users, NEW g \in Groups,
             AddUser(v, u, w, g) \/ RemoveUser(v, u, w, g) \/ AcceptInvite(v, w, g)
      PROVE  FamilyInv'
  <2>1. g \in existing
    BY <1>0, <1>2 DEF AddUser, RemoveUser, AcceptInvite, TablesOK
  <2>2. CASE AddUser(v, u, w, g)
    BY <2>1, <2>2, EnterGroupStep DEF AddUser, Role
  <2>3. CASE RemoveUser(v, u, w, g)
    BY <2>1, <2>3, EnterGroupStep DEF RemoveUser
  <2>4. CASE AcceptInvite(v, w, g)
    BY <2>1, <2>4, EnterGroupStep DEF AcceptInvite
  <2> QED
    BY <1>2, <2>2, <2>3, <2>4
<1>3. CASE UNCHANGED familyVars
  <2>1. UNCHANGED <<existing, joined, role, invited, visit, torn>>
    BY <1>3 DEF familyVars
  <2> QED
    BY <2>1 DEF FamilyInv, FamilyTypeOK, DefaultStays, GivesRole, Alone, Busy,
                Knows, Pairs, Over, New, Role
<1>4. CASE FamilyNext
  BY <1>1, <1>2, <1>4, DeleteGroupStep, EnsureStep, CreateGroupStep, JoinStep,
     GiveRoleStep, ReadStep, WriteStep, LeaveStep, DropStep, DieStep
     DEF FamilyNext
<1> QED
  BY <1>3, <1>4

LEMMA FamilyStart == FamilyInit => FamilyInv
<1> SUFFICES ASSUME FamilyInit PROVE FamilyInv
  OBVIOUS
<1>1. TablesOK /\ VisitsOK
  BY DEF FamilyInit, TablesOK, VisitsOK
<1>2. DefaultStays /\ GivesRole /\ \A p \in Pairs : Alone(p)
  BY DEF FamilyInit, DefaultStays, GivesRole, Alone, New
<1> QED
  BY <1>1, <1>2, TypeParts DEF FamilyInv

LEMMA InvAgrees == FamilyInv => MembershipAgrees
<1> SUFFICES ASSUME FamilyInv, NEW p \in Pairs, Busy(p) = {}, p \notin torn
             PROVE  p \in joined <=> p \in DOMAIN role
  BY DEF MembershipAgrees
<1>1. CASE p[2] \in existing
  BY <1>1 DEF FamilyInv, Alone
<1>2. CASE p[2] \notin existing
  BY <1>2, TypeParts, PairParts DEF FamilyInv
<1> QED
  BY <1>1, <1>2

(* However requests about the families cross and wherever their workers die, *)
(* the tables are well formed and each request knows what it has read.       *)
THEOREM FamilyInvariant == FamilySpec => []FamilyInv
BY FamilyStart, FamilyStep, PTL DEF FamilySpec

(* The auth groups and the memberships agree on who is in a group, but where *)
(* a request is under way, a worker died between two statements or two       *)
(* requests crossed (users/services/groups.py).                              *)
THEOREM TablesAgree == FamilySpec => []MembershipAgrees
BY FamilyInvariant, InvAgrees, PTL

-----------------------------------------------------------------------------
USE BudgetAssumption

-----------------------------------------------------------------------------
(* The families below the budget go on as they do alone.                     *)
LEMMA BudgetStepKeepsFamilies == BudgetNext => UNCHANGED familyVars
<1> SUFFICES ASSUME BudgetNext PROVE UNCHANGED familyVars
  OBVIOUS
<1>1. CASE CategoriesNext
  BY <1>1 DEF CategoriesNext, CreateCategory, LoadCategory, SaveCategory,
              DeleteCategory
<1>2. CASE MonthsNext
  BY <1>2 DEF MonthsNext, Register, Press, ReadLast, EnsureDates, ReadPlans,
              InsertPlans, PressDies
<1>3. CASE PlansNext
  BY <1>3 DEF PlansNext, SavePlan
<1>4. CASE AmountsNext
  BY <1>4 DEF AmountsNext, Spend, SaveLimit
<1> QED
  BY <1>1, <1>2, <1>3, <1>4 DEF BudgetNext

LEMMA FamilySteps == [Next]_vars => [FamilyNext]_familyVars
BY BudgetStepKeepsFamilies DEF Next, vars

(* The pages of money and the forms that manage a family agree on who is in  *)
(* it also while budgets are kept.                                           *)
THEOREM BudgetFamiliesAgree == Spec => []MembershipAgrees
<1>1. Spec => FamilySpec
  BY FamilySteps, PTL DEF Spec, FamilySpec
<1> QED
  BY <1>1, TablesAgree, PTL

-----------------------------------------------------------------------------
(* Type correctness.                                                         *)
Pressed == [at : {"last", "dates", "read", "insert"}, user : Users,
            type : Types, from : Dates, missing : SUBSET (Categories \X Dates)]
Loaded == [at : {"loaded"}, of : Categories, row : Category]

CategoryTables ==
    /\ Table(category, Categories, Category)
    /\ spent \in [Categories -> [Months -> Amounts]]
    /\ Table(plans, (DOMAIN category) \X Dates, Amounts)
    /\ Table(limits, Users \X (DOMAIN category \cup {NoCategory}) \X Months,
             [limit : LimitAmounts, threshold : Thresholds])
MonthTables == listed \in [Users -> SUBSET Dates]
FormsOK == form \in [FormIds -> {Idle} \cup Loaded]
PressesOK == press \in [PressIds -> {Idle} \cup Pressed]

LEMMA BudgetParts ==
    BudgetTypeOK <=>
        FamilyTypeOK /\ CategoryTables /\ MonthTables /\ FormsOK /\ PressesOK
BY DEF BudgetTypeOK, CategoryTables, MonthTables, FormsOK, PressesOK, Loaded, Pressed

LEMMA PutTable ==
    ASSUME NEW f, NEW D, NEW R, Table(f, D, R), NEW x \in D, NEW r \in R
    PROVE  Table(Put(f, x, r), D, R)
<1>1. /\ DOMAIN Put(f, x, r) = DOMAIN f \cup {x}
      /\ \A y \in DOMAIN f \cup {x} : Put(f, x, r)[y] = IF y = x THEN r ELSE f[y]
  BY DEF Put
<1> QED
  BY <1>1 DEF Table

LEMMA RestrictTable ==
    ASSUME NEW f, NEW D, NEW R, Table(f, D, R), NEW S, S \subseteq DOMAIN f,
           NEW E, S \subseteq E
    PROVE  /\ DOMAIN Restrict(f, S) = S
           /\ Table(Restrict(f, S), E, R)
<1>1. DOMAIN Restrict(f, S) = S /\ \A y \in S : Restrict(f, S)[y] = f[y]
  BY DEF Restrict
<1> QED
  BY <1>1 DEF Table

LEMMA PressType ==
    ASSUME PressesOK, NEW k \in PressIds
    PROVE  /\ press[k].at = "idle" <=> press[k] = Idle
           /\ press[k] # Idle =>
                /\ press[k] \in Pressed
                /\ press[k].at \in {"last", "dates", "read", "insert"}
                /\ press[k].user \in Users /\ press[k].type \in Types
                /\ press[k].from \in Dates
                /\ press[k].missing \subseteq Categories \X Dates
BY DEF PressesOK, Pressed, Idle

LEMMA RunStarts == ASSUME NEW d \in Int \X {"first", "later"}
                   PROVE  d \in Run(d) /\ d = <<d[1], d[2]>>
<1>1. d = <<d[1], d[2]>> /\ d[1] \in Int
  OBVIOUS
<1>2. d[1] \in d[1] .. d[1] + Batch - 1
  BY <1>1
<1> QED
  BY <1>1, <1>2 DEF Run

LEMMA RowTypes ==
    ASSUME CategoryTables, NEW c \in DOMAIN category
    PROVE  /\ c \in Categories /\ category[c] \in Category
           /\ category[c].user \in Users /\ category[c].type \in Types
           /\ category[c].parent \in Categories \cup {NoCategory}
BY DEF CategoryTables, Table, Category

LEMMA CategoriesType ==
    ASSUME CategoryTables, FormsOK, PressesOK, MonthTables, CategoriesNext
    PROVE  CategoryTables' /\ FormsOK' /\ PressesOK' /\ MonthTables'
<1>1. ASSUME NEW c \in Categories, NEW u \in Users, NEW t \in Types,
             NEW p \in Categories \cup {NoCategory}, CreateCategory(c, u, t, p)
      PROVE  CategoryTables' /\ FormsOK' /\ PressesOK' /\ MonthTables'
  <2>1. [user |-> u, type |-> t, parent |-> p] \in Category
    BY DEF Category
  <2>0. /\ Table(category, Categories, Category)
        /\ category' = Put(category, c, [user |-> u, type |-> t, parent |-> p])
    BY <1>1 DEF CreateCategory, CategoryTables
  <2>2. /\ DOMAIN category' = DOMAIN category \cup {c}
        /\ Table(category', Categories, Category)
    <3>1. DOMAIN category' = DOMAIN category \cup {c}
      BY <2>0 DEF Put
    <3>2. Table(category', Categories, Category)
      BY <2>0, <2>1, PutTable
    <3> QED
      BY <3>1, <3>2
  <2> QED
    BY <1>1, <2>2 DEF CreateCategory, CategoryTables, FormsOK, PressesOK,
                      MonthTables, Table
<1>2. ASSUME NEW f \in FormIds, NEW c \in Categories,
             NEW p \in Categories \cup {NoCategory}, LoadCategory(f, c, p)
      PROVE  CategoryTables' /\ FormsOK' /\ PressesOK' /\ MonthTables'
  <2>1. [category[c] EXCEPT !.parent = p] \in Category
    BY <1>2, RowTypes DEF LoadCategory, Category
  <2>2. FormsOK'
    BY <1>2, <2>1 DEF LoadCategory, FormsOK, Loaded
  <2> QED
    BY <1>2, <2>2 DEF LoadCategory, CategoryTables, PressesOK, MonthTables
<1>3. ASSUME NEW f \in FormIds, SaveCategory(f)
      PROVE  CategoryTables' /\ FormsOK' /\ PressesOK' /\ MonthTables'
  <2>1. form[f] \in Loaded
    BY <1>3 DEF SaveCategory, FormsOK, Loaded, Idle
  <2>2. form[f].of \in Categories /\ form[f].row \in Category
    BY <2>1 DEF Loaded
  <2>3. /\ DOMAIN category \subseteq DOMAIN category'
        /\ Table(category', Categories, Category)
    <3>1. Table(category, Categories, Category)
      BY DEF CategoryTables
    <3>2. CASE category' = Put(category, form[f].of, form[f].row)
      <4>1. DOMAIN category' = DOMAIN category \cup {form[f].of}
        BY <3>2 DEF Put
      <4>2. Table(category', Categories, Category)
        BY <2>2, <3>1, <3>2, PutTable
      <4> QED
        BY <4>1, <4>2
    <3>3. CASE category' = category
      BY <3>1, <3>3
    <3> QED
      BY <1>3, <3>2, <3>3 DEF SaveCategory
  <2>4. FormsOK'
    BY <1>3 DEF SaveCategory, FormsOK
  <2> QED
    BY <1>3, <2>3, <2>4 DEF SaveCategory, CategoryTables, PressesOK,
                      MonthTables, Table
<1>4. ASSUME NEW c \in Categories, DeleteCategory(c)
      PROVE  CategoryTables' /\ FormsOK' /\ PressesOK' /\ MonthTables'
  <2> DEFINE P == {k \in DOMAIN plans : k[1] # c}
             L == {k \in DOMAIN limits : k[2] # c}
  <2>1. /\ DOMAIN category' = DOMAIN category \ {c}
        /\ Table(category', Categories, Category)
    <3>1. /\ Table(category, Categories, Category)
          /\ category' = Restrict(category, DOMAIN category \ {c})
          /\ DOMAIN category \ {c} \subseteq DOMAIN category
      BY <1>4 DEF DeleteCategory, CategoryTables
    <3>2. DOMAIN category \ {c} \subseteq Categories
      BY <3>1 DEF Table
    <3> QED
      BY <3>1, <3>2, RestrictTable
  <2>2. P \subseteq (DOMAIN category') \X Dates
    BY <2>1 DEF CategoryTables, Table
  <2>3. Table(plans', (DOMAIN category') \X Dates, Amounts)
    BY <1>4, <2>2, RestrictTable DEF DeleteCategory, CategoryTables
  <2>4. L \subseteq Users \X (DOMAIN category' \cup {NoCategory}) \X Months
    BY <2>1 DEF CategoryTables, Table
  <2>5. Table(limits', Users \X (DOMAIN category' \cup {NoCategory}) \X Months,
              [limit : LimitAmounts, threshold : Thresholds])
    BY <1>4, <2>4, RestrictTable DEF DeleteCategory, CategoryTables
  <2>6. UNCHANGED <<spent, listed, form, press>>
    BY <1>4 DEF DeleteCategory
  <2>7. CategoryTables'
    BY <2>1, <2>3, <2>5, <2>6 DEF CategoryTables
  <2> QED
    BY <2>6, <2>7 DEF FormsOK, PressesOK, MonthTables
<1> QED
  BY <1>1, <1>2, <1>3, <1>4 DEF CategoriesNext

LEMMA AmountsType ==
    ASSUME CategoryTables, FormsOK, PressesOK, MonthTables,
           PlansNext \/ AmountsNext
    PROVE  CategoryTables' /\ FormsOK' /\ PressesOK' /\ MonthTables'
<1>1. ASSUME NEW c \in Categories, NEW m \in Entered,
             NEW day \in {"first", "later"}, NEW n \in Amounts,
             SavePlan(c, <<m, day>>, n)
      PROVE  CategoryTables' /\ FormsOK' /\ PressesOK' /\ MonthTables'
  <2>1. <<c, <<m, day>>>> \in (DOMAIN category) \X Dates
    BY <1>1 DEF SavePlan, Dates
  <2>2. Table(plans', (DOMAIN category) \X Dates, Amounts)
    BY <1>1, <2>1, PutTable DEF SavePlan, CategoryTables
  <2> QED
    BY <1>1, <2>2 DEF SavePlan, CategoryTables, FormsOK, PressesOK, MonthTables
<1>2. ASSUME NEW c \in Categories, NEW m \in Entered, NEW n \in Amounts,
             Spend(c, m, n)
      PROVE  CategoryTables' /\ FormsOK' /\ PressesOK' /\ MonthTables'
  BY <1>2 DEF Spend, CategoryTables, FormsOK, PressesOK, MonthTables
<1>3. ASSUME NEW u \in Users, NEW c \in Categories \cup {NoCategory},
             NEW m \in Entered, NEW n \in LimitAmounts, NEW h \in Thresholds,
             SaveLimit(u, c, m, n, h)
      PROVE  CategoryTables' /\ FormsOK' /\ PressesOK' /\ MonthTables'
  <2>1. /\ <<u, c, m>> \in Users \X (DOMAIN category \cup {NoCategory}) \X Months
        /\ [limit |-> n, threshold |-> h] \in [limit : LimitAmounts, threshold : Thresholds]
    BY <1>3 DEF SaveLimit
  <2>2. Table(limits', Users \X (DOMAIN category \cup {NoCategory}) \X Months,
              [limit : LimitAmounts, threshold : Thresholds])
    BY <1>3, <2>1, PutTable DEF SaveLimit, CategoryTables
  <2> QED
    BY <1>3, <2>2 DEF SaveLimit, CategoryTables, FormsOK, PressesOK, MonthTables
<1> QED
  BY <1>1, <1>2, <1>3 DEF PlansNext, AmountsNext

(* The dates of a run that is written are dates, and so is its start.        *)
LEMMA StartIsDate ==
    ASSUME NEW d \in Int \X {"first", "later"}, Run(d) \subseteq Dates
    PROVE  d \in Dates
BY RunStarts

LEMMA LastDateType ==
    ASSUME MonthTables, NEW u \in Users,
           \E d \in listed[u] : \A e \in listed[u] : e[1] <= d[1]
    PROVE  /\ LastDate(u) \in listed[u] /\ LastDate(u) \in Dates
           /\ \A e \in listed[u] : e[1] <= LastDate(u)[1]
BY DEF LastDate, MonthTables

LEMMA InsertType ==
    ASSUME CategoryTables, FormsOK, PressesOK, MonthTables,
           NEW k \in PressIds, InsertPlans(k)
    PROVE  CategoryTables' /\ FormsOK' /\ PressesOK' /\ MonthTables'
<1> DEFINE K == press[k].missing
           fits == /\ K \cap DOMAIN plans = {}
                   /\ {x[1] : x \in K} \subseteq DOMAIN category
<1>1. press[k] \in Pressed /\ K \subseteq Categories \X Dates
  BY PressType DEF InsertPlans, Idle
<1>2. CASE fits
  <2>1. K \subseteq (DOMAIN category) \X Dates
    BY <1>1, <1>2
  <2>2. /\ DOMAIN WithZeros(K) = DOMAIN plans \cup K
        /\ \A x \in DOMAIN plans \cup K :
                WithZeros(K)[x] = IF x \in K THEN 0 ELSE plans[x]
    BY DEF WithZeros
  <2>3. Table(WithZeros(K), (DOMAIN category) \X Dates, Amounts)
    BY <2>1, <2>2 DEF CategoryTables, Table
  <2>4. plans' = WithZeros(K) /\ UNCHANGED <<category, spent, limits, listed, form>>
    BY <1>2 DEF InsertPlans
  <2>5. CategoryTables'
    BY <2>3, <2>4 DEF CategoryTables
  <2>6. [press[k] EXCEPT !.at = "last", !.type = "income", !.missing = {}] \in Pressed
    BY <1>1 DEF Pressed, Types
  <2>7. press' = [press EXCEPT ![k] =
                IF press[k].type = "expense"
                THEN [press[k] EXCEPT !.at = "last", !.type = "income",
                                      !.missing = {}]
                ELSE Idle]
    BY <1>2 DEF InsertPlans
  <2>8. PressesOK'
    BY <2>6, <2>7 DEF PressesOK
  <2> QED
    BY <2>4, <2>5, <2>8 DEF FormsOK, MonthTables
<1>3. CASE ~fits
  <2>1. /\ press' = [press EXCEPT ![k] = Idle]
        /\ UNCHANGED <<category, spent, plans, limits, listed, form>>
    BY <1>3 DEF InsertPlans
  <2> QED
    BY <2>1 DEF CategoryTables, FormsOK, PressesOK, MonthTables
<1> QED
  BY <1>2, <1>3

-----------------------------------------------------------------------------
(* The months.  A press that is about to write begins in the month it has    *)
(* looked at the clock for, or at the latest behind the last one there is.   *)
Listed(u) == {d[1] : d \in listed[u]}
HasLast(u) == \E d \in listed[u] : \A e \in listed[u] : e[1] <= d[1]
GoesOn(u, m) == \E d, e \in listed[u] : d[1] <= m /\ m <= e[1] + 1

Follows(k) ==
    LET u == press[k].user  m == press[k].from[1] IN
    /\ press[k].at \in {"last", "dates"} /\ listed[u] = {} => m = ThisMonth
    /\ press[k].at = "dates" /\ listed[u] # {} => GoesOn(u, m)
    /\ press[k].at \in {"dates", "read"} => Run(press[k].from) \subseteq Dates
    /\ press[k].at \in {"read", "insert"} => listed[u] # {}

MonthsInv ==
    /\ CategoryTables /\ FormsOK /\ PressesOK /\ MonthTables
    /\ \A u \in Users : listed[u] # {} => HasLast(u)
    /\ MonthsContiguous
    /\ \A k \in PressIds : press[k] # Idle => Follows(k)

(* A run of months put behind or into those there are leaves no gap.         *)
LEMMA JoinRuns ==
    ASSUME NEW S, NEW d \in Int \X {"first", "later"},
           S \subseteq Int \X {"first", "later"},
           \A e, f \in S : \A m \in e[1] .. f[1] : \E g \in S : g[1] = m,
           S # {} => \E e, f \in S : e[1] <= d[1] /\ d[1] <= f[1] + 1,
           S # {} => \E e \in S : \A f \in S : f[1] <= e[1]
    PROVE  /\ \A e, f \in S \cup Run(d) : \A m \in e[1] .. f[1] :
                \E g \in S \cup Run(d) : g[1] = m
           /\ \E e \in S \cup Run(d) : \A f \in S \cup Run(d) : f[1] <= e[1]
<1> DEFINE B == d[1] + Batch - 1
           T == S \cup Run(d)
<1>0. d[1] \in Int /\ B \in Int /\ d[1] <= B /\ d[2] \in {"first", "later"}
  OBVIOUS
<1>1. \A m \in d[1] .. B : <<m, d[2]>> \in Run(d) /\ <<m, d[2]>>[1] = m
  BY DEF Run
<1>2. \A g \in Run(d) : g[1] \in Int /\ d[1] <= g[1] /\ g[1] <= B
  BY <1>0 DEF Run
<1>3. \A g \in S : g[1] \in Int
  OBVIOUS
<1>4. ASSUME NEW e \in T, NEW f \in T, NEW m \in e[1] .. f[1]
      PROVE  \E g \in T : g[1] = m
  <2>0. m \in Int /\ e[1] <= m /\ m <= f[1] /\ e[1] \in Int /\ f[1] \in Int
    BY <1>2, <1>3
  <2>1. CASE d[1] <= m /\ m <= B
    <3>1. m \in d[1] .. B
      BY <1>0, <2>0, <2>1
    <3>2. <<m, d[2]>> \in T /\ <<m, d[2]>>[1] = m
      BY <1>1, <3>1
    <3> QED
      BY <3>2
  <2>2. CASE m < d[1]
    <3>1. e \in S
      BY <1>2, <2>0, <2>2
    <3>2. PICK x \in S, y \in S : x[1] <= d[1] /\ d[1] <= y[1] + 1
      BY <3>1
    <3>3. e[1] <= m /\ m <= y[1] /\ y[1] \in Int
      BY <1>0, <1>3, <2>0, <2>2, <3>2
    <3>4. m \in e[1] .. y[1]
      BY <2>0, <3>3
    <3> QED
      BY <3>1, <3>2, <3>4
  <2>3. CASE B < m
    <3>1. f \in S
      BY <1>2, <2>0, <2>3
    <3>2. PICK x \in S, y \in S : x[1] <= d[1] /\ d[1] <= y[1] + 1
      BY <3>1
    <3>3. x[1] <= m /\ m <= f[1] /\ x[1] \in Int
      BY <1>0, <1>3, <2>0, <2>3, <3>2
    <3>4. m \in x[1] .. f[1]
      BY <2>0, <3>3
    <3> QED
      BY <3>1, <3>2, <3>4
  <2> QED
    BY <1>0, <2>0, <2>1, <2>2, <2>3
<1>5. \E e \in T : \A f \in T : f[1] <= e[1]
  <2>1. <<B, d[2]>> \in T /\ <<B, d[2]>>[1] = B
    BY <1>0, <1>1
  <2>2. CASE S = {}
    BY <1>2, <2>1, <2>2
  <2>3. CASE S # {}
    <3>1. PICK x \in S : \A f \in S : f[1] <= x[1]
      BY <2>3
    <3>2. CASE x[1] <= B
      <4>1. \A f \in T : f[1] <= B
        BY <1>0, <1>2, <1>3, <3>1, <3>2
      <4> QED
        BY <2>1, <4>1
    <3>3. CASE B < x[1]
      <4>1. \A f \in T : f[1] <= x[1]
        BY <1>0, <1>2, <1>3, <3>1, <3>3
      <4> QED
        BY <4>1
    <3> QED
      BY <1>0, <1>3, <3>2, <3>3
  <2> QED
    BY <2>2, <2>3
<1> QED
  BY <1>4, <1>5

LEMMA ContiguousDates ==
    ASSUME MonthTables
    PROVE  MonthsContiguous <=>
             \A u \in Users : \A e, f \in listed[u] : \A m \in e[1] .. f[1] :
                \E g \in listed[u] : g[1] = m
<1>1. \A u \in Users : MonthsOf({u}) = {d[1] : d \in listed[u]}
  BY DEF MonthsOf
<1>2. ASSUME NEW u \in Users
      PROVE  (\A first, last \in MonthsOf({u}) : first .. last \subseteq MonthsOf({u}))
        <=> \A e, f \in listed[u] : \A m \in e[1] .. f[1] :
                \E g \in listed[u] : g[1] = m
  <2> DEFINE M == {d[1] : d \in listed[u]}
  <2>1. \A m : m \in M <=> \E g \in listed[u] : g[1] = m
    OBVIOUS
  <2> HIDE DEF M
  <2>2. ASSUME \A first, last \in M : first .. last \subseteq M,
               NEW e \in listed[u], NEW f \in listed[u], NEW m \in e[1] .. f[1]
        PROVE  \E g \in listed[u] : g[1] = m
    <3>1. e[1] \in M /\ f[1] \in M
      BY <2>1
    <3>2. m \in M
      BY <2>2, <3>1
    <3> QED
      BY <2>1, <3>2
  <2>3. ASSUME \A e, f \in listed[u] : \A m \in e[1] .. f[1] :
                  \E g \in listed[u] : g[1] = m,
               NEW first \in M, NEW last \in M, NEW m \in first .. last
        PROVE  m \in M
    <3>1. PICK e \in listed[u] : e[1] = first
      BY <2>1
    <3>2. PICK f \in listed[u] : f[1] = last
      BY <2>1
    <3>3. m \in e[1] .. f[1]
      BY <3>1, <3>2
    <3>4. \E g \in listed[u] : g[1] = m
      BY <2>3, <3>3
    <3> QED
      BY <2>1, <3>4
  <2>4. MonthsOf({u}) = M
    BY <1>1 DEF M
  <2> QED
    BY <2>2, <2>3, <2>4
<1> QED
  BY <1>2 DEF MonthsContiguous

LEMMA DatesAreIntegers == Dates \subseteq Int \X {"first", "later"}
<1>1. Months \subseteq Int
  BY DEF BudgetAssumption
<1> QED
  BY <1>1 DEF Dates

(* The step that writes a run of months for a user.                          *)
LEMMA WriteRun ==
    ASSUME MonthsInv, NEW u \in Users, NEW d \in Dates, Run(d) \subseteq Dates,
           listed' = [listed EXCEPT ![u] = @ \cup Run(d)],
           listed[u] = {} => d[1] = ThisMonth,
           listed[u] # {} => GoesOn(u, d[1])
    PROVE  /\ MonthTables' /\ MonthsContiguous'
           /\ \A w \in Users : listed'[w] # {} => HasLast(w)'
           /\ listed'[u] # {}
           /\ listed[u] = {} => GoesOn(u, ThisMonth)'
           /\ \A w \in Users, m \in Int : listed[w] # {} /\ GoesOn(w, m) => GoesOn(w, m)'
           /\ \A w \in Users : listed[w] \subseteq listed'[w]
<1>1. /\ listed'[u] = listed[u] \cup Run(d)
      /\ \A w \in Users : w # u => listed'[w] = listed[w]
      /\ MonthTables'
  BY DEF MonthsInv, MonthTables
<1>2. d \in Int \X {"first", "later"} /\ d \in Run(d)
  BY RunStarts, DatesAreIntegers
<1>3. /\ listed[u] \subseteq Int \X {"first", "later"}
      /\ \A e, f \in listed[u] : \A m \in e[1] .. f[1] : \E g \in listed[u] : g[1] = m
      /\ listed[u] # {} => \E e \in listed[u] : \A f \in listed[u] : f[1] <= e[1]
      /\ listed[u] # {} => \E e, f \in listed[u] : e[1] <= d[1] /\ d[1] <= f[1] + 1
  BY DatesAreIntegers, ContiguousDates DEF MonthsInv, MonthTables, HasLast, GoesOn
<1>4. /\ \A e, f \in listed'[u] : \A m \in e[1] .. f[1] : \E g \in listed'[u] : g[1] = m
      /\ \E e \in listed'[u] : \A f \in listed'[u] : f[1] <= e[1]
  <2> DEFINE S == listed[u]
  <2>1. /\ \A e, f \in S \cup Run(d) : \A m \in e[1] .. f[1] :
                \E g \in S \cup Run(d) : g[1] = m
        /\ \E e \in S \cup Run(d) : \A f \in S \cup Run(d) : f[1] <= e[1]
    <3>1. /\ S \subseteq Int \X {"first", "later"}
          /\ \A e, f \in S : \A m \in e[1] .. f[1] : \E g \in S : g[1] = m
          /\ S # {} => \E e, f \in S : e[1] <= d[1] /\ d[1] <= f[1] + 1
          /\ S # {} => \E e \in S : \A f \in S : f[1] <= e[1]
      BY <1>3
    <3> HIDE DEF S
    <3> QED
      BY <1>2, <3>1, JoinRuns
  <2> QED
    BY <1>1, <2>1
<1>5. \A w \in Users : listed'[w] # {} => HasLast(w)'
  BY <1>1, <1>4 DEF MonthsInv, HasLast
<1>6. MonthsContiguous'
  <2>1. \A w \in Users : \A e, f \in listed'[w] : \A m \in e[1] .. f[1] :
                \E g \in listed'[w] : g[1] = m
    BY <1>1, <1>4, ContiguousDates DEF MonthsInv
  <2>2. \A w \in Users : MonthsOf({w})' = {g[1] : g \in listed'[w]}
    BY DEF MonthsOf
  <2> QED
    BY <2>1, <2>2 DEF MonthsContiguous
<1>7. listed[u] = {} => GoesOn(u, ThisMonth)'
  BY <1>1, <1>2 DEF GoesOn
<1> QED
  BY <1>1, <1>2, <1>5, <1>6, <1>7 DEF GoesOn

(* A press that is not the one that moves still follows.                     *)
LEMMA OthersFollow ==
    ASSUME MonthsInv, PressesOK', MonthTables',
           \A u \in Users : listed[u] \subseteq listed'[u],
           \A u \in Users : listed[u] = {} /\ listed'[u] # {} => GoesOn(u, ThisMonth)',
           \A u \in Users, m \in Int : listed[u] # {} /\ GoesOn(u, m) => GoesOn(u, m)',
           NEW j \in PressIds, press'[j] = press[j], press[j] # Idle
    PROVE  Follows(j)'
<1>1. press[j].user \in Users /\ press[j].from[1] \in Int /\ Follows(j)
  BY PressType, DatesAreIntegers DEF MonthsInv
<1> QED
  BY <1>1 DEF Follows

LEMMA RegisterStep ==
    ASSUME MonthsInv, NEW u \in Users, NEW day \in {"first", "later"},
           Register(u, day)
    PROVE  MonthsInv'
<1> DEFINE d == <<ThisMonth, day>>
<1>1. /\ listed[u] = {} /\ Run(d) \subseteq Dates /\ d \in Dates /\ d[1] = ThisMonth
      /\ listed' = [listed EXCEPT ![u] = @ \cup Run(d)]
      /\ UNCHANGED <<category, spent, plans, limits, form, press>>
  BY DEF Register, Dates, MonthsInv, MonthTables
<1>2. /\ MonthTables' /\ MonthsContiguous'
      /\ \A w \in Users : listed'[w] # {} => HasLast(w)'
      /\ GoesOn(u, ThisMonth)'
      /\ \A w \in Users, m \in Int : listed[w] # {} /\ GoesOn(w, m) => GoesOn(w, m)'
      /\ \A w \in Users : listed[w] \subseteq listed'[w]
  BY <1>1, WriteRun
<1>3. \A w \in Users : listed[w] = {} /\ listed'[w] # {} => w = u
  BY <1>1 DEF MonthsInv, MonthTables
<1>4. CategoryTables' /\ FormsOK' /\ PressesOK'
  BY <1>1 DEF MonthsInv, CategoryTables, FormsOK, PressesOK
<1>5. ASSUME NEW j \in PressIds, press'[j] # Idle PROVE Follows(j)'
  BY <1>1, <1>2, <1>3, <1>4, <1>5, OthersFollow
<1> QED
  BY <1>2, <1>4, <1>5 DEF MonthsInv

(* The steps of a press that write no month.                                 *)
LEMMA PressStep ==
    ASSUME MonthsInv, NEW k \in PressIds, PressesOK',
           CategoryTables', FormsOK', listed' = listed,
           \A j \in PressIds : j # k => press'[j] = press[j],
           press'[k] # Idle => Follows(k)'
    PROVE  MonthsInv'
<1>1. MonthTables' /\ MonthsContiguous' /\ \A u \in Users : listed'[u] # {} => HasLast(u)'
  BY DEF MonthsInv, MonthTables, MonthsContiguous, MonthsOf, HasLast
<1>2. ASSUME NEW j \in PressIds, j # k, press'[j] # Idle PROVE Follows(j)'
  BY <1>2 DEF MonthsInv, Follows, GoesOn
<1> QED
  BY <1>1, <1>2 DEF MonthsInv

LEMMA PressedStep ==
    ASSUME MonthsInv, NEW k \in PressIds, NEW u \in Users, Press(k, u)
    PROVE  MonthsInv'
<1> DEFINE row == [at |-> "last", user |-> u, type |-> "expense",
                   from |-> <<ThisMonth, "first">>, missing |-> {}]
<1>1. /\ press' = [press EXCEPT ![k] = row]
      /\ UNCHANGED <<category, spent, listed, plans, limits, form>>
  BY DEF Press
<1>2. row \in Pressed
  BY DEF Pressed, Types, Dates
<1>3. PressesOK'
  BY <1>1, <1>2 DEF MonthsInv, PressesOK
<1>4. press'[k] = row /\ \A j \in PressIds : j # k => press'[j] = press[j]
  BY <1>1 DEF MonthsInv, PressesOK
<1>5. Follows(k)'
  BY <1>4 DEF Follows
<1>6. CategoryTables' /\ FormsOK'
  BY <1>1 DEF MonthsInv, CategoryTables, FormsOK
<1> QED
  BY <1>1, <1>3, <1>4, <1>5, <1>6, PressStep

LEMMA ReadLastStep ==
    ASSUME MonthsInv, NEW k \in PressIds, ReadLast(k)
    PROVE  MonthsInv'
<1> DEFINE u == press[k].user
           start == IF listed[u] = {} THEN press[k].from
                    ELSE <<LastDate(u)[1] + 1, LastDate(u)[2]>>
<1>1. /\ Run(start) \subseteq Dates
      /\ press' = [press EXCEPT ![k].at = "dates", ![k].from = start]
      /\ UNCHANGED <<category, spent, listed, plans, limits, form>>
  BY DEF ReadLast
<1>2. press[k] \in Pressed /\ u \in Users /\ press[k].at = "last" /\ press[k] # Idle
  BY PressType DEF MonthsInv, ReadLast, Idle
<1>3. start \in Int \X {"first", "later"}
  <2>1. CASE listed[u] = {}
    BY <1>2, <2>1, DatesAreIntegers DEF Pressed
  <2>2. CASE listed[u] # {}
    BY <1>2, <2>2, DatesAreIntegers, LastDateType DEF MonthsInv, HasLast
  <2> QED
    BY <2>1, <2>2
<1>4. start \in Dates
  BY <1>1, <1>3, StartIsDate
<1>5. /\ press'[k] \in Pressed
      /\ press'[k].at = "dates" /\ press'[k].user = u /\ press'[k].from = start
      /\ \A j \in PressIds : j # k => press'[j] = press[j]
      /\ PressesOK'
  BY <1>1, <1>2, <1>4 DEF MonthsInv, PressesOK, Pressed
<1>6. Follows(k)'
  <2>1. CASE listed[u] = {}
    <3>1. press[k].from[1] = ThisMonth
      BY <1>2, <2>1 DEF MonthsInv, Follows
    <3> QED
      BY <1>1, <1>5, <2>1, <3>1 DEF Follows
  <2>2. CASE listed[u] # {}
    <3>1. LastDate(u) \in listed[u] /\ LastDate(u)[1] \in Int
      BY <1>2, <2>2, DatesAreIntegers, LastDateType DEF MonthsInv, HasLast
    <3>2. start[1] = LastDate(u)[1] + 1
      BY <2>2
    <3>3. GoesOn(u, start[1])
      BY <3>1, <3>2 DEF GoesOn
    <3> QED
      BY <1>1, <1>5, <2>2, <3>3 DEF Follows, GoesOn
  <2> QED
    BY <2>1, <2>2
<1>7. CategoryTables' /\ FormsOK'
  BY <1>1 DEF MonthsInv, CategoryTables, FormsOK
<1> QED
  BY <1>1, <1>5, <1>6, <1>7, PressStep

LEMMA EnsureDatesStep ==
    ASSUME MonthsInv, NEW k \in PressIds, EnsureDates(k)
    PROVE  MonthsInv'
<1>0. press[k] \in Pressed /\ press[k] # Idle /\ press[k].at = "dates"
  BY PressType DEF MonthsInv, EnsureDates, Idle
<1>2. PICK u \in Users, d \in Dates : u = press[k].user /\ d = press[k].from
  BY <1>0 DEF Pressed
<1>1. /\ listed' = [listed EXCEPT ![u] = @ \cup Run(d)]
      /\ press' = [press EXCEPT ![k].at = "read"]
      /\ UNCHANGED <<category, spent, plans, limits, form>>
  BY <1>2 DEF EnsureDates
<1>3. /\ Run(d) \subseteq Dates
      /\ listed[u] = {} => d[1] = ThisMonth
      /\ listed[u] # {} => GoesOn(u, d[1])
  BY <1>0, <1>2 DEF MonthsInv, Follows
<1>4. /\ MonthTables' /\ MonthsContiguous'
      /\ \A w \in Users : listed'[w] # {} => HasLast(w)'
      /\ listed'[u] # {}
      /\ listed[u] = {} => GoesOn(u, ThisMonth)'
      /\ \A w \in Users, m \in Int : listed[w] # {} /\ GoesOn(w, m) => GoesOn(w, m)'
      /\ \A w \in Users : listed[w] \subseteq listed'[w]
  BY <1>1, <1>2, <1>3, WriteRun
<1>5. \A w \in Users : listed[w] = {} /\ listed'[w] # {} => w = u
  BY <1>1 DEF MonthsInv, MonthTables
<1>6. /\ press'[k].at = "read" /\ press'[k].user = u /\ press'[k].from = d
      /\ \A j \in PressIds : j # k => press'[j] = press[j]
      /\ PressesOK'
  BY <1>0, <1>1, <1>2 DEF MonthsInv, PressesOK, Pressed
<1>7. CategoryTables' /\ FormsOK'
  BY <1>1 DEF MonthsInv, CategoryTables, FormsOK
<1>8. ASSUME NEW j \in PressIds, press'[j] # Idle PROVE Follows(j)'
  <2>1. CASE j = k
    BY <1>3, <1>4, <1>6, <2>1 DEF Follows
  <2>2. CASE j # k
    BY <1>4, <1>5, <1>6, <1>8, <2>2, OthersFollow
  <2> QED
    BY <2>1, <2>2
<1> QED
  BY <1>4, <1>6, <1>7, <1>8 DEF MonthsInv

LEMMA ReadPlansStep ==
    ASSUME MonthsInv, NEW k \in PressIds, ReadPlans(k)
    PROVE  MonthsInv'
<1> DEFINE d == press[k].from
           cs == CategoriesOf(press[k].user, press[k].type)
           K == (cs \X Run(d)) \ DOMAIN plans
<1>1. /\ press' = [press EXCEPT ![k].at = "insert", ![k].missing = K]
      /\ UNCHANGED <<category, spent, listed, plans, limits, form>>
  BY DEF ReadPlans
<1>2. press[k] \in Pressed /\ press[k].at = "read" /\ press[k] # Idle
  BY PressType DEF MonthsInv, ReadPlans, Idle
<1>3. Follows(k)
  BY <1>2 DEF MonthsInv
<1>4. cs \subseteq Categories
  BY DEF CategoriesOf, MonthsInv, CategoryTables, Table
<1>5. K \subseteq Categories \X Dates
  BY <1>2, <1>3, <1>4 DEF Follows
<1>6. /\ press'[k].at = "insert" /\ press'[k].user = press[k].user
      /\ \A j \in PressIds : j # k => press'[j] = press[j]
      /\ PressesOK'
  BY <1>1, <1>2, <1>5 DEF MonthsInv, PressesOK, Pressed
<1>7. Follows(k)'
  BY <1>1, <1>2, <1>3, <1>6 DEF Follows
<1>8. CategoryTables' /\ FormsOK'
  BY <1>1 DEF MonthsInv, CategoryTables, FormsOK
<1> QED
  BY <1>1, <1>6, <1>7, <1>8, PressStep

LEMMA MonthsStep == MonthsInv /\ [Next]_vars => MonthsInv'
<1> SUFFICES ASSUME MonthsInv, [Next]_vars PROVE MonthsInv'
  OBVIOUS
<1>1. ASSUME CategoryTables', FormsOK', PressesOK', MonthTables',
             UNCHANGED <<listed, press>>
      PROVE  MonthsInv'
  BY <1>1 DEF MonthsInv, MonthsContiguous, MonthsOf, HasLast, Follows, GoesOn
<1>2. CASE CategoriesNext
  <2>1. UNCHANGED <<listed, press>>
    BY <1>2 DEF CategoriesNext, CreateCategory, LoadCategory, SaveCategory,
                DeleteCategory
  <2> QED
    BY <1>1, <1>2, <2>1, CategoriesType DEF MonthsInv
<1>3. CASE PlansNext \/ AmountsNext
  <2>1. UNCHANGED <<listed, press>>
    BY <1>3 DEF PlansNext, AmountsNext, SavePlan, Spend, SaveLimit
  <2> QED
    BY <1>1, <1>3, <2>1, AmountsType DEF MonthsInv
<1>4. ASSUME NEW k \in PressIds, InsertPlans(k) PROVE MonthsInv'
  <2>1. CategoryTables' /\ FormsOK' /\ PressesOK' /\ listed' = listed
    BY <1>4, InsertType DEF MonthsInv, InsertPlans
  <2>2. \A j \in PressIds : j # k => press'[j] = press[j]
    BY <1>4 DEF InsertPlans, MonthsInv, PressesOK
  <2>3. press[k] \in Pressed /\ press[k].at = "insert" /\ press[k] # Idle
    BY <1>4, PressType DEF MonthsInv, InsertPlans, Idle
  <2>4. Follows(k)
    BY <2>3 DEF MonthsInv
  <2>5. press'[k] # Idle => Follows(k)'
    <3>1. \/ press'[k].user = press[k].user /\ press'[k].at = "last"
          \/ press'[k] = Idle
      <4> DEFINE row == [press[k] EXCEPT !.at = "last", !.type = "income",
                                         !.missing = {}]
      <4>1. row.user = press[k].user /\ row.at = "last"
        BY <2>3 DEF Pressed
      <4>2. press'[k] \in {row, Idle}
        BY <1>4 DEF InsertPlans, MonthsInv, PressesOK
      <4> QED
        BY <4>1, <4>2
    <3> QED
      BY <2>1, <2>3, <2>4, <3>1 DEF Follows
  <2> QED
    BY <2>1, <2>2, <2>5, PressStep
<1>5. ASSUME NEW k \in PressIds, PressDies(k) PROVE MonthsInv'
  <2>1. /\ press' = [press EXCEPT ![k] = Idle]
        /\ UNCHANGED <<category, spent, listed, plans, limits, form>>
    BY <1>5 DEF PressDies
  <2>2. CategoryTables' /\ FormsOK' /\ PressesOK'
    BY <2>1 DEF MonthsInv, CategoryTables, FormsOK, PressesOK
  <2>3. press'[k] = Idle /\ \A j \in PressIds : j # k => press'[j] = press[j]
    BY <2>1 DEF MonthsInv, PressesOK
  <2> QED
    BY <2>1, <2>2, <2>3, PressStep
<1>6. CASE MonthsNext
  BY <1>4, <1>5, <1>6, RegisterStep, PressedStep, ReadLastStep, EnsureDatesStep,
     ReadPlansStep DEF MonthsNext
<1>7. CASE UNCHANGED budgetVars
  <2>1. UNCHANGED <<category, spent, listed, plans, limits, form, press>>
    BY <1>7 DEF budgetVars
  <2>2. CategoryTables' /\ FormsOK' /\ PressesOK' /\ MonthTables'
    BY <2>1 DEF MonthsInv, CategoryTables, FormsOK, PressesOK, MonthTables
  <2> QED
    BY <1>1, <2>1, <2>2
<1> QED
  BY <1>2, <1>3, <1>6, <1>7 DEF Next, BudgetNext, vars

LEMMA MonthsStart == BudgetInit => MonthsInv
<1> SUFFICES ASSUME BudgetInit PROVE MonthsInv
  OBVIOUS
<1>1. CategoryTables /\ FormsOK /\ PressesOK /\ MonthTables
  BY DEF BudgetInit, CategoryTables, FormsOK, PressesOK, MonthTables, Table, Empty
<1>2. \A u \in Users : listed[u] = {}
  BY DEF BudgetInit
<1>3. MonthsContiguous
  BY <1>2 DEF MonthsContiguous, MonthsOf
<1>4. \A k \in PressIds : press[k] = Idle
  BY DEF BudgetInit
<1> QED
  BY <1>1, <1>2, <1>3, <1>4 DEF MonthsInv

(* Whoever registers, presses the button, saves plans or limits and edits    *)
(* the tree, at once or one after the other: the tables stay well formed.    *)
THEOREM BudgetTypeCorrect == Spec => []BudgetTypeOK
<1>1. Spec => []MonthsInv
  BY MonthsStart, MonthsStep, PTL DEF Spec
<1>2. Spec => []FamilyTypeOK
  <2>1. Spec => FamilySpec
    BY FamilySteps, PTL DEF Spec, FamilySpec
  <2>2. FamilyInv => FamilyTypeOK
    BY DEF FamilyInv
  <2> QED
    BY <2>1, <2>2, FamilyInvariant, PTL
<1>3. MonthsInv /\ FamilyTypeOK => BudgetTypeOK
  BY BudgetParts DEF MonthsInv
<1> QED
  BY <1>1, <1>2, <1>3, PTL

(* However often the button is pressed, at once or after a worker died, the  *)
(* months of a user follow each other without a gap (generate_dates.py).     *)
THEOREM MonthsWithoutGap == Spec => []MonthsContiguous
<1>1. MonthsInv => MonthsContiguous
  BY DEF MonthsInv
<1> QED
  BY <1>1, MonthsStart, MonthsStep, PTL DEF Spec

-----------------------------------------------------------------------------
(* Whose the categories are.  A row of the table and a row that a form will  *)
(* save say of the category and of its parent whose they are: one user's and *)
(* of one type, and a parent is there as long as a row names it.             *)
Names(key, row, c) == c \in {key, row.parent} \ {NoCategory}
OwnerOf(row) == <<row.user, row.type>>
Said(c, o) ==
    \/ \E k \in DOMAIN category : Names(k, category[k], c) /\ o = OwnerOf(category[k])
    \/ \E f \in FormIds : /\ form[f].at = "loaded"
                          /\ Names(form[f].of, form[f].row, c)
                          /\ o = OwnerOf(form[f].row)
OneOwner == \A c, o, p : Said(c, o) /\ Said(c, p) => o = p
ParentsStay ==
    \A c \in DOMAIN category : category[c].parent \in DOMAIN category \cup {NoCategory}
OwnersInv == MonthsInv /\ OneOwner /\ ParentsStay

LEMMA FormRow ==
    ASSUME FormsOK, NEW f \in FormIds, form[f].at = "loaded"
    PROVE  form[f] \in Loaded /\ form[f].of \in Categories /\ form[f].row \in Category
BY DEF FormsOK, Loaded, Idle

(* Nothing new is said of a category.                                        *)
LEMMA NothingNewSaid ==
    ASSUME OneOwner, \A c, o : Said(c, o)' => Said(c, o)
    PROVE  OneOwner'
BY DEF OneOwner

LEMMA SameSaid == ASSUME UNCHANGED <<category, form>> PROVE \A c, o : Said(c, o)' <=> Said(c, o)
BY DEF Said

LEMMA CreateOwner ==
    ASSUME OwnersInv, NEW c \in Categories, NEW u \in Users, NEW t \in Types,
           NEW p \in Categories \cup {NoCategory}, CreateCategory(c, u, t, p)
    PROVE  OneOwner' /\ ParentsStay'
<1> DEFINE row == [user |-> u, type |-> t, parent |-> p]
<1>0. CategoryTables /\ FormsOK
  BY DEF OwnersInv, MonthsInv
<1>1. /\ DOMAIN category' = DOMAIN category \cup {c}
      /\ category'[c] = row
      /\ \A d \in DOMAIN category : category'[d] = category[d]
  BY DEF CreateCategory, Put
<1>2. p # NoCategory => p \in DOMAIN category /\ OwnerOf(category[p]) = <<u, t>>
  BY DEF CreateCategory, CategoriesOf, OwnerOf
<1>3. \A o : ~Said(c, o)
  <2>1. \A k \in DOMAIN category : ~Names(k, category[k], c)
    BY DEF Names, CreateCategory, OwnersInv, ParentsStay
  <2>2. \A f \in FormIds : form[f].at = "loaded" => ~Names(form[f].of, form[f].row, c)
    BY DEF Names, CreateCategory
  <2> QED
    BY <2>1, <2>2 DEF Said
<1>4. ASSUME NEW d, NEW o, Said(d, o)'
      PROVE  Said(d, o) \/ (d = c /\ o = <<u, t>>)
  <2>1. ASSUME NEW k \in DOMAIN category', Names(k, category'[k], d),
               o = OwnerOf(category'[k])
        PROVE  Said(d, o) \/ (d = c /\ o = <<u, t>>)
    <3>1. CASE k = c
      <4>1. o = <<u, t>> /\ d \in {c, p} \ {NoCategory}
        BY <1>1, <2>1, <3>1 DEF Names, OwnerOf
      <4>2. CASE d # c
        <5>1. d = p /\ p # NoCategory
          BY <4>1, <4>2
        <5>2. Names(p, category[p], d) /\ p \in DOMAIN category
          BY <5>1, <1>2 DEF Names
        <5> QED
          BY <5>1, <5>2, <4>1, <1>2 DEF Said
      <4> QED
        BY <4>1, <4>2
    <3>2. CASE k # c
      <4>1. k \in DOMAIN category /\ category'[k] = category[k]
        BY <1>1, <3>2
      <4> QED
        BY <4>1, <2>1 DEF Said
    <3> QED
      BY <3>1, <3>2
  <2>2. ASSUME NEW f \in FormIds, form'[f].at = "loaded",
               Names(form'[f].of, form'[f].row, d), o = OwnerOf(form'[f].row)
        PROVE  Said(d, o)
    BY <2>2 DEF Said, CreateCategory
  <2> QED
    BY <1>4, <2>1, <2>2 DEF Said
<1>5. OneOwner'
  BY <1>3, <1>4 DEF OneOwner, OwnersInv
<1>6. ParentsStay'
  BY <1>1, <1>2 DEF ParentsStay, OwnersInv
<1> QED
  BY <1>5, <1>6

LEMMA LoadOwner ==
    ASSUME OwnersInv, NEW f \in FormIds, NEW c \in Categories,
           NEW p \in Categories \cup {NoCategory}, LoadCategory(f, c, p)
    PROVE  OneOwner' /\ ParentsStay'
<1> DEFINE row == [category[c] EXCEPT !.parent = p]
<1>0. CategoryTables /\ FormsOK
  BY DEF OwnersInv, MonthsInv
<1>1. /\ category[c] \in Category
      /\ row.parent = p /\ OwnerOf(row) = OwnerOf(category[c])
  BY <1>0, RowTypes DEF LoadCategory, Category, OwnerOf
<1>2. /\ c \in DOMAIN category
      /\ p # NoCategory => p \in DOMAIN category /\ OwnerOf(category[p]) = OwnerOf(category[c])
  BY DEF LoadCategory, CategoriesOf, OwnerOf
<1>3. /\ form'[f] = [at |-> "loaded", of |-> c, row |-> row]
      /\ \A g \in FormIds : g # f => form'[g] = form[g]
      /\ category' = category
  BY <1>0 DEF LoadCategory, FormsOK
<1> HIDE DEF row
<1>4. ASSUME NEW d, NEW o, Said(d, o)' PROVE Said(d, o)
  <2>1. ASSUME NEW k \in DOMAIN category', Names(k, category'[k], d),
               o = OwnerOf(category'[k])
        PROVE  Said(d, o)
    BY <2>1, <1>3 DEF Said
  <2>2. ASSUME NEW g \in FormIds, form'[g].at = "loaded",
               Names(form'[g].of, form'[g].row, d), o = OwnerOf(form'[g].row)
        PROVE  Said(d, o)
    <3>1. CASE g # f
      BY <3>1, <2>2, <1>3 DEF Said
    <3>2. CASE g = f
      <4>1. o = OwnerOf(category[c]) /\ d \in {c, p} \ {NoCategory}
        BY <3>2, <2>2, <1>1, <1>3 DEF Names
      <4>2. CASE d = c
        <5>1. Names(c, category[c], d)
          BY <4>1, <4>2 DEF Names
        <5> QED
          BY <5>1, <4>1, <1>2 DEF Said
      <4>3. CASE d # c
        <5>1. d = p /\ Names(p, category[p], d) /\ p \in DOMAIN category
          BY <4>1, <4>3, <1>2 DEF Names
        <5>2. o = OwnerOf(category[p])
          BY <5>1, <4>1, <1>2 DEF Names
        <5> QED
          BY <5>1, <5>2 DEF Said
      <4> QED
        BY <4>2, <4>3
    <3> QED
      BY <3>1, <3>2
  <2> QED
    BY <1>4, <2>1, <2>2 DEF Said
<1>5. OneOwner'
  BY <1>4, NothingNewSaid DEF OwnersInv
<1>6. ParentsStay'
  BY <1>3 DEF ParentsStay, OwnersInv
<1> QED
  BY <1>5, <1>6

LEMMA SaveOwner ==
    ASSUME OwnersInv, NEW f \in FormIds, SaveCategory(f)
    PROVE  OneOwner' /\ ParentsStay'
<1>0. CategoryTables /\ FormsOK
  BY DEF OwnersInv, MonthsInv
<1>1. PICK c, row : c = form[f].of /\ row = form[f].row
  OBVIOUS
<1>2. form[f].at = "loaded" /\ form[f].row.parent = row.parent
  BY <1>1 DEF SaveCategory
<1>3. /\ form'[f] = Idle
      /\ \A g \in FormIds : g # f => form'[g] = form[g]
  BY <1>0 DEF SaveCategory, FormsOK
<1>4. \/ category' = category
      \/ /\ row.parent \in DOMAIN category \cup {NoCategory}
         /\ DOMAIN category' = DOMAIN category \cup {c}
         /\ category'[c] = row
         /\ \A d \in DOMAIN category : d # c => category'[d] = category[d]
  <2>1. CASE category' = Put(category, c, row) /\ row.parent \in DOMAIN category \cup {NoCategory}
    BY <2>1 DEF Put
  <2> QED
    BY <2>1, <1>1 DEF SaveCategory
<1>5. \A d, o : Names(c, row, d) /\ o = OwnerOf(row) => Said(d, o)
  BY <1>1, <1>2 DEF Said
<1>6. ASSUME NEW d, NEW o, Said(d, o)' PROVE Said(d, o)
  <2>1. ASSUME NEW k \in DOMAIN category', Names(k, category'[k], d),
               o = OwnerOf(category'[k])
        PROVE  Said(d, o)
    <3>1. (k \in DOMAIN category /\ category'[k] = category[k]) \/ (k = c /\ category'[k] = row)
      BY <1>4
    <3>2. CASE k \in DOMAIN category /\ category'[k] = category[k]
      BY <3>2, <2>1 DEF Said
    <3>3. CASE k = c /\ category'[k] = row
      BY <3>3, <2>1, <1>5
    <3> QED
      BY <3>1, <3>2, <3>3
  <2>2. ASSUME NEW g \in FormIds, form'[g].at = "loaded",
               Names(form'[g].of, form'[g].row, d), o = OwnerOf(form'[g].row)
        PROVE  Said(d, o)
    <3>1. g # f
      BY <2>2, <1>3 DEF Idle
    <3> QED
      BY <3>1, <2>2, <1>3 DEF Said
  <2> QED
    BY <1>6, <2>1, <2>2 DEF Said
<1>7. OneOwner'
  BY <1>6, NothingNewSaid DEF OwnersInv
<1>8. ParentsStay'
  BY <1>4 DEF ParentsStay, OwnersInv
<1> QED
  BY <1>7, <1>8

LEMMA DeleteOwner ==
    ASSUME OwnersInv, NEW c \in Categories, DeleteCategory(c)
    PROVE  OneOwner' /\ ParentsStay'
<1>1. /\ DOMAIN category' = DOMAIN category \ {c}
      /\ \A d \in DOMAIN category' : category'[d] = category[d]
      /\ form' = form
  BY DEF DeleteCategory, Restrict
<1>2. \A d, o : Said(d, o)' => Said(d, o)
  BY <1>1 DEF Said
<1>3. \A d \in DOMAIN category : category[d].parent # c
  BY DEF DeleteCategory, ChildrenOf
<1>4. OneOwner'
  BY <1>2, NothingNewSaid DEF OwnersInv
<1> QED
  BY <1>1, <1>3, <1>4 DEF ParentsStay, OwnersInv

LEMMA OwnersStep == OwnersInv /\ [Next]_vars => OwnersInv'
<1> SUFFICES ASSUME OwnersInv, [Next]_vars PROVE OwnersInv'
  OBVIOUS
<1>1. MonthsInv'
  BY MonthsStep DEF OwnersInv
<1>2. CASE UNCHANGED <<category, form>>
  <2>1. \A c, o : Said(c, o)' => Said(c, o)
    BY <1>2, SameSaid
  <2>2. OneOwner'
    BY <2>1, NothingNewSaid DEF OwnersInv
  <2> QED
    BY <1>1, <1>2, <2>2 DEF OwnersInv, ParentsStay
<1>3. CASE CategoriesNext
  BY <1>1, <1>3, CreateOwner, LoadOwner, SaveOwner, DeleteOwner
     DEF CategoriesNext, OwnersInv
<1>4. CASE MonthsNext
  <2>1. ASSUME NEW k \in PressIds, InsertPlans(k)
        PROVE  UNCHANGED <<category, form>>
    BY <2>1 DEF InsertPlans
  <2>2. ASSUME NEW k \in PressIds,
               ReadLast(k) \/ EnsureDates(k) \/ ReadPlans(k) \/ PressDies(k)
        PROVE  UNCHANGED <<category, form>>
    BY <2>2 DEF ReadLast, EnsureDates, ReadPlans, PressDies
  <2>3. UNCHANGED <<category, form>>
    BY <1>4, <2>1, <2>2 DEF MonthsNext, Register, Press
  <2> QED
    BY <1>2, <2>3
<1>5. CASE PlansNext
  BY <1>2, <1>5 DEF PlansNext, SavePlan
<1>6. CASE AmountsNext
  BY <1>2, <1>6 DEF AmountsNext, Spend, SaveLimit
<1>7. CASE UNCHANGED budgetVars
  BY <1>2, <1>7 DEF budgetVars
<1> QED
  BY <1>3, <1>4, <1>5, <1>6, <1>7 DEF Next, BudgetNext, vars

LEMMA OwnersStart == BudgetInit => OwnersInv
<1> SUFFICES ASSUME BudgetInit PROVE OwnersInv
  OBVIOUS
<1>1. DOMAIN category = {} /\ \A f \in FormIds : form[f].at = "idle"
  BY DEF BudgetInit, Empty, Idle
<1>2. OneOwner /\ ParentsStay
  BY <1>1 DEF OneOwner, Said, ParentsStay
<1> QED
  BY <1>2, MonthsStart DEF OwnersInv

(* A parent is a category of the same user and of the same type.             *)
LEMMA ParentsFit ==
    ASSUME OwnersInv, NEW c \in DOMAIN category, category[c].parent # NoCategory
    PROVE  LET p == category[c].parent IN
           /\ p \in DOMAIN category
           /\ category[p].user = category[c].user
           /\ category[p].type = category[c].type
<1>1. PICK p : p = category[c].parent
  OBVIOUS
<1>2. p \in DOMAIN category /\ p # NoCategory
  BY <1>1 DEF OwnersInv, ParentsStay
<1>3. Names(c, category[c], p) /\ Names(p, category[p], p)
  BY <1>1, <1>2 DEF Names
<1>4. Said(p, OwnerOf(category[c])) /\ Said(p, OwnerOf(category[p]))
  BY <1>2, <1>3 DEF Said
<1>5. OwnerOf(category[c]) = OwnerOf(category[p])
  BY <1>4 DEF OwnersInv, OneOwner
<1> QED
  BY <1>1, <1>2, <1>5 DEF OwnerOf

-----------------------------------------------------------------------------
(* The rows of a table of the budget.                                        *)
LEMMA SpentAmounts ==
    ASSUME CategoryTables, NEW m \in Months
    PROVE  \A c \in Categories : SpentIn(m)[c] = spent[c][m] /\ SpentIn(m)[c] \in Nat
BY DEF SpentIn, CategoryTables

LEMMA MonthsShown ==
    ASSUME MonthTables, NEW S \in SUBSET Users
    PROVE  MonthsOf(S) \subseteq Months
BY DEF MonthsOf, MonthTables, Dates

LEMMA ScopesAreUsers == ScopesShown \subseteq SUBSET Users
BY DEF ScopesShown, Scopes, FamilyUsers

Mine(S, t) == UNION {CategoriesOf(u, t) : u \in S}

LEMMA RootsAreMine ==
    ASSUME NEW S, NEW t
    PROVE  /\ Roots(S, t) = {c \in Mine(S, t) : category[c].parent = NoCategory}
           /\ Mine(S, t) = {c \in DOMAIN category :
                                category[c].user \in S /\ category[c].type = t}
BY DEF Roots, Mine, CategoriesOf

LEMMA FiniteTables ==
    ASSUME CategoryTables, NEW S, NEW t
    PROVE  /\ DOMAIN category \subseteq Categories
           /\ IsFiniteSet(DOMAIN category)
           /\ IsFiniteSet(Mine(S, t)) /\ Mine(S, t) \subseteq Categories
           /\ IsFiniteSet(Roots(S, t)) /\ Roots(S, t) \subseteq Mine(S, t)
<1>1. DOMAIN category \subseteq Categories
  BY DEF CategoryTables, Table
<1>2. Mine(S, t) \subseteq DOMAIN category /\ Roots(S, t) \subseteq Mine(S, t)
  BY RootsAreMine
<1>3. IsFiniteSet(DOMAIN category)
  BY <1>1, FS_Subset
<1>4. IsFiniteSet(Mine(S, t))
  BY <1>2, <1>3, FS_Subset
<1>5. IsFiniteSet(Roots(S, t))
  BY <1>2, <1>4, FS_Subset
<1> QED
  BY <1>1, <1>2, <1>3, <1>4, <1>5

(* The categories whose spending is on the row of a root.                    *)
OnRow(S, t, root) ==
    {c \in WithChildren(root) : category[c].user \in S /\ category[c].type = t}
RowsOf(S, t) == [root \in Roots(S, t) |-> OnRow(S, t, root)]

LEMMA RowOfRoot ==
    ASSUME OwnersInv, NEW S, NEW t, NEW root \in Roots(S, t)
    PROVE  OnRow(S, t, root) = {c \in Mine(S, t) : c = root \/ category[c].parent = root}
<1>1. root \in Mine(S, t)
  BY RootsAreMine
<1> QED
  BY <1>1, RootsAreMine DEF OnRow, WithChildren, ChildrenOf

LEMMA RowsApart ==
    ASSUME OwnersInv, NEW S, NEW t
    PROVE  /\ Disjoint(RowsOf(S, t), Roots(S, t))
           /\ AllOf(RowsOf(S, t), Roots(S, t)) = {c \in Mine(S, t) : ~Nested(c)}
<1>0. CategoryTables
  BY DEF OwnersInv, MonthsInv
<1>1. \A root \in Roots(S, t) :
        /\ RowsOf(S, t)[root] = {c \in Mine(S, t) : c = root \/ category[c].parent = root}
        /\ category[root].parent = NoCategory
        /\ root \in Categories
  BY <1>0, RowOfRoot, RootsAreMine, FiniteTables DEF RowsOf
<1>2. Disjoint(RowsOf(S, t), Roots(S, t))
  <2> SUFFICES ASSUME NEW r \in Roots(S, t), NEW q \in Roots(S, t), r # q,
                      NEW c, c \in RowsOf(S, t)[r] \cap RowsOf(S, t)[q]
               PROVE  FALSE
    BY DEF Disjoint
  <2>1. /\ c = r \/ category[c].parent = r
        /\ c = q \/ category[c].parent = q
    BY <1>1
  <2>2. r # NoCategory /\ q # NoCategory
    BY <1>1
  <2> QED
    BY <1>1, <2>1, <2>2
<1>3. ASSUME NEW c \in Mine(S, t), ~Nested(c)
      PROVE  \E root \in Roots(S, t) : c \in RowsOf(S, t)[root]
  <2>1. CASE category[c].parent = NoCategory
    <3>1. c \in Roots(S, t)
      BY <2>1, RootsAreMine
    <3> QED
      BY <3>1, <1>1
  <2>2. CASE category[c].parent # NoCategory
    <3>1. PICK p : p = category[c].parent
      OBVIOUS
    <3>2. category[p].parent = NoCategory
      BY <3>1, <2>2, <1>3 DEF Nested
    <3>3. c \in DOMAIN category
      BY RootsAreMine
    <3>4. p \in DOMAIN category /\ category[p].user = category[c].user
          /\ category[p].type = category[c].type
      BY <3>1, <3>3, <2>2, ParentsFit
    <3>5. p \in Roots(S, t)
      BY <3>2, <3>4, RootsAreMine
    <3> QED
      BY <3>1, <3>5, <1>1
  <2> QED
    BY <2>1, <2>2
<1>4. ASSUME NEW root \in Roots(S, t), NEW c \in RowsOf(S, t)[root]
      PROVE  c \in Mine(S, t) /\ ~Nested(c)
  BY <1>1 DEF Nested
<1>5. AllOf(RowsOf(S, t), Roots(S, t)) = {c \in Mine(S, t) : ~Nested(c)}
  BY <1>3, <1>4 DEF AllOf
<1> QED
  BY <1>2, <1>5

LEMMA FactCounted ==
    ASSUME OwnersInv, NEW S, NEW t, NEW m \in Months
    PROVE  /\ Sums(S, t, m).fact =
                SumFunctionOnSet(SpentIn(m), {c \in Mine(S, t) : ~Nested(c)})
           /\ Sums(S, t, m).fact \in Nat
           /\ \A root \in Roots(S, t) : Fact(S, t, root, m) \in Nat
<1> DEFINE f == SpentIn(m)
           R == Roots(S, t)
           P == RowsOf(S, t)
           g == [root \in R |-> Fact(S, t, root, m)]
<1>0. CategoryTables
  BY DEF OwnersInv, MonthsInv
<1>1. IsFiniteSet(R) /\ IsFiniteSet(Mine(S, t)) /\ Mine(S, t) \subseteq Categories
  BY <1>0, FiniteTables
<1>2. \A c \in Categories : f[c] \in Nat
  BY <1>0, SpentAmounts
<1>3. Disjoint(P, R) /\ AllOf(P, R) = {c \in Mine(S, t) : ~Nested(c)}
  BY RowsApart
<1>4. \A root \in R : P[root] \subseteq Mine(S, t)
  BY <1>3 DEF AllOf
<1>5. ASSUME NEW root \in R
      PROVE  /\ IsFiniteSet(P[root]) /\ g[root] = SumFunctionOnSet(f, P[root])
             /\ \A c \in P[root] : f[c] \in Nat
             /\ Fact(S, t, root, m) = SumFunctionOnSet(f, P[root])
             /\ Fact(S, t, root, m) \in Nat
  <2>1. IsFiniteSet(P[root])
    BY <1>1, <1>4, FS_Subset
  <2>2. \A c \in P[root] : f[c] \in Nat
    BY <1>1, <1>2, <1>4
  <2>3. P[root] = OnRow(S, t, root)
    BY DEF RowsOf
  <2>4. Fact(S, t, root, m) = SumFunctionOnSet(f, P[root])
    BY <2>3 DEF Fact, OnRow
  <2>5. SumFunctionOnSet(f, P[root]) \in Nat
    <3> HIDE DEF f, P
    <3> QED
      BY <2>1, <2>2, SumIsNat
  <2> QED
    BY <2>1, <2>2, <2>4, <2>5
<1>6. Sums(S, t, m).fact = SumFunctionOnSet(g, R)
  BY DEF Sums, SumFunction
<1> HIDE DEF f, P, g, R
<1>7. InParts(f, g, P, R)
  BY <1>1, <1>3, <1>5 DEF InParts
<1>8. SumFunctionOnSet(g, R) = SumFunctionOnSet(f, AllOf(P, R))
  BY <1>7, SumOfParts
<1>9. \A root \in R : g[root] \in Nat
  BY <1>5
<1>10. SumFunctionOnSet(g, R) \in Nat
  BY <1>1, <1>9, SumIsNat
<1> QED
  BY <1>3, <1>5, <1>6, <1>8, <1>10 DEF f, R

LEMMA PlanCounted ==
    ASSUME OwnersInv, NEW S, NEW t, NEW m \in Months
    PROVE  /\ Sums(S, t, m).plan =
                SumFunctionOnSet(plans,
                    DOMAIN plans \cap (Roots(S, t) \X {<<m, "first">>}))
           /\ Sums(S, t, m).plan \in Nat
<1> DEFINE R == Roots(S, t)
           P == [r \in R |-> DOMAIN plans \cap {<<r, <<m, "first">>>>}]
           g == [r \in R |-> Plan(r, m)]
<1>0. CategoryTables
  BY DEF OwnersInv, MonthsInv
<1>1. IsFiniteSet(R)
  BY <1>0, FiniteTables
<1>2. \A k \in DOMAIN plans : plans[k] \in Nat
  BY <1>0 DEF CategoryTables, Table
<1>3. ASSUME NEW r \in R
      PROVE  /\ IsFiniteSet(P[r]) /\ g[r] = SumFunctionOnSet(plans, P[r])
             /\ \A k \in P[r] : plans[k] \in Int
             /\ g[r] \in Nat
  <2>0. PICK k : k = <<r, <<m, "first">>>>
    OBVIOUS
  <2>1. CASE k \in DOMAIN plans
    <3>1. P[r] = {k} /\ g[r] = plans[k] /\ plans[k] \in Nat
      BY <2>0, <2>1, <1>2 DEF Plan
    <3>2. IsFiniteSet({k})
      BY FS_Singleton
    <3>3. SumFunctionOnSet(plans, {k}) = plans[k]
      <4>1. plans[k] \in Int
        BY <3>1
      <4> QED
        BY <4>1, SumOfOne
    <3>4. /\ IsFiniteSet(P[r]) /\ g[r] = SumFunctionOnSet(plans, P[r])
          /\ \A x \in P[r] : plans[x] \in Int
          /\ g[r] \in Nat
      <4> HIDE DEF P, g
      <4> QED
        BY <3>1, <3>2, <3>3
    <3> QED
      BY <3>4
  <2>2. CASE k \notin DOMAIN plans
    <3>1. P[r] = {} /\ g[r] = 0
      BY <2>0, <2>2 DEF Plan
    <3>2. IsFiniteSet({}) /\ SumFunctionOnSet(plans, {}) = 0
      BY SumOfNone, FS_EmptySet
    <3>3. /\ IsFiniteSet(P[r]) /\ g[r] = SumFunctionOnSet(plans, P[r])
          /\ \A x \in P[r] : plans[x] \in Int
          /\ g[r] \in Nat
      <4> HIDE DEF P, g
      <4> QED
        BY <3>1, <3>2
    <3> QED
      BY <3>3
  <2> QED
    BY <2>1, <2>2
<1>4. Disjoint(P, R)
  BY DEF Disjoint
<1>5. AllOf(P, R) = DOMAIN plans \cap (R \X {<<m, "first">>})
  <2>1. ASSUME NEW k PROVE k \in AllOf(P, R) <=>
                \E r \in R : k \in DOMAIN plans /\ k = <<r, <<m, "first">>>>
    BY DEF AllOf
  <2>2. ASSUME NEW k PROVE k \in R \X {<<m, "first">>} <=>
                \E r \in R : k = <<r, <<m, "first">>>>
    OBVIOUS
  <2> QED
    BY <2>1, <2>2
<1>6. Sums(S, t, m).plan = SumFunctionOnSet(g, R)
  BY DEF Sums, SumFunction
<1> HIDE DEF P, g, R
<1>9. InParts(plans, g, P, R)
  BY <1>1, <1>3, <1>4 DEF InParts
<1>7. SumFunctionOnSet(g, R) = SumFunctionOnSet(plans, AllOf(P, R))
  BY <1>9, SumOfParts
<1>8. SumFunctionOnSet(g, R) \in Nat
  BY <1>1, <1>3, SumIsNat
<1> QED
  BY <1>5, <1>6, <1>7, <1>8 DEF R

(* The quotient rounds down.                                                 *)
LEMMA Quotient ==
    ASSUME NEW a \in Nat, NEW b \in Nat, b > 0, NEW k \in Nat
    PROVE  /\ a >= k * b => a \div b >= k
           /\ a <= k * b => a \div b <= k
<1>1. PICK q : q = a \div b
  OBVIOUS
<1>2. q \in Nat /\ q * b <= a /\ a < q * b + b
  BY <1>1, Z3
<1>3. ASSUME a >= k * b, q + 1 <= k PROVE FALSE
  <2>1. (q + 1) * b <= k * b
    BY <1>2, <1>3
  <2>2. (q + 1) * b = q * b + b
    BY <1>2
  <2> QED
    BY <1>2, <1>3, <2>1, <2>2
<1>4. ASSUME a <= k * b, k + 1 <= q PROVE FALSE
  <2>1. (k + 1) * b <= q * b
    BY <1>2, <1>4
  <2>2. (k + 1) * b = k * b + b
    OBVIOUS
  <2> QED
    BY <1>2, <1>4, <2>1, <2>2
<1> QED
  BY <1>1, <1>2, <1>3, <1>4

LEMMA ChartAgrees ==
    ASSUME NEW t \in Types, NEW fact \in Nat, NEW plan \in Nat,
           NEW sum, sum = [fact |-> fact, plan |-> plan]
    PROVE  /\ Status(t, sum) = "over" => ChartPercent(sum) >= 100
           /\ Status(t, sum) = "warning" => ChartPercent(sum) \in 80 .. 100
<1>1. CASE plan = 0
  BY <1>1 DEF Status
<1>2. CASE plan > 0
  <2>1. PICK p : p = (100 * fact) \div plan
    OBVIOUS
  <2>2. ChartPercent(sum) = p
    BY <1>2, <2>1 DEF ChartPercent
  <2>3. /\ 100 * fact >= 100 * plan => p >= 100
        /\ 100 * fact >= 80 * plan => p >= 80
        /\ 100 * fact <= 100 * plan => p <= 100
    BY <1>2, <2>1, Quotient
  <2>4. p \in Int
    BY <1>2, <2>1
  <2>5. Status(t, sum) = "over" => 100 * fact >= 100 * plan
    BY <1>2 DEF Status
  <2>6. Status(t, sum) = "warning" =>
            100 * fact >= 80 * plan /\ 100 * fact <= 100 * plan
    BY <1>2 DEF Status, Types
  <2> QED
    BY <2>2, <2>3, <2>4, <2>5, <2>6
<1> QED
  BY <1>1, <1>2

TotalCounted(S, t, m, total) ==
    /\ total.fact = SumFunctionOnSet(SpentIn(m), {c \in Mine(S, t) : ~Nested(c)})
    /\ total.plan = SumFunctionOnSet(plans,
                        DOMAIN plans \cap (Roots(S, t) \X {<<m, "first">>}))
    /\ Status(t, total) = "over" => ChartPercent(total) >= 100
    /\ Status(t, total) = "warning" => ChartPercent(total) \in 80 .. 100

LEMMA TotalsCounted ==
    ASSUME \A S \in ScopesShown, t \in Types : \A m \in MonthsOf(S) :
             \A total \in {BudgetPage(S, m)[t]} : TotalCounted(S, t, m, total)
    PROVE  RowsCounted
<1>1. \A S, t : /\ Mine(S, t) = UNION {CategoriesOf(u, t) : u \in S}
               /\ Roots(S, t) = {c \in Mine(S, t) : category[c].parent = NoCategory}
  BY RootsAreMine DEF Mine
<1>2. ASSUME NEW S, NEW t, NEW m, NEW total
      PROVE  TotalCounted(S, t, m, total) <=>
                LET mine == UNION {CategoriesOf(u, t) : u \in S}
                    roots == {c \in mine : category[c].parent = NoCategory}
                    percent == ChartPercent(total)
                    cell == Status(t, total)
                IN  /\ total.fact = SumFunctionOnSet(SpentIn(m),
                                        {c \in mine : ~Nested(c)})
                    /\ total.plan = SumFunctionOnSet(plans,
                            DOMAIN plans \cap (roots \X {<<m, "first">>}))
                    /\ cell = "over" => percent >= 100
                    /\ cell = "warning" => percent \in 80 .. 100
  <2>1. Mine(S, t) = UNION {CategoriesOf(u, t) : u \in S}
    BY <1>1
  <2>2. Roots(S, t) = {c \in UNION {CategoriesOf(u, t) : u \in S} :
                            category[c].parent = NoCategory}
    BY <1>1
  <2> QED
    BY <2>1, <2>2, Zenon DEF TotalCounted
<1>3. SUFFICES ASSUME NEW S \in ScopesShown, NEW t \in Types, NEW m \in MonthsOf(S),
                      NEW total \in {BudgetPage(S, m)[t]}
               PROVE  LET mine == UNION {CategoriesOf(u, t) : u \in S}
                          roots == {c \in mine : category[c].parent = NoCategory}
                          percent == ChartPercent(total)
                          cell == Status(t, total)
                      IN  /\ total.fact = SumFunctionOnSet(SpentIn(m),
                                        {c \in mine : ~Nested(c)})
                          /\ total.plan = SumFunctionOnSet(plans,
                                DOMAIN plans \cap (roots \X {<<m, "first">>}))
                          /\ cell = "over" => percent >= 100
                          /\ cell = "warning" => percent \in 80 .. 100
  BY Zenon DEF RowsCounted
<1>4. TotalCounted(S, t, m, total)
  OBVIOUS
<1> QED
  BY <1>2, <1>4, Zenon

LEMMA RowsAreCounted == OwnersInv => RowsCounted
<1> SUFFICES ASSUME OwnersInv, NEW S \in ScopesShown, NEW t \in Types,
                    NEW m \in MonthsOf(S), NEW total \in {BudgetPage(S, m)[t]}
             PROVE  TotalCounted(S, t, m, total)
  BY TotalsCounted
<1>1. m \in Months
  BY ScopesAreUsers, MonthsShown DEF OwnersInv, MonthsInv
<1>2. BudgetPage(S, m)[t] = Sums(S, t, m)
  BY DEF BudgetPage
<1>3. PICK fact, plan : /\ fact = Sums(S, t, m).fact /\ plan = Sums(S, t, m).plan
                        /\ Sums(S, t, m) = [fact |-> fact, plan |-> plan]
  BY DEF Sums
<1>4. fact \in Nat /\ plan \in Nat
  BY <1>1, <1>3, FactCounted, PlanCounted
<1>5. total = Sums(S, t, m)
  BY <1>2
<1>6. /\ Status(t, total) = "over" => ChartPercent(total) >= 100
      /\ Status(t, total) = "warning" => ChartPercent(total) \in 80 .. 100
  BY <1>3, <1>4, <1>5, ChartAgrees
<1>7. /\ total.fact = SumFunctionOnSet(SpentIn(m), {c \in Mine(S, t) : ~Nested(c)})
      /\ total.plan = SumFunctionOnSet(plans,
                        DOMAIN plans \cap (Roots(S, t) \X {<<m, "first">>}))
  BY <1>1, <1>5, FactCounted, PlanCounted
<1> QED
  BY <1>6, <1>7 DEF TotalCounted

(* Whoever moves categories in the tree while another deletes, spends or     *)
(* plans: a total of the page counts each transaction of its month once, but *)
(* those of nested categories, and the chart agrees with the status of its   *)
(* bar (budget/services/budget.py).                                          *)
THEOREM EveryRowCounted == Spec => []RowsCounted
<1>1. Spec => []OwnersInv
  BY OwnersStart, OwnersStep, PTL DEF Spec
<1> QED
  BY <1>1, RowsAreCounted, PTL

-----------------------------------------------------------------------------
(* The limits.  A use that has not been rounded up reaches a whole per cent  *)
(* just when the amount does.                                                *)
LEMMA RoundedUse ==
    ASSUME NEW a \in Nat, NEW b \in Nat, NEW h \in Nat, b > 0,
           ~(Usage(a, b) * b > 1000 * a)
    PROVE  Usage(a, b) >= 10 * h <=> 100 * a >= h * b
<1>1. PICK q : q = Usage(a, b)
  OBVIOUS
<1>2. q = (2000 * a + b) \div (2 * b)
  BY <1>1 DEF Usage
<1>3. q \in Int
  BY <1>2
<1>4. 2000 * a + b \in Nat /\ 2 * b \in Nat /\ 2 * b > 0 /\ 10 * h \in Nat
  OBVIOUS
<1>5. 2000 * a + b >= (10 * h) * (2 * b) => q >= 10 * h
  BY <1>2, <1>4, Quotient
<1>6. (10 * h) * (2 * b) = 20 * (h * b) /\ h * b \in Nat
  OBVIOUS
<1>7. ASSUME 100 * a >= h * b PROVE q >= 10 * h
  BY <1>5, <1>6, <1>7
<1>8. ASSUME q >= 10 * h PROVE 100 * a >= h * b
  <2>1. (10 * h) * b <= q * b
    BY <1>3, <1>8
  <2>2. q * b \in Int /\ q * b <= 1000 * a
    BY <1>1, <1>3
  <2>3. (10 * h) * b = 10 * (h * b)
    OBVIOUS
  <2> QED
    BY <1>6, <2>1, <2>2, <2>3
<1> QED
  BY <1>1, <1>7, <1>8

LimitRow(k, u, c, m, n, h) ==
    /\ k = <<u, c, m>> /\ limits[k] = [limit |-> n, threshold |-> h]
    /\ n \in Nat /\ h \in 1 .. 100

LEMMA LimitRows ==
    ASSUME CategoryTables, NEW k \in DOMAIN limits
    PROVE  \E u \in Users, c \in DOMAIN category \cup {NoCategory}, m \in Months,
              n \in LimitAmounts, h \in Thresholds : LimitRow(k, u, c, m, n, h)
<1>1. k \in Users \X (DOMAIN category \cup {NoCategory}) \X Months
  BY DEF CategoryTables, Table
<1>2. limits[k] \in [limit : LimitAmounts, threshold : Thresholds]
  BY DEF CategoryTables, Table
<1>3. PICK n \in LimitAmounts, h \in Thresholds :
        limits[k] = [limit |-> n, threshold |-> h]
  BY <1>2
<1>4. n \in Nat /\ h \in 1 .. 100
  OBVIOUS
<1>5. PICK u \in Users, c \in DOMAIN category \cup {NoCategory}, m \in Months :
        k = <<u, c, m>>
  <2>1. /\ k[1] \in Users /\ k[2] \in DOMAIN category \cup {NoCategory}
        /\ k[3] \in Months /\ k = <<k[1], k[2], k[3]>>
    BY <1>1
  <2> QED
    BY <2>1
<1>6. LimitRow(k, u, c, m, n, h)
  BY <1>3, <1>4, <1>5 DEF LimitRow
<1> QED
  BY <1>6

LEMMA MineAlone == ASSUME NEW u, NEW t PROVE Mine({u}, t) = CategoriesOf(u, t)
<1>1. \A x : x \in Mine({u}, t) <=> x \in CategoriesOf(u, t)
  BY Zenon DEF Mine
<1> QED
  BY <1>1

LEMMA SpentSum ==
    ASSUME CategoryTables, NEW m \in Months, NEW S \in SUBSET Categories
    PROVE  IsFiniteSet(S) /\ SumFunctionOnSet(SpentIn(m), S) \in Nat
<1>1. IsFiniteSet(S)
  BY FS_Subset
<1>2. \A c \in S : SpentIn(m)[c] \in Nat
  BY SpentAmounts
<1> QED
  BY <1>1, <1>2, SumIsNat

LEMMA ActualIsNat ==
    ASSUME CategoryTables, NEW u, NEW c, NEW m \in Months
    PROVE  Actual(u, c, m) \in Nat
<1>1. {d \in CategoriesOf(u, "expense") : c \in {NoCategory, d}} \in SUBSET Categories
  BY FiniteTables DEF CategoriesOf
<1> QED
  BY <1>1, SpentSum DEF Actual

(* The statistics say what the page would say of the same amount.            *)
LEMMA StatisticsAsProgress ==
    ASSUME CategoryTables, NEW u, NEW c, NEW m \in Months, NEW n, NEW h,
           NEW k, LimitRow(k, u, c, m, n, h), ~Apart(u, c, m)
    PROVE  StatisticsStatus(u, c, m) = Progress(Actual(u, c, m), n, h)
<1>0. /\ n \in Nat /\ h \in 1 .. 100
      /\ limits[<<u, c, m>>] = [limit |-> n, threshold |-> h]
  BY DEF LimitRow
<1> USE <1>0
<1>1. PICK a : a = Actual(u, c, m)
  OBVIOUS
<1>2. a \in Nat
  BY <1>1, ActualIsNat
<1>3. PICK q : q = Usage(a, n)
  OBVIOUS
<1>4. StatisticsStatus(u, c, m) =
        IF q >= 1000 THEN "over"
        ELSE IF q >= 10 * h THEN "warning"
        ELSE IF n = 0 THEN "empty"
        ELSE "ok"
  BY <1>1, <1>3 DEF StatisticsStatus
<1>5. CASE n = 0
  <2>1. q = 0
    BY <1>3, <1>5 DEF Usage
  <2> QED
    BY <1>1, <1>4, <1>5, <2>1 DEF Progress
<1>6. CASE n > 0
  <2>1. ~(Usage(a, n) * n > 1000 * a)
    BY <1>1, <1>6 DEF Apart
  <2>5. \A i \in Nat : Usage(a, n) >= 10 * i <=> 100 * a >= i * n
    BY <1>2, <1>6, <2>1, RoundedUse
  <2>2. q >= 10 * h <=> 100 * a >= h * n
    BY <1>3, <2>5
  <2>3. q >= 10 * 100 <=> 100 * a >= 100 * n
    BY <1>3, <2>5
  <2>4. q >= 1000 <=> a >= n
    BY <1>2, <2>3
  <2> QED
    BY <1>1, <1>4, <1>6, <2>2, <2>4 DEF Progress
<1> QED
  BY <1>5, <1>6

LEMMA MaxIsThere ==
    ASSUME NEW S \in SUBSET Int, NEW x \in S, \A y \in S : y <= x
    PROVE  Max(S) = x
<1> DEFINE Top(z) == z \in S /\ \A y \in S : z >= y
<1>1. Top(x)
  OBVIOUS
<1>2. \A z : Top(z) => z = x
  <2> SUFFICES ASSUME NEW z, Top(z) PROVE z = x
    OBVIOUS
  <2>1. z \in Int /\ x \in Int /\ z >= x /\ z <= x
    OBVIOUS
  <2> QED
    BY <2>1
<1>3. Max(S) = CHOOSE z : Top(z)
  BY DEF Max
<1> QED
  BY <1>1, <1>2, <1>3

(* One limit of everything for one user: the page and the statistics agree.  *)
LEMMA MonthlyAgrees ==
    ASSUME OwnersInv, NEW u \in Users, NEW m \in Months, NEW n, NEW h,
           NEW k \in DOMAIN limits, LimitRow(k, u, NoCategory, m, n, h),
           ~Apart(u, NoCategory, m)
    PROVE  MonthlyLimit({u}, m) = Progress(Actual(u, NoCategory, m), n, h)
<1>0. CategoryTables
  BY DEF OwnersInv, MonthsInv
<1>1. /\ k = <<u, NoCategory, m>> /\ n \in Nat /\ h \in 1 .. 100
      /\ limits[k] = [limit |-> n, threshold |-> h]
  BY DEF LimitRow
<1> USE <1>1
<1>2. LimitsOfAll({u}, m) = {k}
  <2>1. ASSUME NEW x \in DOMAIN limits, x[1] = u, x[2] = NoCategory, x[3] = m
        PROVE  x = k
    <3>1. PICK w \in Users, d \in DOMAIN category \cup {NoCategory}, o \in Months :
            x = <<w, d, o>>
      BY <1>0, LimitRows DEF LimitRow
    <3> QED
      BY <1>1, <2>1, <3>1
  <2> QED
    BY <1>1, <2>1 DEF LimitsOfAll
<1>3. SumFunction([x \in {k} |-> limits[x].limit]) = n
  <2>1. PICK f : f = [x \in {k} |-> limits[x].limit]
    OBVIOUS
  <2>2. f[k] = n /\ DOMAIN f = {k}
    BY <1>1, <2>1
  <2>3. SumFunctionOnSet(f, {k}) = n
    BY <2>2, SumOfOne
  <2> QED
    BY <2>1, <2>2, <2>3 DEF SumFunction
<1>4. Max({80} \cup {limits[x].threshold : x \in {k}}) = h
  <2>1. {80} \cup {limits[x].threshold : x \in {k}} = {80, h}
    BY <1>1
  <2>2. h >= 80
    BY <1>1 DEF Apart
  <2>3. Max({80, h}) = h
    BY <2>2, MaxIsThere
  <2> QED
    BY <2>1, <2>3
<1>5. Sums({u}, "expense", m).fact = Actual(u, NoCategory, m)
  <2> DEFINE M == Mine({u}, "expense")
             N == {c \in M : ~Nested(c)}
  <2>1. Sums({u}, "expense", m).fact = SumFunctionOnSet(SpentIn(m), N)
    BY FactCounted
  <2>2. M = CategoriesOf(u, "expense") /\ M \subseteq Categories /\ IsFiniteSet(M)
    BY <1>0, FiniteTables, MineAlone
  <2>3. {d \in CategoriesOf(u, "expense") : NoCategory \in {NoCategory, d}} = M
    BY <2>2
  <2>4. Actual(u, NoCategory, m) = SumFunctionOnSet(SpentIn(m), M)
    BY <2>3 DEF Actual
  <2>5. \A d \in M \ N : SpentIn(m)[d] = 0
    <3> SUFFICES ASSUME NEW d \in M \ N PROVE SpentIn(m)[d] = 0
      OBVIOUS
    <3>0. d \in CategoriesOf(u, "expense") /\ Nested(d)
      BY <2>2
    <3>1. ~(spent[d][m] > 0)
      BY <3>0 DEF Apart
    <3>2. SpentIn(m)[d] = spent[d][m] /\ spent[d][m] \in Nat
      BY <1>0, <2>2, SpentAmounts
    <3> QED
      BY <3>1, <3>2
  <2>6. \A d \in N : SpentIn(m)[d] \in Int
    BY <1>0, <2>2, SpentAmounts
  <2>7. N \in SUBSET M
    OBVIOUS
  <2> HIDE DEF M, N
  <2>8. SumFunctionOnSet(SpentIn(m), M) = SumFunctionOnSet(SpentIn(m), N)
    BY <2>2, <2>5, <2>6, <2>7, SumOfRest
  <2> QED
    BY <2>1, <2>4, <2>8
<1> QED
  BY <1>2, <1>3, <1>4, <1>5 DEF MonthlyLimit

(* One limit of a root without spending below: the pages agree with the      *)
(* statistics.                                                               *)
RootLimits(S, root, m) == {k \in DOMAIN limits : k[1] \in S /\ k[2] = root /\ k[3] = m}

LEMMA CategoryAgrees ==
    ASSUME OwnersInv, NEW u \in Users, NEW c \in Roots({u}, "expense"),
           NEW m \in Months, NEW n, NEW h,
           NEW k \in DOMAIN limits, LimitRow(k, u, c, m, n, h), ~Apart(u, c, m)
    PROVE  CategoryLimit({u}, c, m) = Progress(Actual(u, c, m), n, h)
<1>0. CategoryTables
  BY DEF OwnersInv, MonthsInv
<1>1. /\ k = <<u, c, m>> /\ n \in Nat /\ h \in 1 .. 100
      /\ limits[k] = [limit |-> n, threshold |-> h]
  BY DEF LimitRow
<1> USE <1>1
<1>2. {x \in DOMAIN limits : x[1] \in {u} /\ x[2] = c /\ x[3] = m} = {k}
  <2>1. ASSUME NEW x \in DOMAIN limits, x[1] = u, x[2] = c, x[3] = m
        PROVE  x = k
    <3>1. PICK w \in Users, d \in DOMAIN category \cup {NoCategory}, o \in Months :
            x = <<w, d, o>>
      BY <1>0, LimitRows DEF LimitRow
    <3> QED
      BY <1>1, <2>1, <3>1
  <2> QED
    BY <1>1, <2>1
<1>3. /\ c \in CategoriesOf(u, "expense") /\ c \in Mine({u}, "expense")
      /\ c \in Categories /\ c # NoCategory /\ Mine({u}, "expense") \subseteq Categories
      /\ CategoriesOf(u, "expense") = Mine({u}, "expense")
  BY <1>0, FiniteTables, MineAlone
<1>4. Actual(u, c, m) = SpentIn(m)[c] /\ SpentIn(m)[c] \in Nat
  <2>1. {d \in CategoriesOf(u, "expense") : c \in {NoCategory, d}} = {c}
    BY <1>3
  <2>2. SpentIn(m)[c] \in Nat /\ SpentIn(m)[c] \in Int
    BY <1>0, <1>3, SpentAmounts
  <2>3. SumFunctionOnSet(SpentIn(m), {c}) = SpentIn(m)[c]
    BY <2>2, SumOfOne
  <2> QED
    BY <2>1, <2>2, <2>3 DEF Actual
<1>5. Fact({u}, "expense", c, m) = SpentIn(m)[c]
  <2> DEFINE R == OnRow({u}, "expense", c)
  <2>1. R = {d \in Mine({u}, "expense") : d = c \/ category[d].parent = c}
    BY RowOfRoot
  <2>2. IsFiniteSet(R) /\ {c} \in SUBSET R /\ R \subseteq Categories
    <3>1. IsFiniteSet(Mine({u}, "expense"))
      BY <1>0, FiniteTables
    <3> QED
      BY <1>3, <2>1, <3>1, FS_Subset
  <2>3. \A d \in R \ {c} : SpentIn(m)[d] = 0
    <3> SUFFICES ASSUME NEW d \in R \ {c} PROVE SpentIn(m)[d] = 0
      OBVIOUS
    <3>0. d \in Mine({u}, "expense") /\ category[d].parent = c
      BY <2>1
    <3>4. d \in DOMAIN category
      BY <3>0, RootsAreMine
    <3>1. d \in ChildrenOf(c)
      BY <3>0, <3>4 DEF ChildrenOf
    <3>2. ~(spent[d][m] > 0)
      BY <1>3, <3>1 DEF Apart
    <3>3. SpentIn(m)[d] = spent[d][m] /\ spent[d][m] \in Nat
      BY <1>0, <2>2, SpentAmounts
    <3> QED
      BY <3>2, <3>3
  <2>4. \A d \in {c} : SpentIn(m)[d] \in Int
    BY <1>4
  <2>5. Fact({u}, "expense", c, m) = SumFunctionOnSet(SpentIn(m), R)
    BY DEF Fact, OnRow
  <2> HIDE DEF R
  <2>6. SumFunctionOnSet(SpentIn(m), R) = SumFunctionOnSet(SpentIn(m), {c})
    BY <2>2, <2>3, <2>4, SumOfRest
  <2>7. SpentIn(m)[c] \in Int
    BY <1>4
  <2>8. SumFunctionOnSet(SpentIn(m), {c}) = SpentIn(m)[c]
    BY <2>7, SumOfOne
  <2> QED
    BY <2>5, <2>6, <2>8
<1>6. PICK ks : ks = RootLimits({u}, c, m)
  OBVIOUS
<1>7. CategoryLimit({u}, c, m) =
        IF ks = {} THEN Progress(Fact({u}, "expense", c, m), 0, 80)
        ELSE Progress(Fact({u}, "expense", c, m), limits[Picked(ks)].limit,
                      limits[Picked(ks)].threshold)
  <2>1. CategoryLimit({u}, c, m) =
            IF RootLimits({u}, c, m) = {}
            THEN Progress(Fact({u}, "expense", c, m), 0, 80)
            ELSE Progress(Fact({u}, "expense", c, m),
                          limits[Picked(RootLimits({u}, c, m))].limit,
                          limits[Picked(RootLimits({u}, c, m))].threshold)
    BY DEF CategoryLimit, RootLimits, Picked
  <2> QED
    BY <1>6, <2>1
<1>8. ks = {k}
  BY <1>2, <1>6 DEF RootLimits
<1>9. Picked(ks) = k
  BY <1>8 DEF Picked
<1>10. limits[k].limit = n /\ limits[k].threshold = h
  BY <1>1
<1> QED
  BY <1>4, <1>5, <1>7, <1>8, <1>9, <1>10

LEMMA LimitsDoAgree == OwnersInv => LimitsAgree
<1> SUFFICES ASSUME OwnersInv, NEW k \in DOMAIN limits, ~Apart(k[1], k[2], k[3])
             PROVE  LET u == k[1]  c == k[2]  m == k[3]
                        said == StatisticsStatus(u, c, m)
                    IN  /\ c = NoCategory /\ m \in MonthsOf({u}) => MonthlyLimit({u}, m) = said
                        /\ c \in Roots({u}, "expense") =>
                            /\ MonthsOf({u}) # {} /\ m = Max(MonthsOf({u}))
                                => CategoryLimits({u})[c] = said
                            /\ m = ThisMonth => (c \in HotCategories(u)
                                                    <=> said \in {"over", "warning"})
  BY Zenon DEF LimitsAgree
<1>0. CategoryTables
  BY DEF OwnersInv, MonthsInv
<1>1. PICK u \in Users, c \in DOMAIN category \cup {NoCategory}, m \in Months,
           n \in LimitAmounts, h \in Thresholds : LimitRow(k, u, c, m, n, h)
  BY <1>0, LimitRows
<1>2. k[1] = u /\ k[2] = c /\ k[3] = m
  BY <1>1 DEF LimitRow
<1>9. ~Apart(u, c, m)
  BY <1>2
<1>3. PICK said : said = StatisticsStatus(u, c, m)
  OBVIOUS
<1>4. said = Progress(Actual(u, c, m), n, h)
  <2>1. StatisticsStatus(u, c, m) = Progress(Actual(u, c, m), n, h)
    BY <1>0, <1>1, <1>9, StatisticsAsProgress
  <2> QED
    BY <1>3, <2>1
<1>5. ASSUME c = NoCategory PROVE MonthlyLimit({u}, m) = said
  <2>1. /\ LimitRow(k, u, NoCategory, m, n, h)
        /\ ~Apart(u, NoCategory, m)
        /\ said = Progress(Actual(u, NoCategory, m), n, h)
    BY <1>1, <1>4, <1>5, <1>9
  <2> QED
    BY <2>1, MonthlyAgrees
<1>6. ASSUME c \in Roots({u}, "expense") PROVE CategoryLimit({u}, c, m) = said
  BY <1>1, <1>4, <1>6, <1>9, CategoryAgrees
<1>7. ASSUME c \in Roots({u}, "expense"), m = Max(MonthsOf({u}))
      PROVE  CategoryLimits({u})[c] = said
  BY <1>6, <1>7 DEF CategoryLimits
<1>8. ASSUME c \in Roots({u}, "expense"), m = ThisMonth
      PROVE  c \in HotCategories(u) <=> said \in {"over", "warning"}
  BY <1>6, <1>8 DEF HotCategories
<1> QED
  BY <1>2, <1>3, <1>5, <1>7, <1>8

(* In every state of the tree, the transactions and the limits the budget    *)
(* page, the dashboard and the statistics say the same of a limit, but for   *)
(* the reasons of Apart (budget/services/budget.py, users/services).         *)
THEOREM PagesAgreeOnLimits == Spec => []LimitsAgree
<1>1. Spec => []OwnersInv
  BY OwnersStart, OwnersStep, PTL DEF Spec
<1> QED
  BY <1>1, LimitsDoAgree, PTL

-----------------------------------------------------------------------------
(* The tree of the categories.                                               *)
All == Cardinality(Categories)
IsTree(lev) == IsLevels(lev, ParentOf, DOMAIN category, NoCategory, All + TreeDepth)

LEMMA AllIsNat ==
    /\ All \in Nat /\ TreeDepth \in Nat /\ TreeDepth >= 1
    /\ All + TreeDepth \in Nat /\ All < All + TreeDepth
<1>1. All \in Nat
  BY FS_CardinalityType DEF All
<1>2. TreeDepth \in Nat /\ TreeDepth >= 1
  OBVIOUS
<1> QED
  BY <1>1, <1>2

LEMMA TreeOfParents ==
    ASSUME OwnersInv
    PROVE  /\ Parents(ParentOf, DOMAIN category, NoCategory)
           /\ Cardinality(DOMAIN category) <= All
           /\ \A c \in DOMAIN category : ParentOf[c] = category[c].parent
<1>0. CategoryTables
  BY DEF OwnersInv, MonthsInv
<1>1. DOMAIN category \subseteq Categories /\ IsFiniteSet(DOMAIN category)
  BY <1>0, FiniteTables
<1>2. Cardinality(DOMAIN category) <= All
  BY <1>1, FS_Subset DEF All
<1>3. \A c \in DOMAIN category : ParentOf[c] = category[c].parent
  BY DEF ParentOf
<1>4. Parents(ParentOf, DOMAIN category, NoCategory)
  BY <1>1, <1>3 DEF Parents, OwnersInv, ParentsStay
<1> QED
  BY <1>2, <1>3, <1>4

LEMMA PartOfTree ==
    ASSUME OwnersInv, NEW u, NEW t
    PROVE  PartOf(CategoriesOf(u, t), ParentOf, DOMAIN category, NoCategory)
<1>1. CategoriesOf(u, t) \subseteq DOMAIN category
  BY DEF CategoriesOf
<1>2. ASSUME NEW c \in CategoriesOf(u, t)
      PROVE  ParentOf[c] \in CategoriesOf(u, t) \cup {NoCategory}
  <2>1. c \in DOMAIN category /\ category[c].user = u /\ category[c].type = t
    BY DEF CategoriesOf
  <2>2. PICK p : p = category[c].parent
    OBVIOUS
  <2>3. ParentOf[c] = p
    BY <2>1, <2>2, TreeOfParents
  <2>4. CASE p # NoCategory
    <3>1. p \in DOMAIN category /\ category[p].user = u /\ category[p].type = t
      BY <2>1, <2>2, <2>4, ParentsFit
    <3> QED
      BY <2>3, <3>1 DEF CategoriesOf
  <2> QED
    BY <2>3, <2>4
<1> QED
  BY <1>1, <1>2 DEF PartOf

(* The recursive functions of the tree and of the depth are those of trees.  *)
OnLevel(u, t, A) == {c \in CategoriesOf(u, t) : category[c].parent \in A}

LEMMA AboveIsOnLevel ==
    ASSUME OwnersInv, NEW u, NEW t
    PROVE  \A A : Above(ParentOf, CategoriesOf(u, t), A) = OnLevel(u, t, A)
<1>1. \A c \in CategoriesOf(u, t) : ParentOf[c] = category[c].parent
  BY TreeOfParents DEF CategoriesOf
<1> QED
  BY <1>1 DEF Above, OnLevel

IsTreeLevels(level, u, t) ==
    level = [n \in 1 .. TreeDepth |->
                OnLevel(u, t, IF n = 1 THEN {NoCategory} ELSE level[n - 1])]

LEMMA LevelParts ==
    ASSUME OwnersInv, NEW u, NEW t, NEW lev, IsTree(lev), NEW n \in 1 .. All + TreeDepth
    PROVE  lev[n] \cap CategoriesOf(u, t) =
             OnLevel(u, t, IF n = 1 THEN {NoCategory}
                           ELSE lev[n - 1] \cap CategoriesOf(u, t))
<1> DEFINE C == CategoriesOf(u, t)
           M == All + TreeDepth
<1>0. /\ Parents(ParentOf, DOMAIN category, NoCategory)
      /\ PartOf(C, ParentOf, DOMAIN category, NoCategory)
      /\ IsLevels(lev, ParentOf, DOMAIN category, NoCategory, M) /\ M \in Nat
      /\ \A c \in DOMAIN category : ParentOf[c] = category[c].parent
  BY TreeOfParents, PartOfTree, AllIsNat DEF IsTree
<1>1. C \subseteq DOMAIN category
      /\ \A c \in C : ParentOf[c] = category[c].parent /\ ParentOf[c] \in C \cup {NoCategory}
  BY <1>0 DEF PartOf
<1> HIDE DEF C, M
<1>2. n \in 1 .. M
  BY DEF M
<1>3. \A c : c \in lev[n] <=> c \in DOMAIN category /\ ParentOf[c] \in lev[n - 1]
  BY <1>0, <1>2, LevelMember
<1>4. OnLevel(u, t, IF n = 1 THEN {NoCategory} ELSE lev[n - 1] \cap C)
        = {c \in C : category[c].parent \in IF n = 1 THEN {NoCategory} ELSE lev[n - 1] \cap C}
  BY DEF OnLevel, C
<1>5. CASE n = 1
  <2>1. lev[n - 1] = {NoCategory}
    BY <1>0, <1>5, LevelMember
  <2>2. lev[n] \cap C = {c \in C : category[c].parent \in {NoCategory}}
    BY <1>1, <1>3, <2>1
  <2> QED
    BY <1>4, <1>5, <2>2 DEF C
<1>6. CASE n # 1
  <2>1. n - 1 \in 1 .. M
    BY <1>0, <1>2, <1>6
  <2>2. NoCategory \notin lev[n - 1]
    BY <1>0, <2>1, LevelMember
  <2>3. lev[n] \cap C = {c \in C : category[c].parent \in lev[n - 1] \cap C}
    BY <1>1, <1>3, <2>2
  <2> QED
    BY <1>4, <1>6, <2>3 DEF C
<1> QED
  BY <1>5, <1>6

LEMMA TreeLevelsExist ==
    ASSUME OwnersInv, NEW u, NEW t
    PROVE  IsTreeLevels(TreeLevels(u, t), u, t)
<1>1. PICK lev : IsTree(lev)
  BY AllIsNat, LevelsExist DEF IsTree
<1> DEFINE f == [n \in 1 .. TreeDepth |-> lev[n] \cap CategoriesOf(u, t)]
<1>2. ASSUME NEW n \in 1 .. TreeDepth
      PROVE  f[n] = OnLevel(u, t, IF n = 1 THEN {NoCategory} ELSE f[n - 1])
  <2>1. n \in 1 .. All + TreeDepth
    BY AllIsNat
  <2>2. lev[n] \cap CategoriesOf(u, t) =
             OnLevel(u, t, IF n = 1 THEN {NoCategory}
                           ELSE lev[n - 1] \cap CategoriesOf(u, t))
    BY <1>1, <2>1, LevelParts
  <2>3. n # 1 => f[n - 1] = lev[n - 1] \cap CategoriesOf(u, t)
    BY AllIsNat
  <2>4. f[n] = lev[n] \cap CategoriesOf(u, t)
    OBVIOUS
  <2> HIDE DEF f
  <2> QED
    BY <2>2, <2>3, <2>4
<1>3. IsTreeLevels(f, u, t)
  BY <1>2 DEF IsTreeLevels
<1>4. TreeLevels(u, t) = CHOOSE level : IsTreeLevels(level, u, t)
  BY DEF TreeLevels, IsTreeLevels, OnLevel
<1> QED
  BY <1>3, <1>4

LEMMA TreeLevelsAre ==
    ASSUME OwnersInv, NEW u, NEW t, NEW lev, IsTree(lev)
    PROVE  \A n \in 1 .. TreeDepth : TreeLevels(u, t)[n] = lev[n] \cap CategoriesOf(u, t)
<1>1. PICK level : level = TreeLevels(u, t)
  OBVIOUS
<1>2. \A n \in 1 .. TreeDepth :
        level[n] = OnLevel(u, t, IF n = 1 THEN {NoCategory} ELSE level[n - 1])
  <2>1. IsTreeLevels(level, u, t)
    BY <1>1, TreeLevelsExist
  <2> QED
    BY <2>1 DEF IsTreeLevels
<1> DEFINE G == {n \in Nat : n \in 1 .. TreeDepth => level[n] = lev[n] \cap CategoriesOf(u, t)}
<1>3. ASSUME NEW n \in Nat, \A m \in Nat : m < n => m \in G PROVE n \in G
  <2> SUFFICES ASSUME n \in 1 .. TreeDepth
               PROVE  level[n] = lev[n] \cap CategoriesOf(u, t)
    OBVIOUS
  <2>1. n \in 1 .. All + TreeDepth
    BY AllIsNat
  <2>2. lev[n] \cap CategoriesOf(u, t) =
             OnLevel(u, t, IF n = 1 THEN {NoCategory}
                           ELSE lev[n - 1] \cap CategoriesOf(u, t))
    BY <2>1, LevelParts
  <2>3. CASE n = 1
    BY <1>2, <2>2, <2>3
  <2>4. CASE n # 1
    <3>1. n - 1 \in Nat /\ n - 1 < n /\ n - 1 \in 1 .. TreeDepth
      BY <2>4, AllIsNat
    <3>2. level[n - 1] = lev[n - 1] \cap CategoriesOf(u, t)
      BY <1>3, <3>1
    <3>3. level[n] = OnLevel(u, t, level[n - 1])
      BY <1>2, <2>4
    <3> QED
      BY <2>2, <2>4, <3>2, <3>3
  <2> QED
    BY <2>3, <2>4
<1>4. Nat \subseteq G
  <2> HIDE DEF G
  <2> QED
    BY <1>3, NumberInduction
<1> QED
  BY <1>1, <1>4

(* The depth is the level, and 0 for what is on none.                        *)
LEMMA LeastOfSome ==
    ASSUME NEW S \in SUBSET Nat, NEW k \in S, \A i \in S : k <= i
    PROVE  Min(S) = k
<1> DEFINE Least(z) == z \in S /\ \A y \in S : z <= y
<1>1. Least(k)
  OBVIOUS
<1>2. \A z : Least(z) => z = k
  <2> SUFFICES ASSUME NEW z, Least(z) PROVE z = k
    OBVIOUS
  <2>1. z \in Int /\ k \in Int /\ z <= k /\ k <= z
    OBVIOUS
  <2> QED
    BY <2>1
<1>3. Min(S) = CHOOSE z : Least(z)
  BY DEF Min
<1> QED
  BY <1>1, <1>2, <1>3

LEMMA SomeIsLeast ==
    ASSUME NEW S \in SUBSET Nat, S # {}
    PROVE  \E k \in S : \A i \in S : k <= i
<1> DEFINE G == {n \in Nat : n \in S => \E k \in S : \A i \in S : k <= i}
<1>1. ASSUME NEW n \in Nat, \A m \in Nat : m < n => m \in G PROVE n \in G
  <2> SUFFICES ASSUME n \in S, ~(\E k \in S : \A i \in S : k <= i) PROVE FALSE
    OBVIOUS
  <2>1. PICK i \in S : ~(n <= i)
    OBVIOUS
  <2>2. i \in Nat /\ i < n
    BY <2>1
  <2> QED
    BY <1>1, <2>2
<1>2. Nat \subseteq G
  <2> HIDE DEF G
  <2> QED
    BY <1>1, NumberInduction
<1> QED
  BY <1>2

IsUp(up, c) == IsWay(up, ParentOf, NoCategory, c, All)
Ends(up) == {n \in 0 .. All : up[n] = NoCategory}

LEMMA DepthByWay ==
    ASSUME OwnersInv, NEW c \in DOMAIN category
    PROVE  \E up : /\ IsUp(up, c)
                   /\ Depth(c) = IF Ends(up) = {} THEN 0 ELSE Min(Ends(up))
<1>1. PICK up : up = CHOOSE f : IsUp(f, c)
  OBVIOUS
<1>2. \E f : IsUp(f, c)
  BY TreeOfParents, WayExists, AllIsNat DEF IsUp
<1>3. IsUp(up, c)
  BY <1>1, <1>2
<1>4. DOMAIN up = 0 .. All
  BY <1>3 DEF IsUp, IsWay
<1>5. Depth(c) = IF {n \in DOMAIN up : up[n] = NoCategory} = {} THEN 0
                 ELSE Min({n \in DOMAIN up : up[n] = NoCategory})
  BY <1>1 DEF Depth, IsUp, IsWay, Up, All
<1>6. {n \in DOMAIN up : up[n] = NoCategory} = Ends(up)
  BY <1>4 DEF Ends
<1> QED
  BY <1>3, <1>5, <1>6

LEMMA DepthIsLevel ==
    ASSUME OwnersInv, NEW lev, IsTree(lev), NEW c \in DOMAIN category
    PROVE  /\ Depth(c) \in 0 .. All
           /\ \A n \in 1 .. All : Depth(c) = n <=> c \in lev[n]
<1> DEFINE M == All + TreeDepth
<1>0. /\ Parents(ParentOf, DOMAIN category, NoCategory)
      /\ IsLevels(lev, ParentOf, DOMAIN category, NoCategory, M)
      /\ M \in Nat /\ All \in Nat /\ All <= M
  BY TreeOfParents, AllIsNat DEF IsTree
<1> HIDE DEF M
<1>1. PICK up : /\ IsUp(up, c)
                /\ Depth(c) = IF Ends(up) = {} THEN 0 ELSE Min(Ends(up))
  BY DepthByWay
<1>2. IsWay(up, ParentOf, NoCategory, c, All)
  BY <1>1 DEF IsUp
<1>3. ASSUME NEW n \in 1 .. All, c \in lev[n] PROVE Depth(c) = n
  <2>1. n \in 0 .. M /\ n <= All
    BY <1>0
  <2>2. up[n] = NoCategory /\ \A i \in 0 .. n - 1 : up[i] # NoCategory
    BY <1>0, <1>2, <1>3, <2>1, WayOfLevel
  <2>3. Ends(up) \in SUBSET Nat /\ n \in Ends(up)
    BY <1>0, <2>2 DEF Ends
  <2>4. \A i \in Ends(up) : n <= i
    <3> SUFFICES ASSUME NEW i \in Ends(up), i < n PROVE FALSE
      BY <2>3
    <3>1. i \in 0 .. n - 1 /\ up[i] = NoCategory
      BY <2>3 DEF Ends
    <3> QED
      BY <2>2, <3>1
  <2>5. Min(Ends(up)) = n
    BY <2>3, <2>4, LeastOfSome
  <2> QED
    BY <1>1, <2>3, <2>5
<1>4. CASE Ends(up) = {}
  <2>1. Depth(c) = 0
    BY <1>1, <1>4
  <2> QED
    BY <1>0, <1>3, <2>1
<1>5. CASE Ends(up) # {}
  <2>1. Ends(up) \in SUBSET Nat
    BY <1>0 DEF Ends
  <2>2. PICK k \in Ends(up) : \A i \in Ends(up) : k <= i
    BY <1>5, <2>1, SomeIsLeast
  <2>3. Depth(c) = k
    BY <1>1, <1>5, <2>1, <2>2, LeastOfSome
  <2>4. k \in 0 .. All /\ up[k] = NoCategory /\ k \in 0 .. M /\ k <= All
    BY <1>0 DEF Ends
  <2>5. \A i \in 0 .. k - 1 : up[i] # NoCategory
    <3> SUFFICES ASSUME NEW i \in 0 .. k - 1, up[i] = NoCategory PROVE FALSE
      OBVIOUS
    <3>1. i \in Ends(up)
      BY <1>0, <2>4 DEF Ends
    <3> QED
      BY <2>2, <2>4, <3>1
  <2>6. c \in lev[k]
    BY <1>0, <1>2, <2>4, <2>5, LevelOfWay
  <2> QED
    BY <1>3, <2>3, <2>4, <2>6
<1> QED
  BY <1>4, <1>5

(* The counts below the roots.                                               *)
IsWithin(w, u, t, r) ==
    w = [n \in 0 .. All |-> IF n = 0 THEN {} ELSE OnLevel(u, t, {r} \cup w[n - 1])]

LEMMA WithinIsBelow ==
    ASSUME OwnersInv, NEW u, NEW t, NEW r
    PROVE  \A w : IsWithin(w, u, t, r) <=> IsBelow(w, ParentOf, CategoriesOf(u, t), r, All)
<1>1. \A w : \A n : OnLevel(u, t, {r} \cup w[n - 1])
                    = Above(ParentOf, CategoriesOf(u, t), {r} \cup w[n - 1])
  BY AboveIsOnLevel
<1> QED
  BY <1>1 DEF IsWithin, IsBelow

LEMMA CountIsSize ==
    ASSUME OwnersInv, NEW u, NEW t, NEW r
    PROVE  \E w : /\ IsBelow(w, ParentOf, CategoriesOf(u, t), r, All)
                  /\ CountDesc(u, t, r) = Cardinality(w[All])
<1>1. PICK w : w = CHOOSE f : IsWithin(f, u, t, r)
  OBVIOUS
<1>2. CountDesc(u, t, r) = Cardinality(w[All])
  BY <1>1 DEF CountDesc, IsWithin, OnLevel, All
<1>3. \E f : IsBelow(f, ParentOf, CategoriesOf(u, t), r, All)
  BY BelowExists, AllIsNat
<1>4. \E f : IsWithin(f, u, t, r)
  BY <1>3, WithinIsBelow
<1>5. IsWithin(w, u, t, r)
  BY <1>1, <1>4
<1> QED
  BY <1>2, <1>5, WithinIsBelow

Shown(u, t, cs, depth, levels) ==
    /\ Cardinality({c \in cs : depth[c] > 0}) =
            SumFunction([r \in levels[1] |-> 1 + CountDesc(u, t, r)])
    /\ \A n \in 1 .. TreeDepth : levels[n] = {c \in cs : depth[c] = n}

LEMMA TreesCount == OwnersInv => TreeCounts
<1> SUFFICES ASSUME OwnersInv, NEW u \in Users, NEW t \in Types
             PROVE  Shown(u, t, CategoriesOf(u, t),
                          [c \in CategoriesOf(u, t) |-> Depth(c)], TreeLevels(u, t))
  BY DEF TreeCounts, Shown
<1>1. PICK lev : IsTree(lev)
  BY AllIsNat, LevelsExist DEF IsTree
<1> DEFINE M == All + TreeDepth
<1>2. PICK C : C = CategoriesOf(u, t)
  OBVIOUS
<1>3. PICK levels : levels = TreeLevels(u, t)
  OBVIOUS
<1>4. PICK depth : depth = [c \in C |-> Depth(c)]
  OBVIOUS
<1>5. /\ Parents(ParentOf, DOMAIN category, NoCategory)
      /\ IsLevels(lev, ParentOf, DOMAIN category, NoCategory, M)
      /\ PartOf(C, ParentOf, DOMAIN category, NoCategory)
      /\ M \in Nat /\ All \in Nat /\ All < M /\ TreeDepth \in Nat /\ TreeDepth >= 1
      /\ Cardinality(DOMAIN category) <= All
      /\ TreeDepth <= M /\ C \subseteq DOMAIN category
  BY <1>1, <1>2, TreeOfParents, PartOfTree, AllIsNat DEF IsTree, PartOf
<1> HIDE DEF M
<1>6. \A n \in 1 .. TreeDepth : levels[n] = lev[n] \cap C
  BY <1>1, <1>2, <1>3, TreeLevelsAre
<1>7. /\ \A c \in C : depth[c] \in 0 .. All
      /\ \A c \in C : \A n \in 1 .. All : depth[c] = n <=> c \in lev[n]
  BY <1>1, <1>4, <1>5, DepthIsLevel
<1>8. ASSUME NEW n \in 1 .. TreeDepth PROVE levels[n] = {c \in C : depth[c] = n}
  <2>1. CASE n <= All
    <3>1. n \in 1 .. All
      BY <1>5, <2>1
    <3> QED
      BY <1>6, <1>7, <3>1
  <2>2. CASE n > All
    <3>1. n \in 1 .. M
      BY <1>5
    <3>2. \A c : c \notin lev[n]
      <4> SUFFICES ASSUME NEW c, c \in lev[n] PROVE FALSE
        OBVIOUS
      <4>1. n <= Cardinality(DOMAIN category)
        BY <1>5, <3>1, LevelsEnd
      <4>2. Cardinality(DOMAIN category) \in Nat
        BY <1>5, FS_CardinalityType DEF Parents
      <4> QED
        BY <1>5, <2>2, <4>1, <4>2
    <3>3. \A c \in C : depth[c] # n
      BY <1>5, <1>7, <2>2
    <3> QED
      BY <1>6, <3>2, <3>3
  <2> QED
    BY <1>5, <2>1, <2>2
<1>9. {c \in C : depth[c] > 0} = {c \in C : \E k \in 1 .. All : c \in lev[k]}
  <2>1. ASSUME NEW c \in C, depth[c] > 0 PROVE \E k \in 1 .. All : c \in lev[k]
    <3>1. depth[c] \in 1 .. All
      BY <1>5, <1>7, <2>1
    <3> QED
      BY <1>7, <3>1
  <2>2. ASSUME NEW c \in C, NEW k \in 1 .. All, c \in lev[k] PROVE depth[c] > 0
    <3>1. depth[c] = k
      BY <1>7, <2>2
    <3> QED
      BY <1>5, <3>1
  <2> QED
    BY <2>1, <2>2
<1>10. PICK R : R = {c \in C : c \in lev[1]}
  OBVIOUS
<1>11. levels[1] = R
  BY <1>5, <1>6, <1>10
<1>12. PICK g : g = [r \in levels[1] |-> 1 + CountDesc(u, t, r)]
  OBVIOUS
<1> DEFINE Counts(w, r) == /\ IsBelow(w, ParentOf, C, r, All)
                           /\ CountDesc(u, t, r) = Cardinality(w[All])
           W == [r \in R |-> CHOOSE w : Counts(w, r)]
<1>13. \A r \in R : Counts(W[r], r)
  <2> SUFFICES ASSUME NEW r \in R PROVE Counts(W[r], r)
    OBVIOUS
  <2>1. \E w : Counts(w, r)
    BY <1>2, CountIsSize
  <2> QED
    BY <2>1
<1> HIDE DEF W
<1>14. /\ \A r \in R : IsBelow(W[r], ParentOf, C, r, All)
       /\ \A r \in R : g[r] = 1 + Cardinality(W[r][All])
  BY <1>11, <1>12, <1>13
<1>15. SumFunctionOnSet(g, R) = Cardinality({c \in C : \E k \in 1 .. All : c \in lev[k]})
  BY <1>5, <1>10, <1>14, TreeSize
<1>16. SumFunction(g) = SumFunctionOnSet(g, R)
  BY <1>11, <1>12 DEF SumFunction
<1>17. SumFunction([r \in levels[1] |-> 1 + CountDesc(u, t, r)]) =
            Cardinality({c \in C : depth[c] > 0})
  BY <1>9, <1>12, <1>15, <1>16
<1>18. Shown(u, t, C, depth, levels)
  BY <1>8, <1>17 DEF Shown
<1> QED
  BY <1>2, <1>3, <1>4, <1>18

(* However the forms of two workers move a category, also in a circle: the   *)
(* tree shows each at its place down to its depth and counts each once below *)
(* its root, but those whose parents go round (services/views.py).            *)
THEOREM TreeShowsAll == Spec => []TreeCounts
<1>1. Spec => []OwnersInv
  BY OwnersStart, OwnersStep, PTL DEF Spec
<1> QED
  BY <1>1, TreesCount, PTL
=============================================================================
