------------------------------ MODULE Deposits ------------------------------
(* Term deposits: DepositService.  A deposit is an account of type Deposit   *)
(* with the history of its terms and an immutable journal of events; a       *)
(* mistake is undone by a compensating event.                                *)
(*                                                                           *)
(* Operations lock the deposit or its accounts late: what a request reads    *)
(* before that is held in `reads` between two actions.  Conditions a         *)
(* contract may set (limits, deadlines) are left out, as an exception reason *)
(* overrides them.  Rate periods and forecasts of interest move no money:    *)
(* Forecasts has them.  One owner and one currency.                          *)
EXTENDS Balances, Sequences, Functions

CONSTANTS
    Requests,   \* concurrent requests and management commands
    Sums,       \* the amounts that forms carry
    LastDay,    \* bound: days are 1 .. LastDay
    MaxTerms,   \* bound: terms of one deposit
    MaxEvents   \* bound: events in the journal

VARIABLES
    terms,    \* each deposit's terms, oldest first; empty without a deposit
    current,  \* the index of the term with is_current; 0 without a deposit
    events,   \* principal and interest events, oldest first
    reads,    \* what each request read before it took its locks
    today     \* timezone.localdate()

depositVars == <<terms, current, events, reads, today>>
vars == <<accountVars, depositVars>>

Days == 1 .. LastDay

(* A term, and the renewal that began it: `from` is the index of the renewed *)
(* term, 0 for the first one, and `undone` says the renewal was reversed.    *)
Term == [opened : Days, matures : Days, closed : BOOLEAN,
         from : 0 .. MaxTerms, undone : BOOLEAN]

ClosureTypes == {"plannedClosure", "earlyClosure"}
PrincipalTypes ==
    {"opening", "funding", "topUp", "withdrawal"} \cup ClosureTypes
InterestTypes == {"interest", "final"}

(* An event of either table.  `other` is the account at the other end: the   *)
(* source of principal, its destination, or the destination of interest,     *)
(* which is the deposit itself when interest is capitalized; None is an      *)
(* external end, or no other end.  `on` stands for the dates of a closure,   *)
(* which are compared together; `reverses` is the event that a compensating  *)
(* event undoes, 0 for an original one.                                      *)
Event == [deposit : Accounts, type : PrincipalTypes \cup InterestTypes,
          amount : 0 .. BalanceLimit, other : AccountRef,
          on : 0 .. LastDay, reverses : 0 .. MaxEvents]

Idle == [op |-> "idle"]

Read ==
    {Idle}
    \cup [op : {"fund"}, account : Accounts]
    \cup [op : {"move", "interest"}, deposit : Accounts, account : AccountRef]
    \cup [op : {"convert"}, account : Accounts, balance : Balance]

(* The log of a deposit's transfer has the key of its event.                 *)
ASSUME DepositsAssumption ==
    /\ Sums \subseteq Amount
    /\ LastDay \in Nat \ {0} /\ MaxTerms \in Nat \ {0} /\ MaxEvents \in Nat
    /\ 1 .. MaxEvents \subseteq LogIds

DepositsTypeOK ==
    /\ BalancesTypeOK
    /\ terms \in [Accounts -> Seq(Term)]
    /\ current \in [Accounts -> 0 .. MaxTerms]
    /\ events \in Seq(Event)
    /\ reads \in [Requests -> Read]
    /\ today \in Days

IsDeposit(a) == terms[a] # <<>>

CurrentTerm(d) == terms[d][current[d]]

(* DepositTerm.state.                                                        *)
State(term) ==
    IF term.closed THEN "closed"
    ELSE IF today < term.opened THEN "planned"
    ELSE IF today >= term.matures THEN "matured"
    ELSE "active"

(* hasattr(event, 'reversal').                                               *)
Reversed(i) == \E j \in DOMAIN events : events[j].reverses = i

(* An event that counts: neither compensating nor compensated.               *)
Live(i) == events[i].reverses = 0 /\ ~Reversed(i)

LiveOf(d, types) ==
    {i \in DOMAIN events :
        /\ events[i].deposit = d /\ events[i].type \in types
        /\ Live(i)}

NewEvent(d, type, amount, other, on) ==
    [deposit |-> d, type |-> type, amount |-> amount, other |-> other,
     on |-> on, reverses |-> 0]

Compensation(i) == [events[i] EXCEPT !.reverses = i]

RecordEvents(new) ==
    /\ Len(events) + Len(new) <= MaxEvents
    /\ events' = events \o new

(* No deposits yet.                                                          *)
Init ==
    /\ kind \in [Accounts -> {"none", "regular"}]
    /\ balance \in [Accounts -> Sums \cup {0}]
    /\ \A a \in Accounts : ~Exists(a) => balance[a] = 0
    /\ archived = [a \in Accounts |-> FALSE]
    /\ transferLogs = [l \in LogIds |-> None]
    /\ terms = [a \in Accounts |-> <<>>]
    /\ current = [a \in Accounts |-> 0]
    /\ events = <<>>
    /\ reads = [q \in Requests |-> Idle]
    /\ today = 1

-----------------------------------------------------------------------------
(* What is read without a lock.                                              *)

Holds(q, op) == reads[q].op = op

Hold(q, read) ==
    /\ Holds(q, "idle")
    /\ reads' = [reads EXCEPT ![q] = read]
    /\ UNCHANGED <<accountVars, terms, current, events, today>>

Release(q) == reads' = [reads EXCEPT ![q] = Idle]

(* The source of a new deposit: the form offers regular accounts.            *)
BeginFund(q, a) ==
    /\ AvailableForRegularOperations(a)
    /\ Hold(q, [op |-> "fund", account |-> a])

(* A withdrawal, a top-up or a closure: the deposit is not closed, the other *)
(* account is a regular one; None is a closure's external recipient.         *)
BeginMove(q, d, other) ==
    /\ IsDeposit(d)
    /\ State(CurrentTerm(d)) # "closed"
    /\ other # None => AvailableForRegularOperations(other)
    /\ Hold(q, [op |-> "move", deposit |-> d, account |-> other])

(* _resolve_interest_destination: any other account, deposits included.      *)
BeginInterest(q, d, to) ==
    /\ IsDeposit(d)
    /\ State(CurrentTerm(d)) # "closed"
    /\ to \notin {None, d} => AvailableForOperations(to)
    /\ Hold(q, [op |-> "interest", deposit |-> d, account |-> to])

BeginConvert(q, a) ==
    /\ kind[a] = "regular"
    /\ ~IsDeposit(a)
    /\ balance[a] >= 0
    /\ Hold(q, [op |-> "convert", account |-> a, balance |-> balance[a]])

(* A request ends without writing.                                           *)
Reject(q) ==
    /\ ~Holds(q, "idle")
    /\ Release(q)
    /\ UNCHANGED <<accountVars, terms, current, events, today>>

-----------------------------------------------------------------------------
(* New deposits.                                                             *)

(* _create_agreement and convert_account_to_deposit: the account has the     *)
(* type Deposit and one term.                                                *)
Agree(d) ==
    /\ kind' = [kind EXCEPT ![d] = "deposit"]
    /\ \E opened, matures \in Days :
          /\ opened <= matures
          /\ terms' = [terms EXCEPT ![d] =
                 <<[opened |-> opened, matures |-> matures, closed |-> FALSE,
                    from |-> 0, undone |-> FALSE]>>]
    /\ current' = [current EXCEPT ![d] = 1]
    /\ UNCHANGED <<archived, transferLogs, today>>

(* open_existing_term_deposit and create_term_deposit.                       *)
OpenExisting(d) ==
    /\ ~Exists(d)
    /\ Agree(d)
    /\ \E amount \in Sums \cup {0} :
          /\ balance' = [balance EXCEPT ![d] = amount]
          /\ RecordEvents(<<NewEvent(d, "opening", amount, None, 0)>>)
    /\ UNCHANGED reads

(* create_funded_term_deposit.                                               *)
CreateFunded(q, d) ==
    /\ Holds(q, "fund")
    /\ ~Exists(d)
    /\ Agree(d)
    /\ LET source == reads[q].account IN
       \E amount \in Sums :
          /\ CanApply(Delta(source, -amount))
          /\ balance' = Plus(balance, PairDelta(source, -amount, d, amount))
          /\ RecordEvents(<<NewEvent(d, "funding", amount, source, 0)>>)
    /\ Release(q)

(* convert_account_to_deposit saves the type alone; the balance it records   *)
(* is the one read before.                                                   *)
Convert(q) ==
    /\ Holds(q, "convert")
    /\ LET d == reads[q].account IN
       /\ ~IsDeposit(d)
       /\ Agree(d)
       /\ RecordEvents(
              <<NewEvent(d, "opening", reads[q].balance, None, 0)>>)
    /\ Release(q)
    /\ UNCHANGED balance

-----------------------------------------------------------------------------
(* Money in and out of a deposit.                                            *)

Log(from, to, amount) == [from |-> from, to |-> to, amount |-> amount]

LogEvent(log) ==
    transferLogs' = [transferLogs EXCEPT ![Len(events) + 1] = log]

(* withdraw_deposit_principal.                                               *)
Withdraw(q) ==
    /\ Holds(q, "move")
    /\ LET d == reads[q].deposit
           to == reads[q].account
       IN \E amount \in Sums :
             /\ to # None
             /\ ApplyAccountDeltas(PairDelta(d, -amount, to, amount))
             /\ RecordEvents(<<NewEvent(d, "withdrawal", amount, to, 0)>>)
             /\ LogEvent(Log(d, to, amount))
    /\ Release(q)
    /\ UNCHANGED <<kind, archived, terms, current, today>>

(* top_up_deposit_principal, which writes no transfer log.                   *)
TopUp(q) ==
    /\ Holds(q, "move")
    /\ LET d == reads[q].deposit
           source == reads[q].account
       IN \E amount \in Sums :
             /\ source # None
             /\ ApplyAccountDeltas(PairDelta(source, -amount, d, amount))
             /\ RecordEvents(<<NewEvent(d, "topUp", amount, source, 0)>>)
    /\ Release(q)
    /\ UNCHANGED <<kind, archived, transferLogs, terms, current, today>>

(* confirm_interest_payment.                                                 *)
ConfirmInterest(q) ==
    /\ Holds(q, "interest")
    /\ LET d == reads[q].deposit
           to == reads[q].account
       IN \E net \in Sums :
             /\ ApplyAccountDeltas(Delta(to, net))
             /\ RecordEvents(<<NewEvent(d, "interest", net, to, 0)>>)
    /\ Release(q)
    /\ UNCHANGED <<kind, archived, transferLogs, terms, current, today>>

-----------------------------------------------------------------------------
(* Closure: the whole balance is returned with the final interest, the term  *)
(* is closed and the account archived.                                       *)

Close_AnyPrincipal(q, type, on) ==
    LET d == reads[q].deposit
        to == reads[q].account
    IN \E net \in Sums \cup {0}, principal \in 0 .. balance[d] :
          /\ ApplyAccountDeltas(PairDelta(d, -principal, to, principal + net))
          /\ RecordEvents(<<NewEvent(d, type, principal, to, on),
                            NewEvent(d, "final", net, to, on)>>)
          /\ terms' = [terms EXCEPT ![d][current[d]].closed = TRUE]
          /\ archived' = [archived EXCEPT ![d] = TRUE]
          /\ Release(q)
          /\ UNCHANGED <<kind, transferLogs, current, today>>

Close(q, type, on) ==
    LET d == reads[q].deposit
        to == reads[q].account
        principal == balance[d]
    IN \E net \in Sums \cup {0} :
          /\ ApplyAccountDeltas(PairDelta(d, -principal, to, principal + net))
          /\ RecordEvents(<<NewEvent(d, type, principal, to, on),
                            NewEvent(d, "final", net, to, on)>>)
          /\ terms' = [terms EXCEPT ![d][current[d]].closed = TRUE]
          /\ archived' = [archived EXCEPT ![d] = TRUE]
          /\ Release(q)
          /\ UNCHANGED <<kind, transferLogs, current, today>>

CloseEarly(q) ==
    /\ Holds(q, "move")
    /\ LET term == CurrentTerm(reads[q].deposit) IN
       /\ State(term) = "active"
       /\ \E on \in term.opened .. term.matures - 1 :
             Close(q, "earlyClosure", on)

(* _existing_closure_result answers a second call with the first one's       *)
(* events, or an error, whatever is left of the first: nothing moves.        *)
CloseMatured(q) ==
    /\ Holds(q, "move")
    /\ LET d == reads[q].deposit
           to == reads[q].account
       IN /\ LiveOf(d, {"plannedClosure", "final"}) = {}
          /\ State(CurrentTerm(d)) = "matured"
          /\ to # None => ~archived[to]
          /\ \E on \in CurrentTerm(d).matures .. LastDay :
                Close(q, "plannedClosure", on)

-----------------------------------------------------------------------------
(* Renewal.                                                                  *)

Overlap(s, t) == s.opened <= t.matures /\ t.opened <= s.matures

RenewWith(d, new) ==
    /\ terms' = [terms EXCEPT ![d] = Append(@, new)]
    /\ current' = [current EXCEPT ![d] = Len(terms[d]) + 1]
    /\ UNCHANGED <<accountVars, events, reads, today>>

RenewalTerms(d) ==
    [opened : Days, matures : Days, closed : {FALSE},
     from : {current[d]}, undone : {FALSE}]

(* is_renewal_available.                                                     *)
RenewalAvailable(d) ==
    /\ IsDeposit(d)
    /\ State(CurrentTerm(d)) = "matured"
    /\ balance[d] > 0
    /\ ~archived[d]

Renew_CurrentOnly(d) ==
    /\ RenewalAvailable(d)
    /\ Len(terms[d]) < MaxTerms
    /\ \E new \in RenewalTerms(d) :
          /\ new.opened <= new.matures
          /\ new.opened > CurrentTerm(d).matures
          /\ RenewWith(d, new)

(* renew_matured_deposit: a new term after the current one, apart from all   *)
(* of the deposit's terms, the undone ones included.                         *)
Renew(d) ==
    /\ RenewalAvailable(d)
    /\ Len(terms[d]) < MaxTerms
    /\ \E new \in RenewalTerms(d) :
          /\ new.opened <= new.matures
          /\ new.opened > CurrentTerm(d).matures
          /\ \A i \in DOMAIN terms[d] : ~Overlap(terms[d][i], new)
          /\ RenewWith(d, new)

UndoRenewal(d, i) ==
    /\ terms' = [terms EXCEPT ![d][i].undone = TRUE]
    /\ current' = [current EXCEPT ![d] = terms[d][i].from]
    /\ UNCHANGED <<accountVars, events, reads, today>>

ReverseRenewal_AnyTerm(d, i) ==
    /\ terms[d][i].from # 0
    /\ ~terms[d][i].undone
    /\ UndoRenewal(d, i)

(* _reverse_renewal_event: the term it began must be the current one.        *)
ReverseRenewal(d, i) ==
    /\ terms[d][i].from # 0
    /\ ~terms[d][i].undone
    /\ current[d] = i
    /\ UndoRenewal(d, i)

-----------------------------------------------------------------------------
(* Reversal of events.                                                       *)

ReversalDeltas_FundingOnly(e) ==
    IF e.type = "funding"
    THEN PairDelta(e.other, e.amount, e.deposit, -e.amount)
    ELSE IF e.type = "withdrawal"
    THEN PairDelta(e.deposit, e.amount, e.other, -e.amount)
    ELSE NoDelta

(* The deltas _reverse_principal_event applies, and the log it then writes.  *)
ReversalDeltas(e) ==
    IF e.type \in {"funding", "topUp"}
    THEN PairDelta(e.other, e.amount, e.deposit, -e.amount)
    ELSE IF e.type = "withdrawal"
    THEN PairDelta(e.deposit, e.amount, e.other, -e.amount)
    ELSE NoDelta

ReversalLog(e) ==
    IF e.type = "withdrawal" THEN Log(e.other, e.deposit, e.amount)
    ELSE Log(e.deposit, e.other, e.amount)

(* _reverse_principal_event of anything but a closure.                       *)
ReversePrincipal(i) ==
    LET e == events[i] IN
    /\ e.type \in PrincipalTypes \ ClosureTypes
    /\ Live(i)
    /\ ApplyAccountDeltas(ReversalDeltas(e))
    /\ RecordEvents(<<Compensation(i)>>)
    /\ IF e.type = "opening" THEN UNCHANGED transferLogs
       ELSE LogEvent(ReversalLog(e))
    /\ UNCHANGED <<kind, archived, terms, current, reads, today>>

(* get_closure_interest_event_for_update.                                    *)
ClosureInterest(i) ==
    {j \in LiveOf(events[i].deposit, {"final"}) : events[j].on = events[i].on}

ReverseClosure_KeepsInterest(i) ==
    LET e == events[i] IN
    /\ e.type \in ClosureTypes
    /\ Live(i)
    /\ \E j \in DOMAIN events :
          /\ ClosureInterest(i) = {j}
          /\ CanApply(Delta(e.other, -e.amount))
          /\ balance' = Plus(balance,
                 PairDelta(e.deposit, e.amount, e.other, -e.amount))
          /\ balance'[e.deposit] \in Balance
          /\ RecordEvents(<<Compensation(i), Compensation(j)>>)
    /\ archived' = [archived EXCEPT ![e.deposit] = FALSE]
    /\ terms' = [terms EXCEPT ![e.deposit][current[e.deposit]].closed = FALSE]
    /\ UNCHANGED <<kind, transferLogs, current, reads, today>>

(* _reverse_closure_event: the account is unarchived before its balance is   *)
(* restored; the final interest is compensated with the principal, and the   *)
(* term that is current now is reopened.                                     *)
ReverseClosure(i) ==
    LET e == events[i] IN
    /\ e.type \in ClosureTypes
    /\ Live(i)
    /\ \E j \in DOMAIN events :
          LET returned == e.amount + events[j].amount IN
          /\ ClosureInterest(i) = {j}
          /\ CanApply(Delta(e.other, -returned))
          /\ balance' = Plus(balance,
                 PairDelta(e.deposit, e.amount, e.other, -returned))
          /\ balance'[e.deposit] \in Balance
          /\ RecordEvents(<<Compensation(i), Compensation(j)>>)
    /\ archived' = [archived EXCEPT ![e.deposit] = FALSE]
    /\ terms' = [terms EXCEPT ![e.deposit][current[e.deposit]].closed = FALSE]
    /\ UNCHANGED <<kind, transferLogs, current, reads, today>>

ReverseInterest_Again(i) ==
    LET e == events[i] IN
    /\ e.type \in InterestTypes
    /\ e.reverses = 0
    /\ ApplyAccountDeltas(Delta(e.other, -e.amount))
    /\ RecordEvents(<<Compensation(i)>>)
    /\ UNCHANGED <<kind, archived, transferLogs, terms, current, reads, today>>

(* _reverse_interest_event, of a final payment too.                          *)
ReverseInterest(i) ==
    LET e == events[i] IN
    /\ e.type \in InterestTypes
    /\ Live(i)
    /\ ApplyAccountDeltas(Delta(e.other, -e.amount))
    /\ RecordEvents(<<Compensation(i)>>)
    /\ UNCHANGED <<kind, archived, transferLogs, terms, current, reads, today>>

-----------------------------------------------------------------------------
Tick ==
    /\ today < LastDay
    /\ today' = today + 1
    /\ UNCHANGED <<accountVars, terms, current, events, reads>>

Next ==
    \/ \E q \in Requests, a \in Accounts :
          \/ BeginFund(q, a)
          \/ BeginConvert(q, a)
          \/ CreateFunded(q, a)
          \/ \E b \in AccountRef : BeginMove(q, a, b) \/ BeginInterest(q, a, b)
    \/ \E q \in Requests :
          \/ Convert(q)
          \/ Withdraw(q)
          \/ TopUp(q)
          \/ ConfirmInterest(q)
          \/ CloseEarly(q)
          \/ CloseMatured(q)
          \/ Reject(q)
    \/ \E d \in Accounts :
          \/ OpenExisting(d)
          \/ Renew(d)
          \/ \E i \in DOMAIN terms[d] : ReverseRenewal(d, i)
    \/ \E i \in DOMAIN events :
          \/ ReversePrincipal(i)
          \/ ReverseClosure(i)
          \/ ReverseInterest(i)
    \/ Tick

Spec == Init /\ [][Next]_vars

-----------------------------------------------------------------------------
(* Properties.                                                               *)

(* What an event did to the balances when it was recorded.                   *)
Moves(e) ==
    LET outward ==
            IF e.type \in {"withdrawal"} \cup ClosureTypes
            THEN Minus(Delta(e.other, e.amount), Delta(e.deposit, e.amount))
            ELSE IF e.type \in InterestTypes THEN Delta(e.other, e.amount)
            ELSE IF e.type = "opening" THEN NoDelta
            ELSE Minus(Delta(e.deposit, e.amount), Delta(e.other, e.amount))
    IN IF e.reverses = 0 THEN outward ELSE Minus(NoDelta, outward)

Entries == [i \in DOMAIN events |-> Moves(events[i])]

Books == INSTANCE Journal WITH entries <- Entries

NewEvents == DOMAIN events' \ DOMAIN events

(* A closure is compensated together with the final payment of another one,  *)
(* made to another account.                                                  *)
ReversedAmiss ==
    /\ \A i \in DOMAIN events : events'[i] = events[i]
    /\ \E i, j \in NewEvents :
          /\ events'[i].type \in ClosureTypes /\ events'[j].type = "final"
          /\ events'[i].reverses # 0 /\ events'[j].reverses # 0
          /\ events'[i].other # events'[j].other /\ events'[j].amount > 0

(* Every operation, reversals and both halves of a closure included, moves   *)
(* every balance by exactly what the events it records say, and no recorded  *)
(* event is ever changed or dropped (docs/adr/0002): with the one exception  *)
(* of the reversals FinalPaidBack is about.                                  *)
JournalSpec ==
    Books!Init /\ [][Books!Next \/ ReversedAmiss]_Books!journalVars

(* _signed_principal_amount, and what a capitalization adds.                 *)
Claims(e) ==
    LET sign == IF e.reverses = 0 THEN 1 ELSE -1
    IN IF e.type \in {"withdrawal"} \cup ClosureTypes THEN -sign * e.amount
       ELSE IF e.type \in PrincipalTypes \/ e.other = e.deposit
       THEN sign * e.amount
       ELSE 0

(* reconcile_deposit: the balance less what the events claim.                *)
Discrepancy(d) ==
    balance[d] -
        SumFunctionOnSet([i \in DOMAIN events |-> Claims(events[i])],
                         {i \in DOMAIN events : events[i].deposit = d})

(* A deposit once reconciled stays so, but for two things: the reversal of   *)
(* its opening position, and an event of another deposit with this one at    *)
(* its other end.                                                            *)
DriftHasCause ==
    [][ \A d \in Accounts :
          IsDeposit(d) /\ Discrepancy(d)' # Discrepancy(d) =>
             \E i \in NewEvents :
                LET e == events'[i] IN
                \/ e.deposit = d /\ e.type = "opening" /\ e.reverses # 0
                \/ e.deposit # d /\ e.other = d ]_vars

(* A deposit whose current term is closed is archived, and an archived one   *)
(* is empty (close_deposit_early, close_matured_deposit): neither a late     *)
(* request nor a reversal of another event brings money back to it.          *)
ClosedIsEmpty ==
    \A d \in Accounts :
       /\ IsDeposit(d) /\ CurrentTerm(d).closed => archived[d]
       /\ archived[d] => IsDeposit(d) /\ balance[d] = 0

(* Terms of a deposit never overlap, however often it is renewed and its     *)
(* renewals are reversed (renew_matured_deposit).                            *)
TermsApart ==
    \A d \in Accounts : \A i, j \in DOMAIN terms[d] :
       i # j => ~Overlap(terms[d][i], terms[d][j])

(* The term with is_current is the last of those whose renewal stands        *)
(* (mark_term_not_current, set_current_term).                                *)
CurrentIsLast ==
    \A d \in Accounts : IsDeposit(d) =>
       /\ current[d] \in DOMAIN terms[d]
       /\ ~CurrentTerm(d).undone
       /\ \A i \in DOMAIN terms[d] :
             i # current[d] /\ ~terms[d][i].undone =>
                terms[d][i].matures < CurrentTerm(d).opened

(* An event is compensated at most once, by a later event of the same        *)
(* deposit, type, amount and accounts, and a compensating event never        *)
(* (_validate_reversal_source).                                              *)
CompensatedOnce ==
    \A i \in DOMAIN events :
       LET r == events[i].reverses IN
       r # 0 =>
          /\ r < i
          /\ events[r] = [events[i] EXCEPT !.reverses = 0]
          /\ \A j \in DOMAIN events : events[j].reverses = r => j = i

(* No account is overdrawn, whatever the requests have read before           *)
(* (validate_account_balance, under the lock of the accounts).               *)
NeverOverdrawn == \A d \in Accounts : balance[d] >= 0

(* Both: what every operation may count on.                                  *)
DepositsInv == DepositsTypeOK /\ NeverOverdrawn

(* The events of a deposit account for its balance (docs/adr/0004), at least *)
(* while the event that began it stands.                                     *)
EventsTellBalance ==
    \A d \in Accounts :
       LiveOf(d, {"opening", "funding"}) # {} => Discrepancy(d) = 0

(* What the reversal of a closure takes back is the final payment made with  *)
(* that closure (get_closure_interest_event_for_update).                     *)
FinalPaidBack == [][~ReversedAmiss]_vars
=============================================================================
