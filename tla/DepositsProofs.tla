--------------------------- MODULE DepositsProofs ---------------------------
(* Proofs about term deposits, for any accounts, requests, sums and bounds.  *)
EXTENDS Deposits, SumProofs, SequenceTheorems

USE BalanceLimitAssumption, NoneAssumption, DepositsAssumption

-----------------------------------------------------------------------------
(* The inductive invariant, part by part.  An account without a row is empty *)
(* and an archived one is a deposit that is empty; what a request has read   *)
(* is of a deposit that is there and of another account; the terms whose     *)
(* renewal stands follow each other, the term a renewal goes back to being   *)
(* open and the one just before.                                             *)
AccountOK(a) ==
    /\ ~Exists(a) => balance[a] = 0
    /\ IsDeposit(a) => kind[a] = "deposit"
    /\ IsDeposit(a) /\ CurrentTerm(a).closed => archived[a]
    /\ archived[a] => IsDeposit(a) /\ balance[a] = 0

AccountsOK ==
    /\ BalancesTypeOK /\ today \in Days
    /\ NeverOverdrawn
    /\ \A a \in Accounts : AccountOK(a)

ReadFits(read) ==
    /\ read \in Read
    /\ read.op = "fund" => Exists(read.account)
    /\ read.op \in {"move", "interest"} => IsDeposit(read.deposit)
    /\ read.op = "move" => read.account # read.deposit
    /\ read.op = "convert" => read.balance >= 0

ReadsOK == reads \in [Requests -> Read] /\ \A q \in Requests : ReadFits(reads[q])

EventFits(e) ==
    /\ e \in Event /\ IsDeposit(e.deposit)
    /\ e.type \in {"funding", "topUp", "withdrawal"} => e.amount > 0
    /\ e.type \notin {"opening", "interest"} => e.other # e.deposit

EventsOK ==
    /\ events \in Seq(Event) /\ Len(events) <= MaxEvents
    /\ \A i \in DOMAIN events : EventFits(events[i])
    /\ CompensatedOnce

(* What one deposit's terms ts look like while its c-th is current.          *)
Chained(ts, c) ==
    /\ ts \in Seq(Term) /\ Len(ts) <= MaxTerms
    /\ \A i \in DOMAIN ts : ts[i].opened <= ts[i].matures
    /\ \A i, j \in DOMAIN ts : i # j => ~Overlap(ts[i], ts[j])
    /\ ts # <<>> =>
        /\ c \in DOMAIN ts /\ ~ts[c].undone
        /\ \A i \in DOMAIN ts : i # c /\ ~ts[i].undone => ts[i].matures < ts[c].opened
    /\ \A i \in DOMAIN ts : ~ts[i].undone /\ ts[i].from # 0 =>
        LET f == ts[i].from IN
        /\ f \in DOMAIN ts /\ ~ts[f].undone /\ ~ts[f].closed
        /\ ts[f].matures < ts[i].opened
        /\ \A j \in DOMAIN ts \ {i, f} : ~ts[j].undone =>
              ts[j].matures < ts[f].opened \/ ts[i].matures < ts[j].opened

TermsOK ==
    /\ terms \in [Accounts -> Seq(Term)]
    /\ current \in [Accounts -> 0 .. MaxTerms]
    /\ \A d \in Accounts : Chained(terms[d], current[d])

DInv == AccountsOK /\ ReadsOK /\ EventsOK /\ TermsOK

-----------------------------------------------------------------------------
(* The terms of one deposit.                                                 *)

LEMMA ChainFacts ==
    ASSUME NEW ts, NEW c, Chained(ts, c)
    PROVE  /\ ts \in Seq(Term) /\ Len(ts) \in Nat /\ DOMAIN ts = 1 .. Len(ts)
           /\ \A i \in DOMAIN ts :
                /\ ts[i] \in Term /\ ts[i].opened \in Nat /\ ts[i].matures \in Nat
                /\ ts[i].from \in Nat
                /\ ts[i].opened <= ts[i].matures
<1>1. ts \in Seq(Term) /\ \A i \in DOMAIN ts : ts[i].opened <= ts[i].matures
  BY DEF Chained
<1>2. \A i \in DOMAIN ts : ts[i] \in Term
  BY <1>1
<1>3. \A t \in Term : t.opened \in Nat /\ t.matures \in Nat /\ t.from \in Nat
  BY DEF Term, Days
<1> QED
  BY <1>1, <1>2, <1>3

(* No renewal that stands goes back to the current term.                     *)
LEMMA NothingFromCurrent ==
    ASSUME NEW ts, NEW c, Chained(ts, c), ts # <<>>,
           NEW i \in DOMAIN ts, ~ts[i].undone, ts[i].from # 0
    PROVE  ts[i].from # c
<1> SUFFICES ASSUME ts[i].from = c PROVE FALSE
  OBVIOUS
<1>1. /\ c \in DOMAIN ts /\ ts[c].matures < ts[i].opened
      /\ i # c => ts[i].matures < ts[c].opened
  BY DEF Chained
<1>2. /\ ts[i].opened \in Nat /\ ts[i].matures \in Nat
      /\ ts[c].opened \in Nat /\ ts[c].matures \in Nat
      /\ ts[i].opened <= ts[i].matures /\ ts[c].opened <= ts[c].matures
  BY <1>1, ChainFacts
<1> QED
  BY <1>1, <1>2

(* What a change of flags keeps of the terms.                                *)
SameDates(ts, us) ==
    /\ us \in Seq(Term) /\ Len(us) = Len(ts) /\ DOMAIN us = DOMAIN ts
    /\ \A i \in DOMAIN ts :
        /\ us[i].opened = ts[i].opened /\ us[i].matures = ts[i].matures
        /\ us[i].from = ts[i].from

LEMMA ChainFirst ==
    ASSUME NEW t \in Term, t.opened <= t.matures, t.from = 0, ~t.undone
    PROVE  Chained(<<t>>, 1)
<1>1. /\ <<t>> \in Seq(Term) /\ Len(<<t>>) = 1 /\ DOMAIN <<t>> = {1} /\ <<t>>[1] = t
      /\ <<t>> # <<>>
  OBVIOUS
<1> QED
  BY <1>1 DEF Chained

LEMMA ChainCloses ==
    ASSUME NEW ts, NEW c, Chained(ts, c), ts # <<>>, NEW us, SameDates(ts, us),
           \A i \in DOMAIN ts : us[i].undone = ts[i].undone,
           \A i \in DOMAIN ts : i # c => us[i].closed = ts[i].closed
    PROVE  Chained(us, c) /\ us # <<>>
<1>1. /\ us # <<>> /\ DOMAIN us = DOMAIN ts
      /\ us \in Seq(Term) /\ Len(us) <= MaxTerms
  BY ChainFacts DEF Chained, SameDates
<1>2. \A i, j \in DOMAIN us : Overlap(us[i], us[j]) <=> Overlap(ts[i], ts[j])
  BY <1>1 DEF Overlap, SameDates
<1>3. ASSUME NEW i \in DOMAIN us, ~us[i].undone, us[i].from # 0
      PROVE  LET f == us[i].from IN
             /\ f \in DOMAIN us /\ ~us[f].undone /\ ~us[f].closed
             /\ us[f].matures < us[i].opened
             /\ \A j \in DOMAIN us \ {i, f} : ~us[j].undone =>
                   us[j].matures < us[f].opened \/ us[i].matures < us[j].opened
  <2>1. /\ i \in DOMAIN ts /\ ~ts[i].undone /\ ts[i].from # 0 /\ us[i].from = ts[i].from
    BY <1>1, <1>3 DEF SameDates
  <2>2. PICK f : f = ts[i].from
    OBVIOUS
  <2>3. f # c
    BY <2>1, <2>2, NothingFromCurrent
  <2>4. /\ f \in DOMAIN ts /\ ~ts[f].undone /\ ~ts[f].closed
        /\ ts[f].matures < ts[i].opened
        /\ \A j \in DOMAIN ts \ {i, f} : ~ts[j].undone =>
              ts[j].matures < ts[f].opened \/ ts[i].matures < ts[j].opened
    BY <2>1, <2>2 DEF Chained
  <2> QED
    BY <1>1, <2>1, <2>2, <2>3, <2>4 DEF SameDates
<1> QED
  BY <1>1, <1>2, <1>3 DEF Chained, SameDates

LEMMA ChainUndoes ==
    ASSUME NEW ts, NEW c, Chained(ts, c), ts # <<>>, NEW us, SameDates(ts, us),
           ts[c].from # 0, us[c].undone,
           \A i \in DOMAIN ts : us[i].closed = ts[i].closed,
           \A i \in DOMAIN ts : i # c => us[i].undone = ts[i].undone
    PROVE  /\ Chained(us, ts[c].from) /\ us # <<>>
           /\ ts[c].from \in DOMAIN ts /\ ~ts[ts[c].from].closed
<1>1. /\ us # <<>> /\ DOMAIN us = DOMAIN ts /\ c \in DOMAIN ts
      /\ us \in Seq(Term) /\ Len(us) <= MaxTerms
      /\ ~ts[c].undone
  BY ChainFacts DEF Chained, SameDates
<1>2. PICK p : p = ts[c].from
  OBVIOUS
<1>3. /\ p \in DOMAIN ts /\ ~ts[p].undone /\ ~ts[p].closed /\ p # c
      /\ \A j \in DOMAIN ts \ {c, p} : ~ts[j].undone =>
            ts[j].matures < ts[p].opened \/ ts[c].matures < ts[j].opened
  BY <1>1, <1>2, NothingFromCurrent DEF Chained
<1>4. \A i, j \in DOMAIN us : Overlap(us[i], us[j]) <=> Overlap(ts[i], ts[j])
  BY <1>1 DEF Overlap, SameDates
<1>5. ASSUME NEW i \in DOMAIN us, i # p, ~us[i].undone
      PROVE  us[i].matures < us[p].opened
  <2>1. i \in DOMAIN ts /\ ~ts[i].undone /\ i # c
    BY <1>1, <1>5
  <2>2. ts[i].matures < ts[c].opened
    BY <2>1 DEF Chained
  <2>3. /\ ts[i].opened \in Nat /\ ts[i].matures \in Nat /\ ts[i].opened <= ts[i].matures
        /\ ts[c].opened \in Nat /\ ts[c].matures \in Nat /\ ts[c].opened <= ts[c].matures
    BY <1>1, <2>1, ChainFacts
  <2>4. ~(ts[c].matures < ts[i].opened)
    BY <2>2, <2>3
  <2> QED
    BY <1>3, <1>5, <2>1, <2>4 DEF SameDates
<1>6. ASSUME NEW i \in DOMAIN us, ~us[i].undone, us[i].from # 0
      PROVE  LET f == us[i].from IN
             /\ f \in DOMAIN us /\ ~us[f].undone /\ ~us[f].closed
             /\ us[f].matures < us[i].opened
             /\ \A j \in DOMAIN us \ {i, f} : ~us[j].undone =>
                   us[j].matures < us[f].opened \/ us[i].matures < us[j].opened
  <2>1. /\ i \in DOMAIN ts /\ ~ts[i].undone /\ ts[i].from # 0 /\ us[i].from = ts[i].from
    BY <1>1, <1>6 DEF SameDates
  <2>2. PICK f : f = ts[i].from
    OBVIOUS
  <2>3. f # c
    BY <2>1, <2>2, NothingFromCurrent
  <2>4. /\ f \in DOMAIN ts /\ ~ts[f].undone /\ ~ts[f].closed
        /\ ts[f].matures < ts[i].opened
        /\ \A j \in DOMAIN ts \ {i, f} : ~ts[j].undone =>
              ts[j].matures < ts[f].opened \/ ts[i].matures < ts[j].opened
    BY <2>1, <2>2 DEF Chained
  <2>5. \A j \in DOMAIN us : ~us[j].undone => ~ts[j].undone
    BY <1>1
  <2> QED
    BY <1>1, <2>1, <2>2, <2>3, <2>4, <2>5 DEF SameDates
<1>7. ~us[p].undone /\ p \in DOMAIN us
  BY <1>1, <1>3
<1>8. Chained(us, p)
  <2>1. \A i \in DOMAIN us : us[i].opened <= us[i].matures
    BY DEF Chained, SameDates
  <2>2. \A i, j \in DOMAIN us : i # j => ~Overlap(us[i], us[j])
    BY <1>1, <1>4 DEF Chained
  <2> QED
    BY <1>1, <1>5, <1>6, <1>7, <2>1, <2>2 DEF Chained
<1> QED
  BY <1>1, <1>2, <1>3, <1>8

LEMMA ChainRenews ==
    ASSUME NEW ts, NEW c, Chained(ts, c), ts # <<>>, Len(ts) < MaxTerms, ~ts[c].closed,
           NEW t \in Term, t.opened <= t.matures, ts[c].matures < t.opened,
           t.from = c, ~t.undone, \A i \in DOMAIN ts : ~Overlap(ts[i], t)
    PROVE  /\ Chained(Append(ts, t), Len(ts) + 1) /\ Append(ts, t) # <<>>
           /\ Append(ts, t)[Len(ts) + 1] = t
<1> DEFINE us == Append(ts, t)
           n == Len(ts) + 1
<1>1. /\ ts \in Seq(Term) /\ Len(ts) \in Nat /\ DOMAIN ts = 1 .. Len(ts)
      /\ c \in DOMAIN ts /\ ~ts[c].undone
      /\ \A i \in DOMAIN ts :
                /\ ts[i] \in Term /\ ts[i].opened \in Nat /\ ts[i].matures \in Nat
                /\ ts[i].from \in Nat
                /\ ts[i].opened <= ts[i].matures
  BY ChainFacts DEF Chained
<1>2. /\ us \in Seq(Term) /\ Len(us) = n /\ DOMAIN us = 1 .. n /\ us[n] = t
      /\ \A i \in DOMAIN ts : us[i] = ts[i]
  BY <1>1, AppendProperties
<1>3. /\ n \notin DOMAIN ts /\ DOMAIN us = DOMAIN ts \cup {n} /\ n \in Nat \ {0}
      /\ n <= MaxTerms /\ us # <<>>
  BY <1>1, <1>2
<1>4. t.opened \in Nat /\ t.matures \in Nat
  BY DEF Term, Days
<1> HIDE DEF us, n
<1>5. ASSUME NEW i \in DOMAIN ts, ~ts[i].undone
      PROVE  ts[i].matures < t.opened
  <2>1. i = c \/ ts[i].matures < ts[c].opened
    BY <1>5 DEF Chained
  <2>2. /\ ts[i].matures \in Nat /\ ts[c].opened \in Nat /\ ts[c].matures \in Nat
        /\ ts[c].opened <= ts[c].matures
    BY <1>1
  <2> QED
    BY <1>4, <2>1, <2>2
<1>6. \A i, j \in DOMAIN us : i # j => ~Overlap(us[i], us[j])
  <2> SUFFICES ASSUME NEW i \in DOMAIN us, NEW j \in DOMAIN us, i # j
               PROVE  ~Overlap(us[i], us[j])
    OBVIOUS
  <2>1. CASE i \in DOMAIN ts /\ j \in DOMAIN ts
    BY <1>2, <2>1 DEF Chained
  <2>2. CASE i \in DOMAIN ts /\ j = n
    BY <1>2, <2>2
  <2>3. CASE i = n /\ j \in DOMAIN ts
    BY <1>2, <2>3 DEF Overlap
  <2> QED
    BY <1>3, <2>1, <2>2, <2>3
<1>7. ASSUME NEW i \in DOMAIN us, ~us[i].undone, us[i].from # 0
      PROVE  LET f == us[i].from IN
             /\ f \in DOMAIN us /\ ~us[f].undone /\ ~us[f].closed
             /\ us[f].matures < us[i].opened
             /\ \A j \in DOMAIN us \ {i, f} : ~us[j].undone =>
                   us[j].matures < us[f].opened \/ us[i].matures < us[j].opened
  <2>1. CASE i \in DOMAIN ts
    <3>1. us[i] = ts[i]
      BY <1>2, <2>1
    <3>2. PICK f : f = ts[i].from
      OBVIOUS
    <3>3. /\ f \in DOMAIN ts /\ ~ts[f].undone /\ ~ts[f].closed
          /\ ts[f].matures < ts[i].opened
          /\ \A j \in DOMAIN ts \ {i, f} : ~ts[j].undone =>
                ts[j].matures < ts[f].opened \/ ts[i].matures < ts[j].opened
      BY <1>7, <2>1, <3>1, <3>2 DEF Chained
    <3>4. ts[i].matures < t.opened
      BY <1>5, <1>7, <2>1, <3>1
    <3> QED
      BY <1>2, <1>3, <3>1, <3>2, <3>3, <3>4
  <2>2. CASE i = n
    <3>1. \A j \in DOMAIN ts \ {c} : ~ts[j].undone => ts[j].matures < ts[c].opened
      BY DEF Chained
    <3> QED
      BY <1>1, <1>2, <1>3, <2>2, <3>1
  <2> QED
    BY <1>3, <2>1, <2>2
<1>8. /\ n \in DOMAIN us /\ ~us[n].undone
      /\ \A i \in DOMAIN us : us[i].opened <= us[i].matures
      /\ \A i \in DOMAIN us : i # n /\ ~us[i].undone => us[i].matures < us[n].opened
  BY <1>1, <1>2, <1>3, <1>5
<1>9. Chained(us, n)
  BY <1>2, <1>3, <1>6, <1>7, <1>8 DEF Chained
<1> QED
  BY <1>2, <1>3, <1>9 DEF us, n

-----------------------------------------------------------------------------
(* How the tables change together.                                           *)

Kept ==
    /\ \A a \in Accounts : IsDeposit(a) => IsDeposit(a)'
    /\ \A a \in Accounts : Exists(a) => Exists(a)'

(* Money moves on accounts that operations may use.                          *)
Moved ==
    /\ balance' \in [Accounts -> Balance] /\ NeverOverdrawn'
    /\ \A a \in Accounts : balance'[a] = balance[a] \/ AvailableForOperations(a)

LEMMA TermsStay ==
    ASSUME TermsOK, UNCHANGED <<terms, current>> PROVE TermsOK'
BY DEF TermsOK

(* Deposit d gets the terms ts, the c-th being current.                      *)
PutTerms(d, ts, c) ==
    /\ terms' = [terms EXCEPT ![d] = ts]
    /\ current' = [current EXCEPT ![d] = c]

LEMMA TermsChange ==
    ASSUME TermsOK, NEW d \in Accounts, NEW ts, NEW c, ts # <<>>, Chained(ts, c),
           PutTerms(d, ts, c)
    PROVE  /\ TermsOK' /\ terms'[d] = ts /\ current'[d] = c
           /\ \A a \in Accounts : a # d => terms'[a] = terms[a] /\ current'[a] = current[a]
<1>1. /\ terms'[d] = ts /\ current'[d] = c
      /\ \A a \in Accounts : a # d => terms'[a] = terms[a] /\ current'[a] = current[a]
  BY DEF TermsOK, PutTerms
<1>2. c \in 0 .. MaxTerms /\ ts \in Seq(Term)
  <2>1. c \in DOMAIN ts /\ Len(ts) <= MaxTerms
    BY DEF Chained
  <2> QED
    BY <2>1, ChainFacts
<1>3. terms' \in [Accounts -> Seq(Term)] /\ current' \in [Accounts -> 0 .. MaxTerms]
  BY <1>2 DEF TermsOK, PutTerms
<1>4. ASSUME NEW a \in Accounts PROVE Chained(terms'[a], current'[a])
  <2>1. CASE a = d
    BY <1>1, <2>1
  <2>2. CASE a # d
    BY <1>1, <2>2 DEF TermsOK
  <2> QED
    BY <2>1, <2>2
<1> QED
  BY <1>1, <1>3, <1>4 DEF TermsOK

(* A step that leaves the accounts' kinds and the terms alone.               *)
LEMMA PlainStep ==
    ASSUME DInv, Moved, EventsOK', ReadsOK', today' \in Days,
           transferLogs' \in [LogIds -> TransferLog \cup {None}],
           UNCHANGED <<kind, archived, terms, current>>
    PROVE  DInv'
<1>1. ASSUME NEW a \in Accounts PROVE AccountOK(a)'
  <2>1. AccountOK(a)
    BY DEF DInv, AccountsOK
  <2> QED
    BY <2>1 DEF AccountOK, Moved, Exists, AvailableForOperations, IsDeposit, CurrentTerm
<1>2. AccountsOK'
  BY <1>1 DEF DInv, AccountsOK, Moved, BalancesTypeOK
<1> QED
  BY <1>2, TermsStay DEF DInv

LEMMA PlainKept ==
    ASSUME UNCHANGED <<kind, terms>> PROVE Kept
BY DEF Kept, IsDeposit, Exists

-----------------------------------------------------------------------------
(* Reads.                                                                    *)

LEMMA ReadsAfter ==
    ASSUME ReadsOK, Kept, NEW q \in Requests, NEW read,
           reads' = [reads EXCEPT ![q] = read], ReadFits(read)'
    PROVE  ReadsOK'
<1>1. /\ reads'[q] = read /\ read \in Read
      /\ \A p \in Requests : p # q => reads'[p] = reads[p]
      /\ reads' \in [Requests -> Read]
  BY DEF ReadsOK, ReadFits
<1>2. ASSUME NEW p \in Requests, p # q PROVE ReadFits(reads[p])'
  <2>1. ReadFits(reads[p]) /\ reads'[p] = reads[p]
    BY <1>1, <1>2 DEF ReadsOK
  <2>2. /\ reads[p].op = "fund" => reads[p].account \in Accounts
        /\ reads[p].op \in {"move", "interest"} => reads[p].deposit \in Accounts
    BY <2>1 DEF ReadFits, Read, Idle
  <2> QED
    BY <2>1, <2>2 DEF ReadFits, Kept
<1> QED
  BY <1>1, <1>2 DEF ReadsOK, ReadFits

LEMMA ReadsStay ==
    ASSUME ReadsOK, Kept, UNCHANGED reads PROVE ReadsOK'
<1>1. ASSUME NEW p \in Requests PROVE ReadFits(reads[p])'
  <2>1. ReadFits(reads[p]) /\ reads'[p] = reads[p]
    BY DEF ReadsOK
  <2>2. /\ reads[p].op = "fund" => reads[p].account \in Accounts
        /\ reads[p].op \in {"move", "interest"} => reads[p].deposit \in Accounts
    BY <2>1 DEF ReadFits, Read, Idle
  <2> QED
    BY <2>1, <2>2 DEF ReadFits, Kept
<1> QED
  BY <1>1 DEF ReadsOK, ReadFits

LEMMA ReadsReleased ==
    ASSUME ReadsOK, Kept, NEW q \in Requests, Release(q) PROVE ReadsOK'
<1>1. ReadFits(Idle)'
  BY DEF ReadFits, Read, Idle
<1> QED
  BY <1>1, ReadsAfter DEF Release

LEMMA WhatIsRead ==
    ASSUME ReadsOK, NEW q \in Requests
    PROVE  /\ Holds(q, "fund") => reads[q].account \in Accounts /\ Exists(reads[q].account)
           /\ Holds(q, "move") =>
                /\ reads[q].deposit \in Accounts /\ IsDeposit(reads[q].deposit)
                /\ reads[q].account \in AccountRef /\ reads[q].account # reads[q].deposit
           /\ Holds(q, "interest") =>
                /\ reads[q].deposit \in Accounts /\ IsDeposit(reads[q].deposit)
                /\ reads[q].account \in AccountRef
           /\ Holds(q, "convert") =>
                reads[q].account \in Accounts /\ reads[q].balance \in 0 .. BalanceLimit
<1>1. ReadFits(reads[q])
  BY DEF ReadsOK
<1> QED
  BY <1>1 DEF ReadFits, Read, Idle, Holds, Balance

-----------------------------------------------------------------------------
(* Events.                                                                   *)

LEMMA FitsStay ==
    ASSUME NEW e, EventFits(e), Kept PROVE EventFits(e)'
<1>1. e.deposit \in Accounts
  BY DEF EventFits, Event
<1> QED
  BY <1>1 DEF EventFits, Kept

LEMMA EventsFitStill ==
    ASSUME EventsOK, Kept, NEW i \in DOMAIN events,
           NEW e, e = events[i]
    PROVE  EventFits(e)'
BY FitsStay DEF EventsOK

LEMMA EventsStay ==
    ASSUME EventsOK, Kept, UNCHANGED events PROVE EventsOK'
<1>1. ASSUME NEW i \in DOMAIN events PROVE EventFits(events[i])'
  <2>1. PICK e : e = events[i] /\ EventFits(e)
    BY DEF EventsOK
  <2>2. EventFits(e)'
    BY <2>1, FitsStay
  <2> QED
    BY <2>1, <2>2 DEF EventFits
<1> QED
  BY <1>1 DEF EventsOK, CompensatedOnce, EventFits

LEMMA EventFacts ==
    ASSUME EventsOK
    PROVE  /\ Len(events) \in Nat /\ DOMAIN events = 1 .. Len(events)
           /\ \A i \in DOMAIN events : events[i] \in Event
BY DEF EventsOK

(* A compensation is an event like the one it undoes.                        *)
LEMMA CompensationFits ==
    ASSUME EventsOK, NEW i \in DOMAIN events, Len(events) < MaxEvents
    PROVE  /\ EventFits(Compensation(i))
           /\ Compensation(i).reverses = i
           /\ [Compensation(i) EXCEPT !.reverses = 0] = [events[i] EXCEPT !.reverses = 0]
           /\ Compensation(i).deposit = events[i].deposit
           /\ Compensation(i).type = events[i].type
           /\ Compensation(i).amount = events[i].amount
           /\ Compensation(i).other = events[i].other
<1>1. EventFits(events[i]) /\ events[i] \in Event /\ i \in 0 .. MaxEvents
  BY EventFacts DEF EventsOK
<1> QED
  BY <1>1 DEF Compensation, Event, EventFits

(* A new event is original, or undoes what no other event undoes.            *)
Undoes(e, i) ==
    \/ e.reverses = 0
    \/ /\ e.reverses \in DOMAIN events /\ Live(e.reverses)
       /\ events[e.reverses] = [e EXCEPT !.reverses = 0]
       /\ \A j \in NewEvents : events'[j].reverses = e.reverses => j = i

(* EventFits(e)' of an event that is there only now.                         *)
FitsNow(e) ==
    /\ e \in Event /\ terms'[e.deposit] # <<>>
    /\ e.type \in {"funding", "topUp", "withdrawal"} => e.amount > 0
    /\ e.type \notin {"opening", "interest"} => e.other # e.deposit

LEMMA EventsGrow ==
    ASSUME EventsOK, events' \in Seq(Event),
           Len(events) <= Len(events'), Len(events') <= MaxEvents,
           \A i \in DOMAIN events : events'[i] = events[i],
           Kept,
           \A i \in NewEvents : FitsNow(events'[i]) /\ Undoes(events'[i], i)
    PROVE  EventsOK'
<1>1. /\ DOMAIN events = 1 .. Len(events) /\ Len(events) \in Nat
      /\ DOMAIN events' = 1 .. Len(events') /\ Len(events') \in Nat
      /\ DOMAIN events \subseteq DOMAIN events'
  BY EventFacts
<1>2. \A i \in DOMAIN events' : i \in DOMAIN events \/ i \in NewEvents
  BY DEF NewEvents
<1>3. \A i \in DOMAIN events' : events'[i].reverses \in Nat
  <2>1. \A e \in Event : e.reverses \in Nat
    BY DEF Event
  <2> QED
    BY <2>1, <1>1
<1>4. ASSUME NEW i \in DOMAIN events', NEW r, r = events'[i].reverses, r # 0
      PROVE  /\ r < i /\ events'[r] = [events'[i] EXCEPT !.reverses = 0]
             /\ \A j \in DOMAIN events' : events'[j].reverses = r => j = i
  <2>1. CASE i \in DOMAIN events
    <3>1. events'[i] = events[i]
      BY <2>1
    <3>2. /\ r < i /\ events[r] = [events[i] EXCEPT !.reverses = 0]
          /\ \A j \in DOMAIN events : events[j].reverses = r => j = i
      BY <1>4, <2>1, <3>1 DEF EventsOK, CompensatedOnce
    <3>3. r \in DOMAIN events
      BY <1>1, <1>3, <1>4, <2>1, <3>2
    <3>4. ASSUME NEW j \in NewEvents, events'[j].reverses = r PROVE FALSE
      <4>1. Undoes(events'[j], j)
        OBVIOUS
      <4>2. ~Reversed(r)
        BY <1>4, <3>4, <4>1 DEF Undoes, Live
      <4> QED
        BY <1>4, <2>1, <3>1, <4>2 DEF Reversed
    <3> QED
      BY <1>2, <3>1, <3>2, <3>3, <3>4
  <2>2. CASE i \in NewEvents
    <3>1. /\ r \in DOMAIN events /\ Live(r)
          /\ events[r] = [events'[i] EXCEPT !.reverses = 0]
          /\ \A j \in NewEvents : events'[j].reverses = r => j = i
      BY <1>4, <2>2 DEF Undoes
    <3>2. r < i
      BY <1>1, <2>2, <3>1 DEF NewEvents
    <3>3. \A j \in DOMAIN events : events'[j].reverses # r
      BY <3>1 DEF Live, Reversed
    <3> QED
      BY <1>2, <3>1, <3>2, <3>3
  <2> QED
    BY <1>2, <2>1, <2>2
<1>5. CompensatedOnce'
  BY <1>4 DEF CompensatedOnce
<1>6. ASSUME NEW i \in DOMAIN events PROVE FitsNow(events'[i])
  <2>1. EventFits(events[i]) /\ events[i].deposit \in Accounts /\ events'[i] = events[i]
    BY EventFacts DEF EventsOK, Event
  <2> QED
    BY <2>1 DEF EventFits, FitsNow, Kept, IsDeposit
<1>7. \A i \in DOMAIN events' : EventFits(events[i])'
  BY <1>2, <1>6 DEF EventFits, FitsNow, IsDeposit
<1> QED
  BY <1>5, <1>7 DEF EventsOK

LEMMA RecordOne ==
    ASSUME EventsOK, NEW e \in Event, RecordEvents(<<e>>)
    PROVE  /\ events' \in Seq(Event) /\ Len(events') = Len(events) + 1
           /\ Len(events') <= MaxEvents /\ Len(events) < MaxEvents
           /\ DOMAIN events' = 1 .. Len(events) + 1
           /\ \A i \in DOMAIN events : events'[i] = events[i]
           /\ NewEvents = {Len(events) + 1} /\ events'[Len(events) + 1] = e
           /\ events' = Append(events, e)
<1>1. /\ events \in Seq(Event) /\ Len(events) \in Nat /\ DOMAIN events = 1 .. Len(events)
  BY DEF EventsOK
<1>2. events' = events \o <<e>> /\ Len(events) + 1 <= MaxEvents
  BY DEF RecordEvents
<1>3. events \o <<e>> = Append(events, e)
  BY <1>1, AppendIsConcat
<1>4. /\ events' \in Seq(Event) /\ Len(events') = Len(events) + 1
      /\ \A i \in 1 .. Len(events) : events'[i] = events[i]
      /\ events'[Len(events) + 1] = e
  BY <1>1, <1>2, <1>3, AppendProperties
<1> QED
  BY <1>1, <1>2, <1>3, <1>4 DEF NewEvents

LEMMA RecordTwo ==
    ASSUME EventsOK, NEW e \in Event, NEW f \in Event, RecordEvents(<<e, f>>)
    PROVE  /\ events' \in Seq(Event) /\ Len(events') = Len(events) + 2
           /\ Len(events') <= MaxEvents /\ Len(events) < MaxEvents
           /\ DOMAIN events' = 1 .. Len(events) + 2
           /\ \A i \in DOMAIN events : events'[i] = events[i]
           /\ NewEvents = {Len(events) + 1, Len(events) + 2}
           /\ events'[Len(events) + 1] = e /\ events'[Len(events) + 2] = f
<1>1. /\ events \in Seq(Event) /\ Len(events) \in Nat /\ DOMAIN events = 1 .. Len(events)
  BY DEF EventsOK
<1>2. events' = events \o <<e, f>> /\ Len(events) + 2 <= MaxEvents
  BY DEF RecordEvents
<1>3. <<e, f>> \in Seq(Event) /\ Len(<<e, f>>) = 2
  OBVIOUS
<1>4. /\ events' \in Seq(Event) /\ Len(events') = Len(events) + 2
      /\ \A i \in 1 .. Len(events') : events'[i] =
            IF i <= Len(events) THEN events[i] ELSE <<e, f>>[i - Len(events)]
  BY <1>1, <1>2, <1>3, ConcatProperties
<1>5. events'[Len(events) + 1] = e /\ events'[Len(events) + 2] = f
  BY <1>1, <1>4
<1> QED
  BY <1>1, <1>2, <1>4, <1>5 DEF NewEvents

(* One original event, or two.                                               *)
LEMMA OriginalRecorded ==
    ASSUME EventsOK, Kept, NEW e, FitsNow(e), e.reverses = 0, RecordEvents(<<e>>)
    PROVE  EventsOK'
<1>1. e \in Event
  BY DEF FitsNow
<1> QED
  BY <1>1, RecordOne, EventsGrow DEF Undoes

LEMMA OriginalsRecorded ==
    ASSUME EventsOK, Kept, NEW e, FitsNow(e), e.reverses = 0,
           NEW f, FitsNow(f), f.reverses = 0, RecordEvents(<<e, f>>)
    PROVE  EventsOK'
<1>1. e \in Event /\ f \in Event
  BY DEF FitsNow
<1> QED
  BY <1>1, RecordTwo, EventsGrow DEF Undoes

LEMMA FitsNext ==
    ASSUME Kept, NEW e, EventFits(e) PROVE FitsNow(e)
BY DEF Kept, EventFits, FitsNow, Event, IsDeposit

(* One compensation, or those of a closure's two events.                     *)
LEMMA CompensationRecorded ==
    ASSUME EventsOK, Kept, NEW i \in DOMAIN events, Live(i),
           RecordEvents(<<Compensation(i)>>)
    PROVE  EventsOK'
<1>1. Len(events) < MaxEvents
  BY EventFacts DEF RecordEvents
<1>2. PICK e : e = Compensation(i)
  OBVIOUS
<1>3. /\ EventFits(e) /\ e \in Event /\ e.reverses = i
      /\ events[i] = [e EXCEPT !.reverses = 0]
  <2>1. events[i].reverses = 0 /\ events[i] \in Event
    BY EventFacts DEF Live
  <2>2. [events[i] EXCEPT !.reverses = 0] = events[i]
    BY <2>1 DEF Event
  <2> QED
    BY <1>1, <1>2, <2>2, CompensationFits DEF EventFits
<1>4. NewEvents = {Len(events) + 1} /\ events'[Len(events) + 1] = e
  BY <1>2, <1>3, RecordOne
<1>5. Undoes(e, Len(events) + 1)
  BY <1>3, <1>4 DEF Undoes
<1> QED
  BY <1>2, <1>3, <1>4, <1>5, RecordOne, EventsGrow, FitsNext

LEMMA CompensationsRecorded ==
    ASSUME EventsOK, Kept, NEW i \in DOMAIN events, Live(i),
           NEW j \in DOMAIN events, Live(j), i # j,
           RecordEvents(<<Compensation(i), Compensation(j)>>)
    PROVE  EventsOK'
<1>1. Len(events) < MaxEvents
  BY EventFacts DEF RecordEvents
<1>2. PICK e, f : e = Compensation(i) /\ f = Compensation(j)
  OBVIOUS
<1>3. /\ EventFits(e) /\ e \in Event /\ e.reverses = i
      /\ events[i] = [e EXCEPT !.reverses = 0]
      /\ EventFits(f) /\ f \in Event /\ f.reverses = j
      /\ events[j] = [f EXCEPT !.reverses = 0]
  <2>1. /\ events[i].reverses = 0 /\ events[i] \in Event
        /\ events[j].reverses = 0 /\ events[j] \in Event
    BY EventFacts DEF Live
  <2>2. /\ [events[i] EXCEPT !.reverses = 0] = events[i]
        /\ [events[j] EXCEPT !.reverses = 0] = events[j]
    BY <2>1 DEF Event
  <2> QED
    BY <1>1, <1>2, <2>2, CompensationFits DEF EventFits
<1>4. /\ NewEvents = {Len(events) + 1, Len(events) + 2}
      /\ events'[Len(events) + 1] = e /\ events'[Len(events) + 2] = f
  BY <1>2, <1>3, RecordTwo
<1>5. Undoes(e, Len(events) + 1) /\ Undoes(f, Len(events) + 2)
  BY <1>3, <1>4 DEF Undoes
<1> QED
  BY <1>2, <1>3, <1>4, <1>5, RecordTwo, EventsGrow, FitsNext

-----------------------------------------------------------------------------
(* Deltas.                                                                   *)

LEMMA DeltaTypes ==
    /\ NoDelta \in Deltas
    /\ \A a, x : x \in Int => Delta(a, x) \in Deltas
    /\ \A a, x, b, y : x \in Int /\ y \in Int => PairDelta(a, x, b, y) \in Deltas
BY DEF NoDelta, Delta, PairDelta, Deltas

LEMMA Numbers ==
    /\ Amount \subseteq Nat /\ Amount \subseteq Balance /\ 0 \in Balance /\ Balance \subseteq Int
    /\ \A x \in Sums : x \in Amount /\ x \in Nat /\ -x \in Int
    /\ \A x \in Sums \cup {0} : x \in 0 .. BalanceLimit /\ x \in Balance
BY DEF Amount, Balance

LEMMA Applied ==
    ASSUME BalancesTypeOK, NeverOverdrawn, NEW d \in Deltas, CanApply(d),
           balance' = Plus(balance, d)
    PROVE  Moved
<1>1. ASSUME NEW a \in Accounts
      PROVE  /\ balance'[a] \in Balance /\ balance'[a] >= 0
             /\ balance'[a] = balance[a] \/ AvailableForOperations(a)
  <2>1. /\ balance'[a] = balance[a] + d[a] /\ d[a] \in Int
        /\ balance[a] \in Balance /\ balance[a] \in Int /\ balance[a] >= 0
    BY Numbers DEF Plus, Deltas, BalancesTypeOK, NeverOverdrawn
  <2>2. CASE d[a] = 0
    BY <2>1, <2>2
  <2>3. CASE d[a] # 0
    BY <2>1, <2>3 DEF CanApply, HasFunds
  <2> QED
    BY <2>2, <2>3
<1>2. balance' = [a \in Accounts |-> balance'[a]]
  BY DEF Plus
<1>3. balance' \in [Accounts -> Balance]
  BY <1>1, <1>2
<1> QED
  BY <1>1, <1>3 DEF Moved, NeverOverdrawn

LEMMA NotMoved ==
    ASSUME BalancesTypeOK, NeverOverdrawn, UNCHANGED balance PROVE Moved
BY DEF Moved, BalancesTypeOK, NeverOverdrawn

-----------------------------------------------------------------------------
(* One step at a time: reads and days.                                       *)

LEMMA ReadStep ==
    ASSUME DInv, ReadsOK', today' \in Days, UNCHANGED <<accountVars, terms, current, events>>
    PROVE  DInv'
<1>1. Kept /\ Moved
  BY PlainKept, NotMoved DEF DInv, AccountsOK, accountVars
<1>2. EventsOK'
  BY <1>1, EventsStay DEF DInv
<1> QED
  BY <1>1, <1>2, PlainStep DEF DInv, AccountsOK, BalancesTypeOK, accountVars

LEMMA HoldKeeps ==
    ASSUME DInv, NEW q \in Requests, NEW read, Hold(q, read), ReadFits(read)'
    PROVE  DInv'
<1>1. Kept
  BY PlainKept DEF Hold, accountVars
<1>2. ReadsOK'
  BY <1>1, ReadsAfter DEF Hold, DInv
<1> QED
  BY <1>2, ReadStep DEF Hold, DInv, AccountsOK

LEMMA BeginKeeps ==
    ASSUME DInv, NEW q \in Requests, NEW a \in Accounts,
           \/ BeginFund(q, a) \/ BeginConvert(q, a)
           \/ \E b \in AccountRef : BeginMove(q, a, b) \/ BeginInterest(q, a, b)
    PROVE  DInv'
<1>1. CASE BeginFund(q, a)
  <2>1. PICK read : read = [op |-> "fund", account |-> a]
    OBVIOUS
  <2>2. ReadFits(read)'
    BY <1>1, <2>1 DEF BeginFund, AvailableForRegularOperations, AvailableForOperations,
                      Hold, accountVars, Exists, ReadFits, Read
  <2> QED
    BY <1>1, <2>1, <2>2, HoldKeeps DEF BeginFund
<1>2. CASE BeginConvert(q, a)
  <2>1. PICK n \in Balance : n = balance[a] /\ n >= 0
    BY <1>2 DEF BeginConvert, DInv, AccountsOK, BalancesTypeOK
  <2>2. PICK read : read = [op |-> "convert", account |-> a, balance |-> n]
    OBVIOUS
  <2>3. ReadFits(read)'
    BY <2>1, <2>2 DEF ReadFits, Read
  <2> QED
    BY <1>2, <2>1, <2>2, <2>3, HoldKeeps DEF BeginConvert
<1>3. ASSUME NEW b \in AccountRef, BeginMove(q, a, b) PROVE DInv'
  <2>1. PICK read : read = [op |-> "move", deposit |-> a, account |-> b]
    OBVIOUS
  <2>2. b # a
    BY <1>3 DEF BeginMove, AvailableForRegularOperations, DInv, AccountsOK, AccountOK
  <2>3. ReadFits(read)'
    BY <1>3, <2>1, <2>2 DEF BeginMove, Hold, IsDeposit, ReadFits, Read
  <2> QED
    BY <1>3, <2>1, <2>3, HoldKeeps DEF BeginMove
<1>4. ASSUME NEW b \in AccountRef, BeginInterest(q, a, b) PROVE DInv'
  <2>1. PICK read : read = [op |-> "interest", deposit |-> a, account |-> b]
    OBVIOUS
  <2>2. ReadFits(read)'
    BY <1>4, <2>1 DEF BeginInterest, Hold, IsDeposit, ReadFits, Read
  <2> QED
    BY <1>4, <2>1, <2>2, HoldKeeps DEF BeginInterest
<1> QED
  BY <1>1, <1>2, <1>3, <1>4

LEMMA RejectKeeps ==
    ASSUME DInv, NEW q \in Requests, Reject(q) PROVE DInv'
<1>1. ReadsOK'
  BY PlainKept, ReadsReleased DEF Reject, DInv, accountVars
<1> QED
  BY <1>1, ReadStep DEF Reject, DInv, AccountsOK

LEMMA TickKeeps ==
    ASSUME DInv, Tick PROVE DInv'
<1>1. ReadsOK'
  BY PlainKept, ReadsStay DEF Tick, DInv, accountVars
<1>2. today' \in Days
  BY DEF Tick, Days, DInv, AccountsOK
<1> QED
  BY <1>1, <1>2, ReadStep DEF Tick

-----------------------------------------------------------------------------
(* New deposits.                                                             *)

LEMMA AgreeFacts ==
    ASSUME DInv, NEW d \in Accounts, ~IsDeposit(d), Agree(d)
    PROVE  /\ Kept /\ TermsOK'
           /\ terms'[d] # <<>> /\ ~terms'[d][current'[d]].closed
           /\ \A a \in Accounts : a # d =>
                terms'[a] = terms[a] /\ current'[a] = current[a]
<1>0. PICK opened \in Days, matures \in Days :
        /\ opened <= matures
        /\ terms' = [terms EXCEPT ![d] =
              <<[opened |-> opened, matures |-> matures, closed |-> FALSE,
                 from |-> 0, undone |-> FALSE]>>]
  BY DEF Agree
<1>1. PICK t :
        /\ t = [opened |-> opened, matures |-> matures, closed |-> FALSE,
                from |-> 0, undone |-> FALSE]
        /\ terms' = [terms EXCEPT ![d] = <<t>>]
  BY <1>0
<1>2. t \in Term /\ t.opened <= t.matures /\ t.from = 0 /\ ~t.undone /\ ~t.closed
  BY <1>0, <1>1 DEF Term
<1>3. Chained(<<t>>, 1) /\ <<t>> # <<>> /\ <<t>>[1] = t
  BY <1>2, ChainFirst
<1>4. PICK c : c = 1 /\ current' = [current EXCEPT ![d] = c]
  BY DEF Agree
<1>5. PICK ts : /\ ts = <<t>> /\ ts # <<>> /\ Chained(ts, c)
                /\ PutTerms(d, ts, c)
  BY <1>1, <1>3, <1>4 DEF PutTerms
<1>6. /\ TermsOK' /\ terms'[d] = ts /\ current'[d] = c
      /\ \A a \in Accounts : a # d => terms'[a] = terms[a] /\ current'[a] = current[a]
  <2>1. TermsOK
    BY DEF DInv
  <2> QED
    BY <1>5, <2>1, TermsChange
<1>7. kind' = [kind EXCEPT ![d] = "deposit"] /\ kind \in [Accounts -> Kinds]
  BY DEF Agree, DInv, AccountsOK, BalancesTypeOK
<1>8. Kept
  BY <1>3, <1>5, <1>6, <1>7 DEF Kept, IsDeposit, Exists, Kinds
<1> QED
  BY <1>2, <1>3, <1>4, <1>5, <1>6, <1>8

LEMMA AgreeKeeps ==
    ASSUME DInv, NEW d \in Accounts, ~IsDeposit(d), Agree(d),
           balance' \in [Accounts -> Balance], NeverOverdrawn',
           \A a \in Accounts : a # d =>
              balance'[a] = balance[a] \/ AvailableForOperations(a),
           EventsOK', ReadsOK'
    PROVE  DInv'
<1>1. /\ TermsOK' /\ terms'[d] # <<>> /\ ~terms'[d][current'[d]].closed
      /\ \A a \in Accounts : a # d => terms'[a] = terms[a] /\ current'[a] = current[a]
  BY AgreeFacts
<1>2. /\ kind' = [kind EXCEPT ![d] = "deposit"] /\ kind \in [Accounts -> Kinds]
      /\ UNCHANGED <<archived, transferLogs, today>>
  BY DEF Agree, DInv, AccountsOK, BalancesTypeOK
<1>3. kind' \in [Accounts -> Kinds] /\ kind'[d] = "deposit"
      /\ \A a \in Accounts : a # d => kind'[a] = kind[a]
  BY <1>2 DEF Kinds
<1>4. ASSUME NEW a \in Accounts PROVE AccountOK(a)'
  <2>1. AccountOK(a)
    BY DEF DInv, AccountsOK
  <2>2. CASE a = d
    BY <1>1, <1>2, <1>3, <2>1, <2>2
       DEF AccountOK, Exists, IsDeposit, CurrentTerm
  <2>3. CASE a # d
    BY <1>1, <1>2, <1>3, <2>1, <2>3
       DEF AccountOK, Exists, IsDeposit, CurrentTerm, AvailableForOperations
  <2> QED
    BY <2>2, <2>3
<1>5. AccountsOK'
  BY <1>2, <1>3, <1>4 DEF DInv, AccountsOK, BalancesTypeOK
<1> QED
  BY <1>1, <1>5 DEF DInv

(* The event that begins a deposit.                                          *)
LEMMA BeginningFits ==
    ASSUME NEW d \in Accounts, terms'[d] # <<>>, NEW amount \in 0 .. BalanceLimit,
           NEW type \in {"opening", "funding"}, NEW other \in AccountRef,
           type = "funding" => amount > 0 /\ other # d
    PROVE  LET e == NewEvent(d, type, amount, other, 0)
           IN  FitsNow(e) /\ e.reverses = 0
<1>1. LastDay \in Nat /\ MaxEvents \in Nat
  OBVIOUS
<1> QED
  BY <1>1 DEF NewEvent, FitsNow, Event, PrincipalTypes

LEMMA OpenExistingKeeps ==
    ASSUME DInv, NEW d \in Accounts, OpenExisting(d) PROVE DInv'
<1>1. ~Exists(d) /\ Agree(d) /\ UNCHANGED reads
  BY DEF OpenExisting
<1>2. PICK amount \in Sums \cup {0} :
        /\ balance' = [balance EXCEPT ![d] = amount]
        /\ RecordEvents(<<NewEvent(d, "opening", amount, None, 0)>>)
  BY DEF OpenExisting
<1>3. AccountOK(d) /\ ~IsDeposit(d)
  BY <1>1 DEF DInv, AccountsOK, AccountOK, Exists
<1>4. Kept /\ terms'[d] # <<>>
  BY <1>1, <1>3, AgreeFacts
<1>5. amount \in 0 .. BalanceLimit /\ amount \in Balance /\ amount >= 0
  BY Numbers
<1>6. PICK e : e = NewEvent(d, "opening", amount, None, 0)
  OBVIOUS
<1>7. FitsNow(e) /\ e.reverses = 0
  BY <1>4, <1>5, <1>6, BeginningFits DEF AccountRef
<1>8. EventsOK'
  BY <1>2, <1>4, <1>6, <1>7, OriginalRecorded DEF DInv
<1>9. ReadsOK'
  BY <1>1, <1>4, ReadsStay DEF DInv
<1>10. /\ balance' \in [Accounts -> Balance] /\ NeverOverdrawn'
       /\ \A a \in Accounts : a # d => balance'[a] = balance[a]
  BY <1>2, <1>5 DEF DInv, AccountsOK, BalancesTypeOK, NeverOverdrawn
<1> QED
  BY <1>1, <1>3, <1>8, <1>9, <1>10, AgreeKeeps

LEMMA CreateFundedKeeps ==
    ASSUME DInv, NEW q \in Requests, NEW d \in Accounts, CreateFunded(q, d)
    PROVE  DInv'
<1>1. Holds(q, "fund") /\ ~Exists(d) /\ Agree(d) /\ Release(q)
  BY DEF CreateFunded
<1>2. PICK source : source = reads[q].account
  OBVIOUS
<1>3. source \in Accounts /\ Exists(source) /\ source # d
  BY <1>1, <1>2, WhatIsRead DEF DInv
<1>4. PICK amount \in Sums :
        /\ CanApply(Delta(source, -amount))
        /\ balance' = Plus(balance, PairDelta(source, -amount, d, amount))
        /\ RecordEvents(<<NewEvent(d, "funding", amount, source, 0)>>)
  BY <1>2 DEF CreateFunded
<1>5. /\ amount \in Amount /\ amount \in 0 .. BalanceLimit /\ amount \in Balance
      /\ amount > 0 /\ amount \in Nat /\ -amount \in Int
  BY Numbers DEF Amount
<1>6. AccountOK(d) /\ ~IsDeposit(d) /\ balance[d] = 0
  BY <1>1 DEF DInv, AccountsOK, AccountOK, Exists
<1>7. Kept /\ terms'[d] # <<>>
  BY <1>1, <1>6, AgreeFacts
<1>8. PICK e : e = NewEvent(d, "funding", amount, source, 0)
  OBVIOUS
<1>9. FitsNow(e) /\ e.reverses = 0
  BY <1>3, <1>5, <1>7, <1>8, BeginningFits DEF AccountRef
<1>10. EventsOK'
  BY <1>4, <1>7, <1>8, <1>9, OriginalRecorded DEF DInv
<1>11. ReadsOK'
  BY <1>1, <1>7, ReadsReleased DEF DInv
<1>12. \A a \in Accounts : balance[a] \in Int /\ balance[a] >= 0 /\ balance[a] \in Balance
  BY Numbers DEF DInv, AccountsOK, BalancesTypeOK, NeverOverdrawn
<1>13. /\ balance'[d] = amount
       /\ balance'[source] = balance[source] - amount
       /\ \A a \in Accounts : a # d /\ a # source => balance'[a] = balance[a]
  BY <1>3, <1>4, <1>5, <1>6, <1>12 DEF Plus, PairDelta
<1>14. /\ AvailableForOperations(source) /\ amount <= balance[source]
       /\ balance[source] - amount \in Balance
  <2>1. Delta(source, -amount)[source] = -amount /\ -amount # 0 /\ -amount < 0
        /\ -(-amount) = amount /\ balance[source] + (-amount) = balance[source] - amount
    BY <1>3, <1>5, <1>12 DEF Delta
  <2> QED
    BY <1>3, <1>4, <2>1 DEF CanApply, HasFunds
<1>15. /\ balance' \in [Accounts -> Balance] /\ NeverOverdrawn'
       /\ \A a \in Accounts : a # d => balance'[a] = balance[a] \/ AvailableForOperations(a)
  <2>1. balance' = [a \in Accounts |-> balance'[a]]
    BY <1>4 DEF Plus
  <2>2. \A a \in Accounts : balance'[a] \in Balance /\ balance'[a] >= 0
    BY <1>3, <1>5, <1>12, <1>13, <1>14
  <2>3. balance' \in [Accounts -> Balance]
    BY <2>1, <2>2
  <2> QED
    BY <1>13, <1>14, <2>2, <2>3 DEF NeverOverdrawn
<1> QED
  BY <1>1, <1>6, <1>10, <1>11, <1>15, AgreeKeeps

LEMMA ConvertKeeps ==
    ASSUME DInv, NEW q \in Requests, Convert(q) PROVE DInv'
<1>1. PICK d : d = reads[q].account
  OBVIOUS
<1>2. PICK amount : amount = reads[q].balance
  OBVIOUS
<1>3. /\ Holds(q, "convert") /\ Release(q) /\ UNCHANGED balance
      /\ ~IsDeposit(d) /\ Agree(d)
      /\ RecordEvents(<<NewEvent(d, "opening", amount, None, 0)>>)
  BY <1>1, <1>2 DEF Convert
<1>4. d \in Accounts /\ amount \in 0 .. BalanceLimit
  BY <1>1, <1>2, <1>3, WhatIsRead DEF DInv
<1>5. Kept /\ terms'[d] # <<>>
  BY <1>3, <1>4, AgreeFacts
<1>6. PICK e : e = NewEvent(d, "opening", amount, None, 0)
  OBVIOUS
<1>7. FitsNow(e) /\ e.reverses = 0
  BY <1>4, <1>5, <1>6, BeginningFits DEF AccountRef
<1>8. EventsOK'
  BY <1>3, <1>5, <1>6, <1>7, OriginalRecorded DEF DInv
<1>9. ReadsOK'
  BY <1>3, <1>5, ReadsReleased DEF DInv
<1>10. balance' \in [Accounts -> Balance] /\ NeverOverdrawn'
  BY <1>3 DEF DInv, AccountsOK, BalancesTypeOK, NeverOverdrawn
<1> QED
  BY <1>3, <1>4, <1>8, <1>9, <1>10, AgreeKeeps

-----------------------------------------------------------------------------
(* Money in and out of a deposit.                                            *)

LogsTyped == transferLogs \in [LogIds -> TransferLog \cup {None}]

LEMMA LogsStayTyped ==
    ASSUME LogsTyped, NEW log \in TransferLog, LogEvent(log) PROVE LogsTyped'
BY DEF LogsTyped, LogEvent

LEMMA MoneyStep ==
    ASSUME DInv, NEW delta \in Deltas, ApplyAccountDeltas(delta),
           EventsOK', ReadsOK', LogsTyped',
           UNCHANGED <<kind, archived, terms, current, today>>
    PROVE  DInv'
<1>1. Moved
  BY Applied DEF ApplyAccountDeltas, DInv, AccountsOK
<1> QED
  BY <1>1, PlainStep DEF LogsTyped, DInv, AccountsOK

(* A new event of a deposit that is there, but for the one that began it.    *)
LEMMA OriginalFits ==
    ASSUME NEW d \in Accounts, IsDeposit(d), Kept, NEW amount \in 0 .. BalanceLimit,
           NEW type \in {"topUp", "withdrawal"} \cup ClosureTypes \cup InterestTypes,
           NEW other \in AccountRef, NEW on \in 0 .. LastDay,
           type \in {"topUp", "withdrawal"} => amount > 0,
           type # "interest" => other # d
    PROVE  LET e == NewEvent(d, type, amount, other, on)
           IN  FitsNow(e) /\ e.reverses = 0
<1>1. MaxEvents \in Nat /\ terms'[d] # <<>>
  BY DEF Kept, IsDeposit
<1> QED
  BY <1>1 DEF NewEvent, FitsNow, Event, PrincipalTypes, InterestTypes, ClosureTypes

LEMMA WithdrawKeeps ==
    ASSUME DInv, NEW q \in Requests, Withdraw(q) PROVE DInv'
<1>1. PICK d, to : d = reads[q].deposit /\ to = reads[q].account
  OBVIOUS
<1>2. PICK amount \in Sums :
        /\ to # None
        /\ ApplyAccountDeltas(PairDelta(d, -amount, to, amount))
        /\ RecordEvents(<<NewEvent(d, "withdrawal", amount, to, 0)>>)
        /\ LogEvent(Log(d, to, amount))
  BY <1>1 DEF Withdraw
<1>3. /\ Holds(q, "move") /\ Release(q)
      /\ UNCHANGED <<kind, archived, terms, current, today>>
  BY DEF Withdraw
<1>4. d \in Accounts /\ IsDeposit(d) /\ to \in AccountRef /\ to # d
  BY <1>1, <1>3, WhatIsRead DEF DInv
<1>5. amount \in Amount /\ amount \in 0 .. BalanceLimit /\ amount > 0 /\ -amount \in Int
  BY Numbers DEF Amount
<1>6. Kept
  BY <1>3, PlainKept
<1>7. PICK e : e = NewEvent(d, "withdrawal", amount, to, 0)
  OBVIOUS
<1>8. FitsNow(e) /\ e.reverses = 0
  BY <1>4, <1>5, <1>6, <1>7, OriginalFits
<1>9. EventsOK'
  BY <1>2, <1>6, <1>7, <1>8, OriginalRecorded DEF DInv
<1>10. ReadsOK'
  BY <1>3, <1>6, ReadsReleased DEF DInv
<1>11. Log(d, to, amount) \in TransferLog
  BY <1>4, <1>5 DEF Log, TransferLog, AccountRef
<1>12. LogsTyped'
  BY <1>2, <1>11, LogsStayTyped DEF LogsTyped, DInv, AccountsOK, BalancesTypeOK
<1>13. PairDelta(d, -amount, to, amount) \in Deltas
  BY <1>5, DeltaTypes
<1> QED
  BY <1>2, <1>3, <1>9, <1>10, <1>12, <1>13, MoneyStep

LEMMA TopUpKeeps ==
    ASSUME DInv, NEW q \in Requests, TopUp(q) PROVE DInv'
<1>1. PICK d, source : d = reads[q].deposit /\ source = reads[q].account
  OBVIOUS
<1>2. PICK amount \in Sums :
        /\ ApplyAccountDeltas(PairDelta(source, -amount, d, amount))
        /\ RecordEvents(<<NewEvent(d, "topUp", amount, source, 0)>>)
  BY <1>1 DEF TopUp
<1>3. /\ Holds(q, "move") /\ Release(q)
      /\ UNCHANGED <<kind, archived, transferLogs, terms, current, today>>
  BY DEF TopUp
<1>4. d \in Accounts /\ IsDeposit(d) /\ source \in AccountRef /\ source # d
  BY <1>1, <1>3, WhatIsRead DEF DInv
<1>5. amount \in 0 .. BalanceLimit /\ amount > 0 /\ amount \in Int /\ -amount \in Int
  BY Numbers DEF Amount
<1>6. Kept
  BY <1>3, PlainKept
<1>7. PICK e : e = NewEvent(d, "topUp", amount, source, 0)
  OBVIOUS
<1>8. FitsNow(e) /\ e.reverses = 0
  BY <1>4, <1>5, <1>6, <1>7, OriginalFits
<1>9. EventsOK'
  BY <1>2, <1>6, <1>7, <1>8, OriginalRecorded DEF DInv
<1>10. ReadsOK'
  BY <1>3, <1>6, ReadsReleased DEF DInv
<1>11. LogsTyped'
  BY <1>3 DEF LogsTyped, DInv, AccountsOK, BalancesTypeOK
<1>12. PairDelta(source, -amount, d, amount) \in Deltas
  BY <1>5, DeltaTypes
<1> QED
  BY <1>2, <1>3, <1>9, <1>10, <1>11, <1>12, MoneyStep

LEMMA ConfirmInterestKeeps ==
    ASSUME DInv, NEW q \in Requests, ConfirmInterest(q) PROVE DInv'
<1>1. PICK d, to : d = reads[q].deposit /\ to = reads[q].account
  OBVIOUS
<1>2. PICK net \in Sums :
        /\ ApplyAccountDeltas(Delta(to, net))
        /\ RecordEvents(<<NewEvent(d, "interest", net, to, 0)>>)
  BY <1>1 DEF ConfirmInterest
<1>3. /\ Holds(q, "interest") /\ Release(q)
      /\ UNCHANGED <<kind, archived, transferLogs, terms, current, today>>
  BY DEF ConfirmInterest
<1>4. d \in Accounts /\ IsDeposit(d) /\ to \in AccountRef
  BY <1>1, <1>3, WhatIsRead DEF DInv
<1>5. net \in 0 .. BalanceLimit /\ net \in Int
  BY Numbers
<1>6. Kept
  BY <1>3, PlainKept
<1>7. PICK e : e = NewEvent(d, "interest", net, to, 0)
  OBVIOUS
<1>8. FitsNow(e) /\ e.reverses = 0
  BY <1>4, <1>5, <1>6, <1>7, OriginalFits DEF InterestTypes
<1>9. EventsOK'
  BY <1>2, <1>6, <1>7, <1>8, OriginalRecorded DEF DInv
<1>10. ReadsOK'
  BY <1>3, <1>6, ReadsReleased DEF DInv
<1>11. LogsTyped'
  BY <1>3 DEF LogsTyped, DInv, AccountsOK, BalancesTypeOK
<1>12. Delta(to, net) \in Deltas
  BY <1>5, DeltaTypes
<1> QED
  BY <1>2, <1>3, <1>9, <1>10, <1>11, <1>12, MoneyStep

-----------------------------------------------------------------------------
(* Reversals of anything but a closure.                                      *)

LEMMA ReversalTypes ==
    ASSUME NEW e, EventFits(e)
    PROVE  /\ ReversalDeltas(e) \in Deltas
           /\ Delta(e.other, -e.amount) \in Deltas
           /\ e.type \in {"funding", "topUp", "withdrawal"} =>
                ReversalLog(e) \in TransferLog
<1>1. /\ e.deposit \in Accounts /\ e.other \in AccountRef
      /\ e.amount \in 0 .. BalanceLimit /\ e.amount \in Int /\ -e.amount \in Int
      /\ e.type \in {"funding", "topUp", "withdrawal"} => e.amount > 0
  BY DEF EventFits, Event
<1>2. ReversalDeltas(e) \in Deltas /\ Delta(e.other, -e.amount) \in Deltas
  BY <1>1, DeltaTypes DEF ReversalDeltas
<1>3. ASSUME e.type \in {"funding", "topUp", "withdrawal"}
      PROVE  ReversalLog(e) \in TransferLog
  <2>1. e.amount \in Amount
    BY <1>1, <1>3 DEF Amount
  <2> QED
    BY <1>1, <2>1 DEF ReversalLog, Log, TransferLog, AccountRef
<1> QED
  BY <1>2, <1>3

LEMMA ReversePrincipalKeeps ==
    ASSUME DInv, NEW i \in DOMAIN events, ReversePrincipal(i) PROVE DInv'
<1>1. PICK e : e = events[i] /\ EventFits(e)
  BY DEF DInv, EventsOK
<1>2. /\ e.type \in PrincipalTypes \ ClosureTypes /\ Live(i)
      /\ ApplyAccountDeltas(ReversalDeltas(e))
      /\ RecordEvents(<<Compensation(i)>>)
      /\ IF e.type = "opening" THEN UNCHANGED transferLogs ELSE LogEvent(ReversalLog(e))
      /\ UNCHANGED <<kind, archived, terms, current, reads, today>>
  BY <1>1 DEF ReversePrincipal
<1>3. Kept
  BY <1>2, PlainKept
<1>4. EventsOK'
  BY <1>2, <1>3, CompensationRecorded DEF DInv
<1>5. ReadsOK'
  BY <1>2, <1>3, ReadsStay DEF DInv
<1>6. LogsTyped
  BY DEF LogsTyped, DInv, AccountsOK, BalancesTypeOK
<1>7. LogsTyped'
  <2>1. CASE e.type = "opening"
    BY <1>2, <1>6, <2>1 DEF LogsTyped
  <2>2. CASE e.type # "opening"
    <3>1. e.type \in {"funding", "topUp", "withdrawal"}
      BY <1>2, <2>2 DEF PrincipalTypes
    <3> QED
      BY <1>1, <1>2, <1>6, <2>2, <3>1, ReversalTypes, LogsStayTyped
  <2> QED
    BY <2>1, <2>2
<1> QED
  BY <1>1, <1>2, <1>4, <1>5, <1>7, ReversalTypes, MoneyStep

LEMMA ReverseInterestKeeps ==
    ASSUME DInv, NEW i \in DOMAIN events, ReverseInterest(i) PROVE DInv'
<1>1. PICK e : e = events[i] /\ EventFits(e)
  BY DEF DInv, EventsOK
<1>2. /\ Live(i)
      /\ ApplyAccountDeltas(Delta(e.other, -e.amount))
      /\ RecordEvents(<<Compensation(i)>>)
      /\ UNCHANGED <<kind, archived, transferLogs, terms, current, reads, today>>
  BY <1>1 DEF ReverseInterest
<1>3. Kept
  BY <1>2, PlainKept
<1>4. EventsOK'
  BY <1>2, <1>3, CompensationRecorded DEF DInv
<1>5. ReadsOK'
  BY <1>2, <1>3, ReadsStay DEF DInv
<1>6. LogsTyped'
  BY <1>2 DEF LogsTyped, DInv, AccountsOK, BalancesTypeOK
<1> QED
  BY <1>1, <1>2, <1>4, <1>5, <1>6, ReversalTypes, MoneyStep

-----------------------------------------------------------------------------
(* Closures and their reversals.                                             *)

LEMMA Flagged ==
    ASSUME NEW ts \in Seq(Term), NEW c \in DOMAIN ts, NEW t \in Term,
           t.opened = ts[c].opened, t.matures = ts[c].matures, t.from = ts[c].from,
           NEW us, us = [ts EXCEPT ![c] = t]
    PROVE  /\ SameDates(ts, us) /\ us[c] = t
           /\ \A i \in DOMAIN ts : i # c => us[i] = ts[i]
<1>1. us \in Seq(Term) /\ Len(us) = Len(ts)
  BY ExceptSeq
<1>2. /\ DOMAIN us = DOMAIN ts /\ us[c] = t
      /\ \A i \in DOMAIN ts : i # c => us[i] = ts[i]
  OBVIOUS
<1> QED
  BY <1>1, <1>2 DEF SameDates

(* The current term of deposit d is closed or opened again.                  *)
LEMMA Reflagged ==
    ASSUME TermsOK, NEW d \in Accounts, terms[d] # <<>>, NEW b \in BOOLEAN,
           terms' = [terms EXCEPT ![d][current[d]].closed = b], UNCHANGED current
    PROVE  /\ TermsOK' /\ terms'[d] # <<>> /\ terms'[d][current'[d]].closed = b
           /\ \A a \in Accounts : a # d =>
                terms'[a] = terms[a] /\ current'[a] = current[a]
<1>1. PICK ts, c : ts = terms[d] /\ c = current[d]
  OBVIOUS
<1>2. /\ Chained(ts, c) /\ ts # <<>> /\ ts \in Seq(Term) /\ c \in DOMAIN ts
      /\ ts[c] \in Term
  <2>1. Chained(ts, c) /\ ts # <<>>
    BY <1>1 DEF TermsOK
  <2>2. c \in DOMAIN ts
    BY <2>1 DEF Chained
  <2> QED
    BY <2>1, <2>2, ChainFacts
<1>3. PICK t : t = [ts[c] EXCEPT !.closed = b]
  OBVIOUS
<1>4. /\ t \in Term /\ t.closed = b /\ t.undone = ts[c].undone
      /\ t.opened = ts[c].opened /\ t.matures = ts[c].matures /\ t.from = ts[c].from
  BY <1>2, <1>3 DEF Term
<1>5. PICK us : us = [ts EXCEPT ![c] = t]
  OBVIOUS
<1>6. /\ SameDates(ts, us) /\ us[c] = t
      /\ \A i \in DOMAIN ts : i # c => us[i] = ts[i]
  BY <1>2, <1>4, <1>5, Flagged
<1>7. Chained(us, c) /\ us # <<>>
  BY <1>2, <1>4, <1>6, ChainCloses
<1>8. PutTerms(d, us, c)
  <2>1. terms' = [terms EXCEPT ![d] = us]
    BY <1>1, <1>3, <1>5
  <2>2. current = [current EXCEPT ![d] = c]
    BY <1>1 DEF TermsOK
  <2> QED
    BY <2>1, <2>2 DEF PutTerms
<1>9. /\ TermsOK' /\ terms'[d] = us /\ current'[d] = c
      /\ \A a \in Accounts : a # d => terms'[a] = terms[a] /\ current'[a] = current[a]
  BY <1>7, <1>8, TermsChange
<1> QED
  BY <1>4, <1>6, <1>7, <1>9

LEMMA CloseStep ==
    ASSUME DInv, NEW d \in Accounts, IsDeposit(d), NEW b \in BOOLEAN,
           terms' = [terms EXCEPT ![d][current[d]].closed = b],
           archived' = [archived EXCEPT ![d] = b], b => balance'[d] = 0,
           UNCHANGED <<kind, transferLogs, current, today>>,
           balance' \in [Accounts -> Balance], NeverOverdrawn',
           \A a \in Accounts : a # d =>
              balance'[a] = balance[a] \/ AvailableForOperations(a),
           EventsOK', ReadsOK'
    PROVE  DInv'
<1>1. /\ TermsOK' /\ terms'[d] # <<>> /\ terms'[d][current'[d]].closed = b
      /\ \A a \in Accounts : a # d => terms'[a] = terms[a] /\ current'[a] = current[a]
  BY Reflagged DEF DInv, IsDeposit
<1>2. archived' \in [Accounts -> BOOLEAN] /\ archived'[d] = b
      /\ \A a \in Accounts : a # d => archived'[a] = archived[a]
  BY DEF DInv, AccountsOK, BalancesTypeOK
<1>3. ASSUME NEW a \in Accounts PROVE AccountOK(a)'
  <2>1. AccountOK(a)
    BY DEF DInv, AccountsOK
  <2>2. CASE a = d
    BY <1>1, <1>2, <2>1, <2>2 DEF AccountOK, Exists, IsDeposit, CurrentTerm
  <2>3. CASE a # d
    BY <1>1, <1>2, <2>1, <2>3
       DEF AccountOK, Exists, IsDeposit, CurrentTerm, AvailableForOperations
  <2> QED
    BY <2>2, <2>3
<1>4. AccountsOK'
  BY <1>2, <1>3 DEF DInv, AccountsOK, BalancesTypeOK
<1> QED
  BY <1>1, <1>4 DEF DInv

(* Deposits stay deposits when the current term of one is closed or opened.  *)
LEMMA ReflaggedKept ==
    ASSUME DInv, NEW d \in Accounts, IsDeposit(d), NEW b \in BOOLEAN,
           terms' = [terms EXCEPT ![d][current[d]].closed = b],
           UNCHANGED <<kind, current>>
    PROVE  Kept
<1>1. terms'[d] # <<>> /\ \A a \in Accounts : a # d => terms'[a] = terms[a]
  BY Reflagged DEF DInv, IsDeposit
<1> QED
  BY <1>1 DEF Kept, IsDeposit, Exists

LEMMA CloseKeeps ==
    ASSUME DInv, NEW q \in Requests, Holds(q, "move"),
           NEW type \in ClosureTypes, NEW on \in 0 .. LastDay, Close(q, type, on)
    PROVE  DInv'
<1>1. PICK d, to : d = reads[q].deposit /\ to = reads[q].account
  OBVIOUS
<1>2. d \in Accounts /\ IsDeposit(d) /\ to \in AccountRef /\ to # d
  BY <1>1, WhatIsRead DEF DInv
<1>3. PICK p : p = balance[d]
  OBVIOUS
<1>4. PICK net \in Sums \cup {0} :
        /\ ApplyAccountDeltas(PairDelta(d, -p, to, p + net))
        /\ RecordEvents(<<NewEvent(d, type, p, to, on), NewEvent(d, "final", net, to, on)>>)
        /\ terms' = [terms EXCEPT ![d][current[d]].closed = TRUE]
        /\ archived' = [archived EXCEPT ![d] = TRUE]
        /\ Release(q)
        /\ UNCHANGED <<kind, transferLogs, current, today>>
  BY <1>1, <1>3 DEF Close
<1>5. /\ p \in 0 .. BalanceLimit /\ p \in Int /\ -p \in Int
      /\ net \in 0 .. BalanceLimit /\ net \in Int /\ p + net \in Int
  <2>1. p \in Balance /\ p >= 0
    BY <1>2, <1>3 DEF DInv, AccountsOK, BalancesTypeOK, NeverOverdrawn
  <2> QED
    BY <2>1, Numbers DEF Balance
<1>6. Kept
  BY <1>2, <1>4, ReflaggedKept
<1>7. PICK e, f : /\ e = NewEvent(d, type, p, to, on)
                  /\ f = NewEvent(d, "final", net, to, on)
  OBVIOUS
<1>8. FitsNow(e) /\ e.reverses = 0 /\ FitsNow(f) /\ f.reverses = 0
  BY <1>2, <1>5, <1>6, <1>7, OriginalFits DEF ClosureTypes, InterestTypes
<1>9. EventsOK'
  BY <1>4, <1>6, <1>7, <1>8, OriginalsRecorded DEF DInv
<1>10. ReadsOK'
  BY <1>4, <1>6, ReadsReleased DEF DInv
<1>11. Moved
  BY <1>4, <1>5, DeltaTypes, Applied DEF ApplyAccountDeltas, DInv, AccountsOK
<1>12. balance'[d] = 0
  BY <1>2, <1>3, <1>4, <1>5 DEF ApplyAccountDeltas, Plus, PairDelta
<1> QED
  BY <1>2, <1>4, <1>9, <1>10, <1>11, <1>12, CloseStep DEF Moved

LEMMA ClosuresKeep ==
    ASSUME DInv, NEW q \in Requests, CloseEarly(q) \/ CloseMatured(q)
    PROVE  DInv'
<1>1. PICK d : d = reads[q].deposit
  OBVIOUS
<1>2. Holds(q, "move")
  BY DEF CloseEarly, CloseMatured
<1>3. d \in Accounts /\ IsDeposit(d)
  BY <1>1, <1>2, WhatIsRead DEF DInv
<1>4. PICK term : term = CurrentTerm(d)
  OBVIOUS
<1>5. term \in Term
  <2>1. Chained(terms[d], current[d]) /\ terms[d] # <<>>
    BY <1>3 DEF DInv, TermsOK, IsDeposit
  <2>2. current[d] \in DOMAIN terms[d]
    BY <2>1 DEF Chained
  <2> QED
    BY <1>4, <2>1, <2>2, ChainFacts DEF CurrentTerm
<1>6. /\ term.opened \in 1 .. LastDay /\ term.matures \in 1 .. LastDay
      /\ LastDay \in Nat
  BY <1>5 DEF Term, Days
<1>7. CASE CloseEarly(q)
  <2>1. PICK on \in term.opened .. term.matures - 1 : Close(q, "earlyClosure", on)
    BY <1>1, <1>4, <1>7 DEF CloseEarly
  <2>2. on \in 0 .. LastDay
    BY <1>6, <2>1
  <2> QED
    BY <1>2, <2>1, <2>2, CloseKeeps DEF ClosureTypes
<1>8. CASE CloseMatured(q)
  <2>1. PICK on \in term.matures .. LastDay : Close(q, "plannedClosure", on)
    BY <1>1, <1>4, <1>8 DEF CloseMatured
  <2>2. on \in 0 .. LastDay
    BY <1>6, <2>1
  <2> QED
    BY <1>2, <2>1, <2>2, CloseKeeps DEF ClosureTypes
<1> QED
  BY <1>7, <1>8

LEMMA ReverseClosureKeeps ==
    ASSUME DInv, NEW i \in DOMAIN events, ReverseClosure(i) PROVE DInv'
<1>1. PICK e : e = events[i] /\ EventFits(e)
  BY DEF DInv, EventsOK
<1>2. PICK d, to : d = e.deposit /\ to = e.other
  OBVIOUS
<1>3. PICK j \in DOMAIN events :
        LET returned == e.amount + events[j].amount IN
        /\ ClosureInterest(i) = {j}
        /\ CanApply(Delta(to, -returned))
        /\ balance' = Plus(balance, PairDelta(d, e.amount, to, -returned))
        /\ balance'[d] \in Balance
        /\ RecordEvents(<<Compensation(i), Compensation(j)>>)
  BY <1>1, <1>2 DEF ReverseClosure
<1>4. PICK returned : returned = e.amount + events[j].amount
  OBVIOUS
<1>5. /\ e.type \in ClosureTypes /\ Live(i)
      /\ archived' = [archived EXCEPT ![d] = FALSE]
      /\ terms' = [terms EXCEPT ![d][current[d]].closed = FALSE]
      /\ UNCHANGED <<kind, transferLogs, current, reads, today>>
  BY <1>1, <1>2 DEF ReverseClosure
<1>6. /\ d \in Accounts /\ IsDeposit(d) /\ to \in AccountRef /\ to # d
      /\ e.amount \in Nat
  BY <1>1, <1>2, <1>5 DEF EventFits, Event, ClosureTypes
<1>7. returned \in Nat
  <2>1. events[j] \in Event
    BY EventFacts DEF DInv
  <2> QED
    BY <1>4, <1>6, <2>1 DEF Event
<1>8. Live(j) /\ i # j
  <2>1. j \in LiveOf(events[i].deposit, {"final"})
    BY <1>3 DEF ClosureInterest
  <2> QED
    BY <1>1, <1>5, <2>1 DEF LiveOf, ClosureTypes
<1>9. Kept
  BY <1>5, <1>6, ReflaggedKept
<1>10. EventsOK'
  BY <1>3, <1>5, <1>8, <1>9, CompensationsRecorded DEF DInv
<1>11. ReadsOK'
  BY <1>5, <1>9, ReadsStay DEF DInv
<1>12. ASSUME NEW a \in Accounts
       PROVE  /\ balance'[a] \in Balance /\ balance'[a] >= 0
              /\ a # d => balance'[a] = balance[a] \/ AvailableForOperations(a)
  <2>1. balance[a] \in Balance /\ balance[a] \in Int /\ balance[a] >= 0
    BY Numbers DEF DInv, AccountsOK, BalancesTypeOK, NeverOverdrawn
  <2>2. balance' = Plus(balance, PairDelta(d, e.amount, to, -returned))
        /\ balance'[d] \in Balance /\ CanApply(Delta(to, -returned))
    BY <1>3, <1>4
  <2>3. CASE a = d
    BY <1>6, <2>1, <2>2, <2>3 DEF Plus, PairDelta
  <2>4. CASE a # d /\ a # to
    BY <1>6, <2>1, <2>2, <2>4 DEF Plus, PairDelta
  <2>5. CASE a = to /\ returned = 0
    BY <1>6, <2>1, <2>2, <2>5 DEF Plus, PairDelta
  <2>6. CASE a = to /\ returned # 0
    <3>1. balance'[a] = balance[a] - returned
      BY <1>6, <1>7, <2>1, <2>2, <2>6 DEF Plus, PairDelta
    <3>2. /\ Delta(to, -returned)[a] = -returned /\ -returned # 0 /\ -returned < 0
          /\ -(-returned) = returned /\ balance[a] + (-returned) = balance[a] - returned
      BY <1>7, <2>1, <2>6 DEF Delta
    <3>3. /\ AvailableForOperations(a) /\ returned <= balance[a]
          /\ balance[a] - returned \in Balance
      BY <2>2, <3>2 DEF CanApply, HasFunds
    <3> QED
      BY <1>7, <2>1, <3>1, <3>3
  <2> QED
    BY <2>3, <2>4, <2>5, <2>6
<1>13. balance' \in [Accounts -> Balance] /\ NeverOverdrawn'
  <2>1. balance' = [a \in Accounts |-> balance'[a]]
    BY <1>3 DEF Plus
  <2>2. balance' \in [Accounts -> Balance]
    BY <1>12, <2>1
  <2> QED
    BY <1>12, <2>2 DEF NeverOverdrawn
<1> QED
  BY <1>5, <1>6, <1>10, <1>11, <1>12, <1>13, CloseStep

-----------------------------------------------------------------------------
(* Renewals and their reversals.                                             *)

LEMMA RenewStep ==
    ASSUME DInv, NEW d \in Accounts, IsDeposit(d), NEW ts, NEW c, ts # <<>>,
           Chained(ts, c), PutTerms(d, ts, c), ~ts[c].closed,
           UNCHANGED <<accountVars, events, reads, today>>
    PROVE  DInv'
<1>1. /\ TermsOK' /\ terms'[d] = ts /\ current'[d] = c
      /\ \A a \in Accounts : a # d => terms'[a] = terms[a] /\ current'[a] = current[a]
  BY TermsChange DEF DInv
<1>2. Kept
  BY <1>1 DEF Kept, IsDeposit, Exists, accountVars
<1>3. EventsOK' /\ ReadsOK'
  BY <1>2, EventsStay, ReadsStay DEF DInv
<1>4. ASSUME NEW a \in Accounts PROVE AccountOK(a)'
  <2>1. AccountOK(a)
    BY DEF DInv, AccountsOK
  <2>2. CASE a = d
    BY <1>1, <2>1, <2>2 DEF AccountOK, Exists, IsDeposit, CurrentTerm, accountVars
  <2>3. CASE a # d
    BY <1>1, <2>1, <2>3 DEF AccountOK, Exists, IsDeposit, CurrentTerm, accountVars
  <2> QED
    BY <2>2, <2>3
<1>5. AccountsOK'
  BY <1>4 DEF DInv, AccountsOK, BalancesTypeOK, NeverOverdrawn, accountVars
<1> QED
  BY <1>1, <1>3, <1>5 DEF DInv

LEMMA RenewKeeps ==
    ASSUME DInv, NEW d \in Accounts, Renew(d) PROVE DInv'
<1>1. PICK ts, c : ts = terms[d] /\ c = current[d]
  OBVIOUS
<1>2. IsDeposit(d) /\ State(CurrentTerm(d)) = "matured" /\ Len(ts) < MaxTerms
  BY <1>1 DEF Renew, RenewalAvailable
<1>3. Chained(ts, c) /\ ts # <<>>
  BY <1>1, <1>2 DEF DInv, TermsOK, IsDeposit
<1>4. ~ts[c].closed
  BY <1>1, <1>2 DEF State, CurrentTerm
<1>5. PICK new \in RenewalTerms(d) :
        /\ new.opened <= new.matures /\ new.opened > ts[c].matures
        /\ \A i \in DOMAIN ts : ~Overlap(ts[i], new)
        /\ RenewWith(d, new)
  BY <1>1 DEF Renew, CurrentTerm
<1>6. new \in Term /\ new.from = c /\ ~new.undone /\ ~new.closed
  <2>1. c \in 0 .. MaxTerms
    BY <1>1 DEF DInv, TermsOK
  <2> QED
    BY <1>1, <1>5, <2>1 DEF RenewalTerms, Term
<1>7. ts[c].matures < new.opened
  <2>1. c \in DOMAIN ts
    BY <1>3 DEF Chained
  <2>2. ts[c].matures \in Nat /\ new.opened \in Nat
    BY <1>3, <1>6, <2>1, ChainFacts DEF Term, Days
  <2> QED
    BY <1>5, <2>2
<1>8. PICK us, n : us = Append(ts, new) /\ n = Len(ts) + 1
  OBVIOUS
<1>9. Chained(us, n) /\ us # <<>> /\ us[n] = new
  BY <1>2, <1>3, <1>4, <1>5, <1>6, <1>7, <1>8, ChainRenews
<1>10. PutTerms(d, us, n)
  BY <1>1, <1>5, <1>8 DEF RenewWith, PutTerms
<1> QED
  BY <1>2, <1>5, <1>6, <1>9, <1>10, RenewStep DEF RenewWith

LEMMA ReverseRenewalKeeps ==
    ASSUME DInv, NEW d \in Accounts, NEW i \in DOMAIN terms[d], ReverseRenewal(d, i)
    PROVE  DInv'
<1>1. PICK ts : ts = terms[d]
  OBVIOUS
<1>2. /\ i \in DOMAIN ts /\ ts[i].from # 0 /\ current[d] = i
      /\ terms' = [terms EXCEPT ![d][i].undone = TRUE]
      /\ current' = [current EXCEPT ![d] = ts[i].from]
      /\ UNCHANGED <<accountVars, events, reads, today>>
  BY <1>1 DEF ReverseRenewal, UndoRenewal
<1>3. Chained(ts, i) /\ ts \in Seq(Term) /\ ts # <<>> /\ ts[i] \in Term
  <2>1. Chained(ts, i)
    BY <1>1, <1>2 DEF DInv, TermsOK
  <2>2. ts \in Seq(Term) /\ ts[i] \in Term
    BY <1>2, <2>1, ChainFacts
  <2> QED
    BY <1>2, <2>1, <2>2
<1>4. PICK t : t = [ts[i] EXCEPT !.undone = TRUE]
  OBVIOUS
<1>5. /\ t \in Term /\ t.undone /\ t.closed = ts[i].closed
      /\ t.opened = ts[i].opened /\ t.matures = ts[i].matures /\ t.from = ts[i].from
  BY <1>3, <1>4 DEF Term
<1>6. PICK us, p : us = [ts EXCEPT ![i] = t] /\ p = ts[i].from
  OBVIOUS
<1>7. /\ SameDates(ts, us) /\ us[i] = t
      /\ \A j \in DOMAIN ts : j # i => us[j] = ts[j]
  BY <1>2, <1>3, <1>5, <1>6, Flagged
<1>8. Chained(us, p) /\ us # <<>> /\ p \in DOMAIN ts /\ ~ts[p].closed
  <2>1. us[i].undone /\ \A j \in DOMAIN ts : us[j].closed = ts[j].closed
    BY <1>5, <1>7
  <2>2. \A j \in DOMAIN ts : j # i => us[j].undone = ts[j].undone
    BY <1>7
  <2>3. /\ Chained(us, ts[i].from) /\ us # <<>>
        /\ ts[i].from \in DOMAIN ts /\ ~ts[ts[i].from].closed
    BY <1>2, <1>3, <1>7, <2>1, <2>2, ChainUndoes
  <2> QED
    BY <1>6, <2>3
<1>9. ~us[p].closed
  BY <1>5, <1>7, <1>8
<1>10. PutTerms(d, us, p)
  BY <1>1, <1>2, <1>4, <1>6 DEF PutTerms
<1>11. IsDeposit(d)
  BY <1>1, <1>3 DEF IsDeposit
<1> QED
  BY <1>2, <1>8, <1>9, <1>10, <1>11, RenewStep

-----------------------------------------------------------------------------
(* The invariant.                                                            *)

LEMMA InitHolds == Init => DInv
<1> SUFFICES ASSUME Init PROVE DInv
  OBVIOUS
<1>1. /\ kind \in [Accounts -> {"none", "regular"}]
      /\ balance \in [Accounts -> Sums \cup {0}]
      /\ \A a \in Accounts : ~Exists(a) => balance[a] = 0
      /\ archived = [a \in Accounts |-> FALSE]
      /\ transferLogs = [l \in LogIds |-> None]
      /\ terms = [a \in Accounts |-> <<>>]
      /\ current = [a \in Accounts |-> 0]
      /\ events = <<>>
      /\ reads = [q \in Requests |-> Idle]
      /\ today = 1
  BY DEF Init
<1>2. ASSUME NEW a \in Accounts PROVE balance[a] \in Balance /\ balance[a] >= 0
  <2>1. balance[a] \in Sums \cup {0}
    BY <1>1
  <2>2. balance[a] \in 0 .. BalanceLimit /\ balance[a] \in Balance
    BY <2>1, Numbers
  <2> QED
    BY <2>2
<1>3. BalancesTypeOK /\ NeverOverdrawn
  <2>1. balance \in [Accounts -> Balance]
    BY <1>1, <1>2
  <2> QED
    BY <1>1, <1>2, <2>1 DEF BalancesTypeOK, Kinds, NeverOverdrawn
<1>4. AccountsOK
  BY <1>1, <1>3 DEF AccountsOK, AccountOK, IsDeposit, CurrentTerm, Days
<1>5. ReadsOK
  BY <1>1 DEF ReadsOK, ReadFits, Read, Idle
<1>6. EventsOK
  <2>1. events = <<>> /\ events \in Seq(Event) /\ Len(events) = 0 /\ DOMAIN events = {}
    BY <1>1
  <2> QED
    BY <2>1 DEF EventsOK, CompensatedOnce
<1>7. TermsOK
  <2>1. Chained(<<>>, 0)
    <3>1. <<>> \in Seq(Term) /\ Len(<<>>) = 0 /\ DOMAIN <<>> = {}
      OBVIOUS
    <3> QED
      BY <3>1 DEF Chained
  <2>2. 0 \in 0 .. MaxTerms /\ <<>> \in Seq(Term)
    OBVIOUS
  <2> QED
    BY <1>1, <2>1, <2>2 DEF TermsOK
<1> QED
  BY <1>4, <1>5, <1>6, <1>7 DEF DInv

LEMMA NextKeeps == DInv /\ [Next]_vars => DInv'
<1> SUFFICES ASSUME DInv, [Next]_vars PROVE DInv'
  OBVIOUS
<1>1. ASSUME NEW q \in Requests, NEW a \in Accounts,
             \/ BeginFund(q, a) \/ BeginConvert(q, a) \/ CreateFunded(q, a)
             \/ \E b \in AccountRef : BeginMove(q, a, b) \/ BeginInterest(q, a, b)
      PROVE  DInv'
  BY <1>1, BeginKeeps, CreateFundedKeeps
<1>2. ASSUME NEW q \in Requests,
             \/ Convert(q) \/ Withdraw(q) \/ TopUp(q) \/ ConfirmInterest(q)
             \/ CloseEarly(q) \/ CloseMatured(q) \/ Reject(q)
      PROVE  DInv'
  BY <1>2, ConvertKeeps, WithdrawKeeps, TopUpKeeps, ConfirmInterestKeeps,
     ClosuresKeep, RejectKeeps
<1>3. ASSUME NEW d \in Accounts,
             \/ OpenExisting(d) \/ Renew(d)
             \/ \E i \in DOMAIN terms[d] : ReverseRenewal(d, i)
      PROVE  DInv'
  BY <1>3, OpenExistingKeeps, RenewKeeps, ReverseRenewalKeeps
<1>4. ASSUME NEW i \in DOMAIN events,
             ReversePrincipal(i) \/ ReverseClosure(i) \/ ReverseInterest(i)
      PROVE  DInv'
  BY <1>4, ReversePrincipalKeeps, ReverseClosureKeeps, ReverseInterestKeeps
<1>5. CASE Tick
  BY <1>5, TickKeeps
<1>6. CASE UNCHANGED vars
  <2>1. ReadsOK' /\ UNCHANGED <<accountVars, terms, current, events>> /\ today' \in Days
    <3>1. UNCHANGED <<accountVars, terms, current, events, reads, today>> /\ Kept
      BY <1>6, PlainKept DEF vars, depositVars, accountVars
    <3> QED
      BY <3>1, ReadsStay DEF DInv, AccountsOK
  <2> QED
    BY <2>1, ReadStep
<1> QED
  BY <1>1, <1>2, <1>3, <1>4, <1>5, <1>6 DEF Next

(* The invariant holds in every state, whatever the accounts, the requests,  *)
(* the sums and the bounds.                                                  *)
THEOREM DepositsInvariant == Spec => []DInv
BY InitHolds, NextKeeps, PTL DEF Spec

(* Every operation finds the types it counts on, and no account is           *)
(* overdrawn, whatever a request has read before it took its locks.          *)
THEOREM DepositsSound == Spec => []DepositsInv
<1>1. DInv => DepositsInv
  BY DEF DInv, AccountsOK, ReadsOK, EventsOK, TermsOK, DepositsInv, DepositsTypeOK
<1> QED
  BY <1>1, DepositsInvariant, PTL

(* A closed deposit is archived, and an archived account is a deposit with   *)
(* nothing on it: no late request and no reversal brings money back.         *)
THEOREM ClosedStaysEmpty == Spec => []ClosedIsEmpty
<1>1. DInv => ClosedIsEmpty
  BY DEF DInv, AccountsOK, AccountOK, ClosedIsEmpty
<1> QED
  BY <1>1, DepositsInvariant, PTL

(* The terms of a deposit never overlap, the undone ones included.           *)
THEOREM TermsStayApart == Spec => []TermsApart
<1>1. DInv => TermsApart
  BY DEF DInv, TermsOK, Chained, TermsApart
<1> QED
  BY <1>1, DepositsInvariant, PTL

(* The current term is the last of those whose renewal stands, however       *)
(* renewals and their reversals follow each other.                           *)
THEOREM CurrentStaysLast == Spec => []CurrentIsLast
<1>1. DInv => CurrentIsLast
  BY DEF DInv, TermsOK, Chained, CurrentIsLast, CurrentTerm, IsDeposit
<1> QED
  BY <1>1, DepositsInvariant, PTL

(* No event is compensated twice, and no compensation is compensated.        *)
THEOREM EventsCompensatedOnce == Spec => []CompensatedOnce
<1>1. DInv => CompensatedOnce
  BY DEF DInv, EventsOK
<1> QED
  BY <1>1, DepositsInvariant, PTL

-----------------------------------------------------------------------------
(* The journal.                                                              *)

LEMMA MovesType == \A e \in Event : Moves(e) \in Deltas
<1> SUFFICES ASSUME NEW e \in Event PROVE Moves(e) \in Deltas
  OBVIOUS
<1>1. e.amount \in Int
  BY DEF Event
<1>2. /\ Delta(e.other, e.amount) \in Deltas /\ Delta(e.deposit, e.amount) \in Deltas
      /\ NoDelta \in Deltas
  BY <1>1, DeltaTypes
<1>3. \A x, y \in Deltas : Minus(x, y) \in Deltas
  BY DEF Minus, Deltas
<1> QED
  BY <1>2, <1>3 DEF Moves

LEMMA EntriesType ==
    ASSUME EventsOK
    PROVE  /\ Entries \in Seq(Deltas) /\ Len(Entries) = Len(events)
           /\ \A i \in DOMAIN events : Entries[i] = Moves(events[i])
<1>1. /\ Len(events) \in Nat /\ DOMAIN events = 1 .. Len(events)
      /\ \A i \in 1 .. Len(events) : Moves(events[i]) \in Deltas
  BY EventFacts, MovesType
<1>2. Entries = [i \in 1 .. Len(events) |-> Moves(events[i])]
  BY <1>1 DEF Entries
<1>3. Entries \in Seq(Deltas)
  BY <1>1, <1>2, IsASeq
<1> QED
  BY <1>1, <1>2, <1>3, LenProperties

EntriesAppended(delta) ==
    /\ Entries' = Append(Entries, delta)
    /\ Len(Entries') > 0 /\ Entries'[Len(Entries')] = delta

LEMMA AppendsEntry ==
    ASSUME EventsOK, EventsOK', NEW e \in Event, RecordEvents(<<e>>),
           NEW delta, delta = Moves(e)
    PROVE  EntriesAppended(delta)
<1>1. PICK n \in Nat : n = Len(events)
  BY EventFacts
<1>2. /\ Entries \in Seq(Deltas) /\ Len(Entries) = n /\ DOMAIN events = 1 .. n
      /\ \A i \in 1 .. n : Entries[i] = Moves(events[i])
  BY <1>1, EntriesType, EventFacts
<1>3. /\ DOMAIN events' = 1 .. n + 1 /\ events'[n + 1] = e
      /\ \A i \in 1 .. n : events'[i] = events[i]
      /\ Len(events') = n + 1
  BY <1>1, <1>2, RecordOne
<1>4. /\ Entries' \in Seq(Deltas) /\ Len(Entries') = n + 1
      /\ \A i \in 1 .. n + 1 : Entries'[i] = Moves(events'[i])
  <2>1. /\ Len(events') \in Nat
        /\ \A i \in 1 .. n + 1 : Moves(events'[i]) \in Deltas
    BY <1>1, <1>3, MovesType DEF EventsOK
  <2>2. Entries' = [i \in 1 .. n + 1 |-> Moves(events'[i])]
    BY <1>3 DEF Entries, Moves
  <2>3. Entries' \in Seq(Deltas)
    BY <1>1, <2>1, <2>2, IsASeq
  <2> QED
    BY <1>1, <2>2, <2>3, LenProperties
<1>5. delta \in Deltas
  BY MovesType
<1>6. /\ Append(Entries, delta) \in Seq(Deltas) /\ Len(Append(Entries, delta)) = n + 1
      /\ Append(Entries, delta)[n + 1] = delta
      /\ \A i \in 1 .. n : Append(Entries, delta)[i] = Entries[i]
  BY <1>1, <1>2, <1>5, AppendProperties
<1>7. Entries'[n + 1] = delta
  BY <1>1, <1>3, <1>4
<1>8. \A i \in 1 .. n + 1 : Entries'[i] = Append(Entries, delta)[i]
  BY <1>1, <1>2, <1>3, <1>4, <1>6, <1>7
<1>9. Entries' = Append(Entries, delta)
  BY <1>4, <1>6, <1>8, SeqEqual
<1> QED
  BY <1>1, <1>4, <1>7, <1>9 DEF EntriesAppended

(* What a step that moves money is: one event or two, recorded with the      *)
(* balances that follow, an opening being of no deposit yet.                 *)
Opens(e) == e.type = "opening" /\ e.reverses = 0

Posted ==
    \E e \in Event :
       /\ RecordEvents(<<e>>) /\ balance' = Plus(balance, Moves(e))
       /\ Opens(e) => ~IsDeposit(e.deposit)

PostedBoth ==
    \E e, f \in Event :
       /\ RecordEvents(<<e, f>>) /\ balance' = Plus(balance, Plus(Moves(e), Moves(f)))
       /\ ~Opens(e) /\ ~Opens(f)

(* One event, or two, recorded with the balances that follow.                *)
LEMMA RecordsOne ==
    ASSUME EventsOK, EventsOK', NEW e \in Event, RecordEvents(<<e>>),
           NEW delta, delta = Moves(e), balance' = Plus(balance, delta)
    PROVE  Books!Next
<1>1. EntriesAppended(delta)
  BY AppendsEntry
<1>2. Books!Record(delta)
  BY <1>1 DEF EntriesAppended, Books!Record, Plus
<1> QED
  BY <1>1, <1>2 DEF EntriesAppended, Books!Next

LEMMA RecordedTwo ==
    ASSUME EventsOK, EventsOK', NEW e, NEW f, RecordEvents(<<e, f>>)
    PROVE  e \in Event /\ f \in Event
<1>1. PICK s : s = <<e, f>> /\ Len(s) = 2 /\ s[1] = e /\ s[2] = f
  OBVIOUS
<1>2. events' = events \o s /\ events \in Seq(Event) /\ events' \in Seq(Event)
  BY <1>1 DEF RecordEvents, EventsOK
<1>3. PICK n \in Nat : n = Len(events)
  BY <1>2
<1>4. /\ Len(events') = n + 2 /\ events'[n + 1] = e /\ events'[n + 2] = f
  BY <1>1, <1>2, <1>3
<1>5. PICK t \in Seq(Event) : t = events'
  BY <1>2
<1>6. t[n + 1] \in Event /\ t[n + 2] \in Event
  BY <1>4, <1>5
<1> QED
  BY <1>4, <1>5, <1>6

LEMMA RecordsTwo ==
    ASSUME EventsOK, EventsOK', NEW e \in Event, NEW f \in Event,
           RecordEvents(<<e, f>>), NEW first, first = Moves(e),
           NEW second, second = Moves(f),
           balance' = Plus(balance, Plus(first, second))
    PROVE  Books!Next
<1>1. PICK n \in Nat : n = Len(events)
  BY EventFacts
<1>2. /\ Entries \in Seq(Deltas) /\ Len(Entries) = n /\ DOMAIN events = 1 .. n
      /\ \A i \in 1 .. n : Entries[i] = Moves(events[i])
  BY <1>1, EntriesType, EventFacts
<1>3. /\ DOMAIN events' = 1 .. n + 2 /\ events'[n + 1] = e /\ events'[n + 2] = f
      /\ \A i \in 1 .. n : events'[i] = events[i]
      /\ Len(events') = n + 2
  BY <1>1, <1>2, RecordTwo
<1>4. /\ Entries' \in Seq(Deltas) /\ Len(Entries') = n + 2
      /\ \A i \in 1 .. n + 2 : Entries'[i] = Moves(events'[i])
  <2>1. \A i \in 1 .. n + 2 : Moves(events'[i]) \in Deltas
    BY <1>1, <1>3, MovesType DEF EventsOK
  <2>2. Entries' = [i \in 1 .. n + 2 |-> Moves(events'[i])]
    BY <1>3 DEF Entries, Moves
  <2>3. Entries' \in Seq(Deltas)
    BY <1>1, <2>1, <2>2, IsASeq
  <2> QED
    BY <1>1, <2>2, <2>3, LenProperties
<1>5. first \in Deltas /\ second \in Deltas
  BY MovesType
<1>6. PICK s : s = <<first, second>>
  OBVIOUS
<1>7. /\ s \in Seq(Deltas) /\ Len(s) = 2 /\ s[1] = first /\ s[2] = second
  BY <1>5, <1>6
<1>8. PICK t : t = Entries \o s
  OBVIOUS
<1>9. /\ t \in Seq(Deltas) /\ Len(t) = n + 2
      /\ \A i \in 1 .. n + 2 : t[i] = IF i <= n THEN Entries[i] ELSE s[i - n]
  <2>1. /\ t \in Seq(Deltas) /\ Len(t) = Len(Entries) + Len(s)
        /\ \A i \in 1 .. Len(Entries) + Len(s) :
              t[i] = IF i <= Len(Entries) THEN Entries[i] ELSE s[i - Len(Entries)]
    <3>1. PICK u \in Seq(Deltas) : u = Entries
      BY <1>2
    <3>2. /\ u \o s \in Seq(Deltas) /\ Len(u \o s) = Len(u) + Len(s)
          /\ \A i \in 1 .. Len(u) + Len(s) :
                (u \o s)[i] = IF i <= Len(u) THEN u[i] ELSE s[i - Len(u)]
      BY <1>7, ConcatProperties
    <3> QED BY <1>8, <3>1, <3>2
  <2> QED
    BY <1>2, <1>7, <2>1
<1>10. t[n + 1] = first /\ t[n + 2] = second
  BY <1>1, <1>7, <1>9
<1>11. Entries'[n + 1] = first /\ Entries'[n + 2] = second
  BY <1>1, <1>3, <1>4
<1>12. ASSUME NEW i \in 1 .. n + 2 PROVE Entries'[i] = t[i]
  <2>1. CASE i \in 1 .. n
    BY <1>1, <1>2, <1>3, <1>4, <1>9, <2>1
  <2>2. CASE i \notin 1 .. n
    <3>1. i = n + 1 \/ i = n + 2
      BY <1>1, <2>2
    <3> QED
      BY <1>10, <1>11, <3>1
  <2> QED
    BY <2>1, <2>2
<1>13. Entries' = t
  BY <1>4, <1>9, <1>12, SeqEqual
<1>14. balance' = [a \in Accounts |-> balance[a] + (first[a] + second[a])]
  BY DEF Plus
<1>15. Books!RecordBoth(first, second)
  BY <1>6, <1>8, <1>13, <1>14 DEF Books!RecordBoth
<1>16. /\ Len(Entries') = n + 2 /\ n + 2 > 1 /\ (n + 2) - 1 = n + 1
  BY <1>1, <1>4
<1>17. Len(Entries') > 0 /\ Len(Entries') > 1
       /\ Books!RecordBoth(Entries'[Len(Entries') - 1], Entries'[Len(Entries')])
  BY <1>1, <1>11, <1>15, <1>16
<1> QED
  BY <1>17 DEF Books!Next

LEMMA PostsJournal ==
    ASSUME EventsOK, EventsOK', Posted \/ PostedBoth PROVE Books!Next
<1>1. CASE Posted
  BY <1>1, RecordsOne DEF Posted
<1>2. CASE PostedBoth
  BY <1>2, RecordsTwo DEF PostedBoth
<1> QED BY <1>1, <1>2

(* What original events move, and what compensations move back.              *)
LEMMA OriginalMoves ==
    ASSUME NEW e \in Event, e.reverses = 0
    PROVE  /\ e.type \in {"funding", "topUp"} /\ e.other # e.deposit =>
                Moves(e) = PairDelta(e.other, -e.amount, e.deposit, e.amount)
           /\ e.type = "withdrawal" /\ e.other # e.deposit =>
                Moves(e) = PairDelta(e.deposit, -e.amount, e.other, e.amount)
           /\ e.type \in InterestTypes => Moves(e) = Delta(e.other, e.amount)
           /\ e.type = "opening" => Moves(e) = NoDelta
<1>1. e.amount \in Int
  BY DEF Event
<1>2. ASSUME e.type \in {"funding", "topUp"}, e.other # e.deposit
      PROVE  Moves(e) = PairDelta(e.other, -e.amount, e.deposit, e.amount)
  <2>1. Moves(e) = Minus(Delta(e.deposit, e.amount), Delta(e.other, e.amount))
    BY <1>2 DEF Moves, ClosureTypes, InterestTypes
  <2> QED
    BY <1>1, <1>2, <2>1 DEF Minus, Delta, PairDelta
<1>3. ASSUME e.type = "withdrawal", e.other # e.deposit
      PROVE  Moves(e) = PairDelta(e.deposit, -e.amount, e.other, e.amount)
  <2>1. Moves(e) = Minus(Delta(e.other, e.amount), Delta(e.deposit, e.amount))
    BY <1>3 DEF Moves, ClosureTypes, InterestTypes
  <2> QED
    BY <1>1, <1>3, <2>1 DEF Minus, Delta, PairDelta
<1>4. e.type \in InterestTypes => Moves(e) = Delta(e.other, e.amount)
  BY DEF Moves, ClosureTypes, InterestTypes
<1>5. e.type = "opening" => Moves(e) = NoDelta
  BY DEF Moves, ClosureTypes, InterestTypes
<1> QED
  BY <1>2, <1>3, <1>4, <1>5

LEMMA CompensationMoves ==
    ASSUME NEW e, EventFits(e), e.reverses = 0, NEW i \in 1 .. MaxEvents,
           NEW f, f = [e EXCEPT !.reverses = i]
    PROVE  /\ e.type \in PrincipalTypes \ ClosureTypes => Moves(f) = ReversalDeltas(e)
           /\ e.type \in InterestTypes => Moves(f) = Delta(e.other, -e.amount)
<1>1. /\ e \in Event /\ e.amount \in Int
      /\ e.type \in {"funding", "topUp", "withdrawal"} => e.other # e.deposit
  BY DEF EventFits, Event
<1>2. /\ f.reverses # 0 /\ f.type = e.type /\ f.amount = e.amount
      /\ f.other = e.other /\ f.deposit = e.deposit
  BY <1>1 DEF Event
<1>3. Moves(f) = Minus(NoDelta, Moves(e))
  BY <1>2 DEF Moves
<1>4. CASE e.type \in {"funding", "topUp"}
  <2>1. Moves(e) = PairDelta(e.other, -e.amount, e.deposit, e.amount)
    BY <1>1, <1>4, OriginalMoves
  <2>2. Minus(NoDelta, PairDelta(e.other, -e.amount, e.deposit, e.amount))
            = PairDelta(e.other, e.amount, e.deposit, -e.amount)
    BY <1>1 DEF Minus, NoDelta, PairDelta
  <2> QED
    BY <1>3, <1>4, <2>1, <2>2 DEF ReversalDeltas, InterestTypes
<1>5. CASE e.type = "withdrawal"
  <2>1. Moves(e) = PairDelta(e.deposit, -e.amount, e.other, e.amount)
    BY <1>1, <1>5, OriginalMoves
  <2>2. Minus(NoDelta, PairDelta(e.deposit, -e.amount, e.other, e.amount))
            = PairDelta(e.deposit, e.amount, e.other, -e.amount)
    BY <1>1 DEF Minus, NoDelta, PairDelta
  <2> QED
    BY <1>3, <1>5, <2>1, <2>2 DEF ReversalDeltas, InterestTypes
<1>6. CASE e.type = "opening"
  <2>1. Moves(e) = NoDelta
    BY <1>1, <1>6, OriginalMoves
  <2>2. Minus(NoDelta, NoDelta) = NoDelta
    BY DEF Minus, NoDelta
  <2> QED
    BY <1>3, <1>6, <2>1, <2>2 DEF ReversalDeltas, InterestTypes
<1>7. CASE e.type \in InterestTypes
  <2>1. Moves(e) = Delta(e.other, e.amount)
    BY <1>1, <1>7, OriginalMoves
  <2>2. Minus(NoDelta, Delta(e.other, e.amount)) = Delta(e.other, -e.amount)
    BY <1>1 DEF Minus, NoDelta, Delta
  <2> QED
    BY <1>3, <1>7, <2>1, <2>2 DEF InterestTypes, PrincipalTypes
<1> QED
  BY <1>4, <1>5, <1>6, <1>7 DEF PrincipalTypes, ClosureTypes, InterestTypes

(* A closure and its final payment, and both taken back.                     *)
LEMMA ClosureMoves ==
    ASSUME NEW e \in Event, NEW f \in Event, e.type \in ClosureTypes, f.type = "final",
           f.other = e.other, e.other # e.deposit, NEW p, p = e.amount, NEW n, n = f.amount
    PROVE  /\ e.reverses = 0 /\ f.reverses = 0 =>
                Plus(Moves(e), Moves(f)) = PairDelta(e.deposit, -p, e.other, p + n)
           /\ e.reverses # 0 /\ f.reverses # 0 =>
                Plus(Moves(e), Moves(f)) = PairDelta(e.deposit, p, e.other, -(p + n))
<1>1. p \in Int /\ n \in Int
  BY DEF Event
<1>2. ASSUME e.reverses = 0, f.reverses = 0
      PROVE  Plus(Moves(e), Moves(f)) = PairDelta(e.deposit, -p, e.other, p + n)
  <2>1. /\ Moves(e) = Minus(Delta(e.other, p), Delta(e.deposit, p))
        /\ Moves(f) = Delta(e.other, n)
    BY <1>2 DEF Moves, ClosureTypes, InterestTypes
  <2> QED
    BY <1>1, <2>1 DEF Plus, Minus, Delta, PairDelta
<1>3. ASSUME e.reverses # 0, f.reverses # 0
      PROVE  Plus(Moves(e), Moves(f)) = PairDelta(e.deposit, p, e.other, -(p + n))
  <2>1. /\ Moves(e) = Minus(NoDelta, Minus(Delta(e.other, p), Delta(e.deposit, p)))
        /\ Moves(f) = Minus(NoDelta, Delta(e.other, n))
    BY <1>3 DEF Moves, ClosureTypes, InterestTypes
  <2> QED
    BY <1>1, <2>1 DEF Plus, Minus, NoDelta, Delta, PairDelta
<1> QED
  BY <1>2, <1>3

(* A new original event and the delta applied with it.                       *)
LEMMA JournalsOne ==
    ASSUME DInv, DInv', NEW d \in Accounts, NEW type \in PrincipalTypes \cup InterestTypes,
           NEW amount \in 0 .. BalanceLimit, NEW other \in AccountRef,
           RecordEvents(<<NewEvent(d, type, amount, other, 0)>>),
           NEW delta, balance' = Plus(balance, delta),
           \/ type \in {"funding", "topUp"} /\ other # d
                 /\ delta = PairDelta(other, -amount, d, amount)
           \/ type = "withdrawal" /\ other # d /\ delta = PairDelta(d, -amount, other, amount)
           \/ type = "interest" /\ delta = Delta(other, amount)
           \/ type = "opening" /\ delta = NoDelta /\ ~IsDeposit(d)
    PROVE  Posted
<1>1. PICK e : e = NewEvent(d, type, amount, other, 0)
  OBVIOUS
<1>2. /\ e.deposit = d /\ e.type = type /\ e.amount = amount /\ e.other = other
      /\ e.reverses = 0 /\ e \in Event
  <2>1. LastDay \in Nat /\ MaxEvents \in Nat
    OBVIOUS
  <2> QED
    BY <1>1, <2>1 DEF NewEvent, Event
<1>3. Moves(e) = delta
  BY <1>2, OriginalMoves DEF InterestTypes
<1>4. Opens(e) => ~IsDeposit(e.deposit)
  BY <1>2 DEF Opens
<1> QED
  BY <1>1, <1>2, <1>3, <1>4 DEF Posted

LEMMA OpenExistingJournals ==
    ASSUME DInv, DInv', NEW d \in Accounts, OpenExisting(d) PROVE Books!Next
<1>1. PICK amount \in Sums \cup {0} :
        /\ balance' = [balance EXCEPT ![d] = amount]
        /\ RecordEvents(<<NewEvent(d, "opening", amount, None, 0)>>)
  BY DEF OpenExisting
<1>2. amount \in 0 .. BalanceLimit
  BY Numbers
<1>3. PICK e : e = NewEvent(d, "opening", amount, None, 0)
  OBVIOUS
<1>4. e \in Event /\ e.reverses = 0 /\ e.type = "opening"
  <2>1. LastDay \in Nat /\ MaxEvents \in Nat
    OBVIOUS
  <2> QED
    BY <1>2, <1>3, <2>1 DEF NewEvent, Event, PrincipalTypes, AccountRef
<1>5. Moves(e) = NoDelta
  BY <1>4, OriginalMoves
<1>6. /\ events' = Append(events, e) /\ Len(events') = Len(events) + 1
      /\ events'[Len(events) + 1] = e /\ DOMAIN events' = 1 .. Len(events) + 1
      /\ Len(events) \in Nat
  BY <1>1, <1>3, <1>4, RecordOne, EventFacts DEF DInv
<1>7. EntriesAppended(NoDelta)
  BY <1>1, <1>3, <1>4, <1>5, AppendsEntry DEF DInv
<1>8. balance[d] = 0 /\ balance' = [balance EXCEPT ![d] = balance'[d]]
  <2>1. ~Exists(d)
    BY DEF OpenExisting
  <2>2. balance[d] = 0 /\ balance \in [Accounts -> Balance]
    BY <2>1 DEF DInv, AccountsOK, AccountOK, BalancesTypeOK
  <2> QED
    BY <1>1, <2>2
<1>9. Books!Neutral(NoDelta)
  BY DEF Books!Neutral, NoDelta
<1> QED
  BY <1>7, <1>8, <1>9 DEF EntriesAppended, Books!Next, Books!Enter

LEMMA CreateFundedJournals ==
    ASSUME DInv, DInv', NEW q \in Requests, NEW d \in Accounts, CreateFunded(q, d)
    PROVE  Posted
<1>1. Holds(q, "fund") /\ ~Exists(d)
  BY DEF CreateFunded
<1>2. PICK source : source = reads[q].account
  OBVIOUS
<1>3. source \in AccountRef /\ source # d
  BY <1>1, <1>2, WhatIsRead DEF DInv, AccountRef
<1>4. PICK amount \in Sums :
        /\ balance' = Plus(balance, PairDelta(source, -amount, d, amount))
        /\ RecordEvents(<<NewEvent(d, "funding", amount, source, 0)>>)
  BY <1>2 DEF CreateFunded
<1>5. amount \in 0 .. BalanceLimit
  BY Numbers
<1> QED
  BY <1>3, <1>4, <1>5, JournalsOne DEF PrincipalTypes

LEMMA ConvertJournals ==
    ASSUME DInv, DInv', NEW q \in Requests, Convert(q) PROVE Posted
<1>1. PICK d, amount : d = reads[q].account /\ amount = reads[q].balance
  OBVIOUS
<1>2. /\ Holds(q, "convert") /\ UNCHANGED balance /\ ~IsDeposit(d)
      /\ RecordEvents(<<NewEvent(d, "opening", amount, None, 0)>>)
  BY <1>1 DEF Convert
<1>3. d \in Accounts /\ amount \in 0 .. BalanceLimit
  BY <1>1, <1>2, WhatIsRead DEF DInv
<1>4. balance' = Plus(balance, NoDelta)
  <2>1. balance \in [Accounts -> Int]
    BY Numbers DEF DInv, AccountsOK, BalancesTypeOK
  <2> QED
    BY <1>2, <2>1 DEF Plus, NoDelta
<1>5. PICK type, other, delta : type = "opening" /\ other = None /\ delta = NoDelta
  OBVIOUS
<1>6. type \in PrincipalTypes \cup InterestTypes /\ other \in AccountRef
  BY <1>5 DEF PrincipalTypes, AccountRef
<1>7. /\ RecordEvents(<<NewEvent(d, type, amount, other, 0)>>)
      /\ balance' = Plus(balance, delta) /\ ~IsDeposit(d)
  BY <1>2, <1>4, <1>5
<1> QED
  BY <1>3, <1>5, <1>6, <1>7, JournalsOne

LEMMA MoneyJournals ==
    ASSUME DInv, DInv', NEW q \in Requests, Withdraw(q) \/ TopUp(q) \/ ConfirmInterest(q)
    PROVE  Posted
<1>1. PICK d, to : d = reads[q].deposit /\ to = reads[q].account
  OBVIOUS
<1>2. ASSUME Withdraw(q) PROVE Posted
  <2>1. PICK amount \in Sums :
          /\ balance' = Plus(balance, PairDelta(d, -amount, to, amount))
          /\ RecordEvents(<<NewEvent(d, "withdrawal", amount, to, 0)>>)
    BY <1>1, <1>2 DEF Withdraw, ApplyAccountDeltas
  <2>2. d \in Accounts /\ to \in AccountRef /\ to # d
    BY <1>1, <1>2, WhatIsRead DEF DInv, Withdraw
  <2>3. amount \in 0 .. BalanceLimit
    BY Numbers
  <2> QED
    BY <2>1, <2>2, <2>3, JournalsOne DEF PrincipalTypes
<1>3. ASSUME TopUp(q) PROVE Posted
  <2>1. PICK amount \in Sums :
          /\ balance' = Plus(balance, PairDelta(to, -amount, d, amount))
          /\ RecordEvents(<<NewEvent(d, "topUp", amount, to, 0)>>)
    BY <1>1, <1>3 DEF TopUp, ApplyAccountDeltas
  <2>2. d \in Accounts /\ to \in AccountRef /\ to # d
    BY <1>1, <1>3, WhatIsRead DEF DInv, TopUp
  <2>3. amount \in 0 .. BalanceLimit
    BY Numbers
  <2> QED
    BY <2>1, <2>2, <2>3, JournalsOne DEF PrincipalTypes
<1>4. ASSUME ConfirmInterest(q) PROVE Posted
  <2>1. PICK net \in Sums :
          /\ balance' = Plus(balance, Delta(to, net))
          /\ RecordEvents(<<NewEvent(d, "interest", net, to, 0)>>)
    BY <1>1, <1>4 DEF ConfirmInterest, ApplyAccountDeltas
  <2>2. d \in Accounts /\ to \in AccountRef
    BY <1>1, <1>4, WhatIsRead DEF DInv, ConfirmInterest
  <2>3. net \in 0 .. BalanceLimit
    BY Numbers
  <2> QED
    BY <2>1, <2>2, <2>3, JournalsOne DEF InterestTypes
<1> QED
  BY <1>2, <1>3, <1>4

LEMMA CloseJournals ==
    ASSUME DInv, DInv', NEW q \in Requests, CloseEarly(q) \/ CloseMatured(q)
    PROVE  PostedBoth
<1>1. PICK d, to : d = reads[q].deposit /\ to = reads[q].account
  OBVIOUS
<1>2. /\ Holds(q, "move")
      /\ \E type \in ClosureTypes : \E on : Close(q, type, on)
  BY DEF CloseEarly, CloseMatured, ClosureTypes
<1>3. d \in Accounts /\ to \in AccountRef /\ to # d
  BY <1>1, <1>2, WhatIsRead DEF DInv
<1>4. PICK p : p = balance[d]
  OBVIOUS
<1>a. PICK type \in ClosureTypes : \E on : Close(q, type, on)
  BY <1>2
<1>b. PICK on : Close(q, type, on)
  BY <1>a
<1>5. PICK net \in Sums \cup {0} :
        /\ balance' = Plus(balance, PairDelta(d, -p, to, p + net))
        /\ RecordEvents(<<NewEvent(d, type, p, to, on), NewEvent(d, "final", net, to, on)>>)
  BY <1>1, <1>4, <1>b DEF Close, ApplyAccountDeltas
<1>6. PICK e, f : e = NewEvent(d, type, p, to, on) /\ f = NewEvent(d, "final", net, to, on)
  OBVIOUS
<1>7. e \in Event /\ f \in Event
  BY <1>5, <1>6, RecordedTwo DEF DInv
<1>8. /\ e.deposit = d /\ e.type = type /\ e.amount = p /\ e.other = to /\ e.reverses = 0
      /\ f.type = "final" /\ f.amount = net /\ f.other = to /\ f.reverses = 0
  BY <1>6 DEF NewEvent
<1>9. Plus(Moves(e), Moves(f)) = PairDelta(d, -p, to, p + net)
  BY <1>3, <1>7, <1>8, ClosureMoves
<1>10. ~Opens(e) /\ ~Opens(f)
  BY <1>8 DEF Opens, ClosureTypes
<1> QED
  BY <1>5, <1>6, <1>7, <1>9, <1>10 DEF PostedBoth

LEMMA ReversalJournals ==
    ASSUME DInv, DInv', NEW i \in DOMAIN events, ReversePrincipal(i) \/ ReverseInterest(i)
    PROVE  Posted
<1>1. PICK e : e = events[i] /\ EventFits(e)
  BY DEF DInv, EventsOK
<1>2. /\ Live(i) /\ RecordEvents(<<Compensation(i)>>)
      /\ \/ /\ e.type \in PrincipalTypes \ ClosureTypes
            /\ balance' = Plus(balance, ReversalDeltas(e))
         \/ e.type \in InterestTypes /\ balance' = Plus(balance, Delta(e.other, -e.amount))
  BY <1>1 DEF ReversePrincipal, ReverseInterest, ApplyAccountDeltas
<1>3. PICK f : f = Compensation(i)
  OBVIOUS
<1>4. e.reverses = 0 /\ f = [e EXCEPT !.reverses = i] /\ i \in 1 .. MaxEvents
  BY <1>1, <1>2, <1>3, EventFacts DEF Live, Compensation, DInv, EventsOK
<1>5. f \in Event
  BY <1>1, <1>4 DEF EventFits, Event
<1>6. balance' = Plus(balance, Moves(f))
  BY <1>1, <1>2, <1>4, CompensationMoves
<1>7. ~Opens(f)
  BY <1>1, <1>4 DEF Opens, EventFits, Event
<1> QED
  BY <1>2, <1>3, <1>5, <1>6, <1>7 DEF Posted

(* A closure g and a final payment h of the deposit are taken back.          *)
TakesBack(g, h) ==
    /\ RecordEvents(<<g, h>>)
    /\ g.type \in ClosureTypes /\ h.type = "final"
    /\ g.reverses # 0 /\ h.reverses # 0
    /\ g.deposit = h.deposit /\ g.other # g.deposit /\ h.other # g.deposit
    /\ balance' = Plus(balance, PairDelta(g.deposit, g.amount, g.other,
                                          -(g.amount + h.amount)))

LEMMA ClosureTakenBack ==
    ASSUME DInv, NEW i \in DOMAIN events, ReverseClosure(i)
    PROVE  \E g, h \in Event : TakesBack(g, h)
<1>1. PICK e : e = events[i] /\ EventFits(e)
  BY DEF DInv, EventsOK
<1>2. PICK d, to : d = e.deposit /\ to = e.other
  OBVIOUS
<1>3. PICK j \in DOMAIN events :
        /\ ClosureInterest(i) = {j}
        /\ balance' = Plus(balance,
               PairDelta(d, e.amount, to, -(e.amount + events[j].amount)))
        /\ RecordEvents(<<Compensation(i), Compensation(j)>>)
  BY <1>1, <1>2 DEF ReverseClosure
<1>4. PICK f : f = events[j] /\ EventFits(f)
  BY DEF DInv, EventsOK
<1>5. /\ e.type \in ClosureTypes /\ f.type = "final"
      /\ e.reverses = 0 /\ f.reverses = 0 /\ f.deposit = d
  <2>1. j \in LiveOf(events[i].deposit, {"final"})
    BY <1>3 DEF ClosureInterest
  <2> QED
    BY <1>1, <1>2, <1>4, <2>1 DEF LiveOf, Live, ReverseClosure
<1>6. PICK g, h : g = Compensation(i) /\ h = Compensation(j)
  OBVIOUS
<1>7. /\ g \in Event /\ h \in Event /\ g.reverses = i /\ h.reverses = j
      /\ g.type = e.type /\ g.amount = e.amount /\ g.other = to /\ g.deposit = d
      /\ h.type = "final" /\ h.amount = f.amount /\ h.other = f.other /\ h.deposit = d
      /\ i # 0 /\ j # 0 /\ to # d /\ f.other # d
  <2>1. i \in 1 .. MaxEvents /\ j \in 1 .. MaxEvents /\ e \in Event /\ f \in Event
    BY <1>1, <1>4, EventFacts DEF EventFits, DInv, EventsOK
  <2>2. g = [e EXCEPT !.reverses = i] /\ h = [f EXCEPT !.reverses = j]
    BY <1>1, <1>4, <1>6 DEF Compensation
  <2>3. to # d /\ f.other # d
    BY <1>1, <1>2, <1>4, <1>5 DEF EventFits, ClosureTypes
  <2> QED
    BY <1>2, <1>5, <2>1, <2>2, <2>3 DEF Event
<1> QED
  BY <1>3, <1>4, <1>5, <1>6, <1>7 DEF TakesBack

(* The reversal of a closure is the one that may go amiss.                   *)
LEMMA TakenBackJournals ==
    ASSUME DInv, NEW g \in Event, NEW h \in Event, TakesBack(g, h)
    PROVE  PostedBoth \/ ReversedAmiss
<1> DEFINE d == g.deposit
           to == g.other
           p == g.amount
<1>1. p \in Int /\ h.amount \in Nat
  BY DEF Event
<1>2. ~Opens(g) /\ ~Opens(h)
  BY DEF TakesBack, Opens
<1>3. CASE h.other = to
  <2>1. Plus(Moves(g), Moves(h)) = PairDelta(d, p, to, -(p + h.amount))
    BY <1>3, ClosureMoves DEF TakesBack
  <2> QED
    BY <1>2, <2>1 DEF TakesBack, PostedBoth
<1>4. CASE h.other # to /\ h.amount = 0
  <2>1. -(p + 0) = -p
    BY <1>1
  <2>2. Plus(Moves(g), Moves(h)) = PairDelta(d, p, to, -p)
    <3>1. /\ Moves(g) = Minus(NoDelta, Minus(Delta(to, p), Delta(d, p)))
          /\ Moves(h) = Minus(NoDelta, Delta(h.other, 0))
      BY <1>4 DEF TakesBack, Moves, ClosureTypes, InterestTypes
    <3> QED
      BY <1>1, <3>1 DEF TakesBack, Plus, Minus, NoDelta, Delta, PairDelta
  <2>3. balance' = Plus(balance, Plus(Moves(g), Moves(h)))
    BY <1>4, <2>1, <2>2 DEF TakesBack
  <2> QED
    BY <1>2, <2>3 DEF TakesBack, PostedBoth
<1>5. CASE h.other # to /\ h.amount # 0
  <2>1. /\ NewEvents = {Len(events) + 1, Len(events) + 2}
        /\ events'[Len(events) + 1] = g /\ events'[Len(events) + 2] = h
        /\ \A k \in DOMAIN events : events'[k] = events[k]
    BY RecordTwo DEF TakesBack, DInv
  <2>2. h.amount > 0
    BY <1>1, <1>5
  <2> QED
    BY <1>5, <2>1, <2>2 DEF ReversedAmiss, TakesBack
<1> QED
  BY <1>3, <1>4, <1>5

(* Every step posts, takes a closure back, opens a deposit on an account     *)
(* that was not there, or leaves balances and events alone.                  *)
LEMMA MoneySteps ==
    ASSUME DInv, DInv', [Next]_vars
    PROVE  \/ Posted \/ PostedBoth
           \/ \E g, h \in Event : TakesBack(g, h)
           \/ \E d \in Accounts : OpenExisting(d)
           \/ UNCHANGED <<balance, events>>
<1>2. ASSUME NEW q \in Requests, NEW a \in Accounts,
             \/ BeginFund(q, a) \/ BeginConvert(q, a)
             \/ \E b \in AccountRef : BeginMove(q, a, b) \/ BeginInterest(q, a, b)
      PROVE  UNCHANGED <<balance, events>>
  BY <1>2 DEF BeginFund, BeginConvert, BeginMove, BeginInterest, Hold, accountVars
<1>3. ASSUME NEW q \in Requests, Reject(q) PROVE UNCHANGED <<balance, events>>
  BY <1>3 DEF Reject, accountVars
<1>4. ASSUME NEW d \in Accounts,
             Renew(d) \/ \E i \in DOMAIN terms[d] : ReverseRenewal(d, i)
      PROVE  UNCHANGED <<balance, events>>
  BY <1>4 DEF Renew, RenewWith, ReverseRenewal, UndoRenewal, accountVars
<1>5. Tick \/ UNCHANGED vars => UNCHANGED <<balance, events>>
  BY DEF Tick, vars, depositVars, accountVars
<1>6. ASSUME NEW q \in Requests, NEW a \in Accounts, CreateFunded(q, a) PROVE Posted
  BY <1>6, CreateFundedJournals
<1>7. ASSUME NEW q \in Requests,
             \/ Convert(q) \/ Withdraw(q) \/ TopUp(q) \/ ConfirmInterest(q)
             \/ CloseEarly(q) \/ CloseMatured(q)
      PROVE  Posted \/ PostedBoth
  BY <1>7, ConvertJournals, MoneyJournals, CloseJournals
<1>9. ASSUME NEW i \in DOMAIN events,
             ReversePrincipal(i) \/ ReverseClosure(i) \/ ReverseInterest(i)
      PROVE  Posted \/ \E g, h \in Event : TakesBack(g, h)
  BY <1>9, ReversalJournals, ClosureTakenBack
<1> QED
  BY <1>2, <1>3, <1>4, <1>5, <1>6, <1>7, <1>9 DEF Next

LEMMA JournalStep ==
    DInv /\ DInv' /\ [Next]_vars => [Books!Next \/ ReversedAmiss]_Books!journalVars
<1> SUFFICES ASSUME DInv, DInv', [Next]_vars
             PROVE  \/ Books!Next \/ ReversedAmiss
                    \/ UNCHANGED Books!journalVars
  OBVIOUS
<1>1. ASSUME UNCHANGED <<balance, events>> PROVE UNCHANGED Books!journalVars
  BY <1>1 DEF Books!journalVars, Entries
<1>2. Posted \/ PostedBoth => Books!Next
  BY PostsJournal DEF DInv
<1>3. (\E g, h \in Event : TakesBack(g, h)) => PostedBoth \/ ReversedAmiss
  BY TakenBackJournals
<1>4. ASSUME NEW d \in Accounts, OpenExisting(d) PROVE Books!Next
  BY <1>4, OpenExistingJournals
<1> QED
  BY <1>1, <1>2, <1>3, <1>4, MoneySteps

LEMMA JournalInit == Init => Books!Init
<1> SUFFICES ASSUME Init PROVE Books!Init
  OBVIOUS
<1>1. DInv
  BY InitHolds
<1>2. balance \in [Accounts -> Int]
  BY <1>1, Numbers DEF DInv, AccountsOK, BalancesTypeOK
<1>3. Entries = <<>>
  <2>1. Entries \in Seq(Deltas) /\ Len(Entries) = 0
    BY <1>1, EntriesType DEF Init, DInv
  <2> QED
    BY <2>1, EmptySeq
<1> QED
  BY <1>2, <1>3 DEF Books!Init

(* The deposit service keeps the journal: with every step the balances move  *)
(* by exactly what the events recorded with it say, closures and reversals   *)
(* included, but for the reversal of a closure that takes back the final     *)
(* payment of another one.                                                   *)
THEOREM DepositsKeepJournal == Spec => JournalSpec
<1>1. DInv /\ DInv' /\ [Next]_vars => [Books!Next \/ ReversedAmiss]_Books!journalVars
  BY JournalStep
<1> QED
  BY <1>1, JournalInit, DepositsInvariant, PTL DEF Spec, JournalSpec

-----------------------------------------------------------------------------
(* What the events of a deposit claim, in the sequence s of events.          *)
ClaimsIn(s) == [i \in DOMAIN s |-> Claims(s[i])]
EventsOf(s, d) == {i \in DOMAIN s : s[i].deposit = d}
Claimed(s, d) == SumFunctionOnSet(ClaimsIn(s), EventsOf(s, d))

(* What an event adds for deposit d.                                         *)
Own(e, d) == IF e.deposit = d THEN Claims(e) ELSE 0

LEMMA ClaimsType == \A e \in Event : Claims(e) \in Int
<1> SUFFICES ASSUME NEW e \in Event PROVE Claims(e) \in Int
  OBVIOUS
<1>1. e.amount \in Int
  BY DEF Event
<1> QED BY <1>1 DEF Claims

LEMMA ClaimedFacts ==
    ASSUME NEW s \in Seq(Event), NEW d
    PROVE  /\ IsFiniteSet(EventsOf(s, d)) /\ EventsOf(s, d) \subseteq DOMAIN s
           /\ \A i \in DOMAIN s : ClaimsIn(s)[i] = Claims(s[i]) /\ ClaimsIn(s)[i] \in Int
           /\ Claimed(s, d) \in Int
<1>1. PICK n \in Nat : n = Len(s) /\ DOMAIN s = 1 .. n
  OBVIOUS
<1>2. IsFiniteSet(1 .. n)
  BY FS_Interval
<1>3. EventsOf(s, d) \subseteq 1 .. n
  BY <1>1 DEF EventsOf
<1>4. IsFiniteSet(EventsOf(s, d))
  BY <1>2, <1>3, FS_Subset
<1>5. \A i \in DOMAIN s : ClaimsIn(s)[i] = Claims(s[i]) /\ ClaimsIn(s)[i] \in Int
  BY ClaimsType DEF ClaimsIn
<1>6. Claimed(s, d) \in Int
  <2>1. \A i \in EventsOf(s, d) : ClaimsIn(s)[i] \in Int
    BY <1>1, <1>3, <1>5
  <2> QED BY <1>4, <2>1, SumIsInt DEF Claimed
<1> QED BY <1>1, <1>3, <1>4, <1>5, <1>6

LEMMA ClaimedGrows ==
    ASSUME NEW s \in Seq(Event), NEW e \in Event, NEW d
    PROVE  Claimed(Append(s, e), d) = Claimed(s, d) + Own(e, d)
<1>1. PICK n \in Nat : n = Len(s) /\ DOMAIN s = 1 .. n
  OBVIOUS
<1>2. PICK t \in Seq(Event) : t = Append(s, e)
  BY AppendProperties
<1>3. /\ DOMAIN t = 1 .. n + 1 /\ t[n + 1] = e
      /\ \A i \in 1 .. n : t[i] = s[i]
  BY <1>1, <1>2
<1> DEFINE S == EventsOf(s, d)
           f == ClaimsIn(s)
           g == ClaimsIn(t)
<1>4. /\ IsFiniteSet(S) /\ S \subseteq 1 .. n /\ n + 1 \notin S
      /\ \A i \in S : f[i] = g[i] /\ g[i] \in Int
      /\ g[n + 1] = Claims(e) /\ g[n + 1] \in Int
  <2>1. IsFiniteSet(S) /\ S \subseteq 1 .. n /\ n + 1 \notin S
    BY <1>1, ClaimedFacts
  <2>2. /\ \A i \in 1 .. n : f[i] = Claims(s[i])
        /\ \A i \in 1 .. n + 1 : g[i] = Claims(t[i]) /\ g[i] \in Int
    BY <1>1, <1>3, ClaimedFacts
  <2> HIDE DEF f, g, S
  <2> QED BY <1>3, <2>1, <2>2
<1>5. SumFunctionOnSet(f, S) = SumFunctionOnSet(g, S) /\ SumFunctionOnSet(g, S) \in Int
  <2> HIDE DEF f, g, S
  <2> QED BY <1>4, SumOfEquals, SumIsInt
<1>6. CASE e.deposit = d
  <2>1. EventsOf(t, d) = S \cup {n + 1}
    BY <1>1, <1>3, <1>6 DEF EventsOf
  <2>2. SumFunctionOnSet(g, S \cup {n + 1}) = SumFunctionOnSet(g, S) + g[n + 1]
    <3> HIDE DEF g, S
    <3> QED BY <1>4, SumPutIn
  <2> QED BY <1>2, <1>4, <1>5, <1>6, <2>1, <2>2 DEF Claimed, Own
<1>7. CASE e.deposit # d
  <2>1. EventsOf(t, d) = S
    BY <1>1, <1>3, <1>7 DEF EventsOf
  <2> QED BY <1>2, <1>5, <1>7, <2>1 DEF Claimed, Own
<1> QED BY <1>6, <1>7

(* An event that is neither an opening nor of another deposit with this one  *)
(* at its other end moves the deposit by what it claims.                     *)
Plain(e, d) ==
    /\ e.deposit = d => e.type # "opening"
    /\ e.deposit # d => e.other # d

LEMMA ClaimIsMove ==
    ASSUME NEW e \in Event, e.type \notin {"opening", "interest"} => e.other # e.deposit,
           NEW d \in Accounts, Plain(e, d)
    PROVE  Moves(e)[d] = Own(e, d) /\ Own(e, d) \in Int
<1>1. e.amount \in Int /\ e.type \in PrincipalTypes \cup InterestTypes
  BY DEF Event
<1>2. /\ \A b, x : Delta(b, x)[d] = IF b = d THEN x ELSE 0
      /\ NoDelta[d] = 0
      /\ \A x, y : Minus(x, y)[d] = x[d] - y[d]
  BY DEF Delta, NoDelta, Minus
<1>3. CASE e.deposit # d
  <2>1. e.other # d
    BY <1>3 DEF Plain
  <2>2. Delta(e.other, e.amount)[d] = 0 /\ Delta(e.deposit, e.amount)[d] = 0
    BY <1>2, <1>3, <2>1
  <2> QED BY <1>2, <1>3, <2>2 DEF Moves, Own
<1>4. CASE e.deposit = d /\ e.type \in {"withdrawal"} \cup ClosureTypes
  <2>1. e.other # d
    BY <1>4 DEF ClosureTypes
  <2> QED BY <1>1, <1>2, <1>4, <2>1 DEF Moves, Own, Claims
<1>5. CASE e.deposit = d /\ e.type \in {"funding", "topUp"}
  <2>1. e.other # d
    BY <1>5
  <2> QED BY <1>1, <1>2, <1>5, <2>1
          DEF Moves, Own, Claims, ClosureTypes, InterestTypes, PrincipalTypes
<1>6. CASE e.deposit = d /\ e.type \in InterestTypes
  <2>1. e.type \notin PrincipalTypes /\ e.type \notin {"withdrawal"} \cup ClosureTypes
    BY <1>6 DEF InterestTypes, PrincipalTypes, ClosureTypes
  <2> QED BY <1>1, <1>2, <1>6, <2>1 DEF Moves, Own, Claims
<1> QED
  BY <1>1, <1>3, <1>4, <1>5, <1>6 DEF Plain, PrincipalTypes

(* A balance that moves by what the new events claim keeps its discrepancy.  *)
LEMMA DiscrepancyIs == \A d : Discrepancy(d) = balance[d] - Claimed(events, d)
BY DEF Discrepancy, Claimed, ClaimsIn, EventsOf

LEMMA NextDiscrepancyIs == \A d : Discrepancy(d)' = balance'[d] - Claimed(events', d)
BY DEF Discrepancy, Claimed, ClaimsIn, EventsOf, Claims, ClosureTypes, PrincipalTypes

LEMMA DiscrepancyStays ==
    ASSUME DInv, DInv', NEW d \in Accounts, NEW x \in Int,
           balance'[d] = balance[d] + x, Claimed(events', d) = Claimed(events, d) + x
    PROVE  Discrepancy(d)' = Discrepancy(d)
<1>1. balance[d] \in Int /\ Claimed(events, d) \in Int
  BY Numbers, ClaimedFacts DEF DInv, AccountsOK, BalancesTypeOK, EventsOK
<1> QED BY <1>1, DiscrepancyIs, NextDiscrepancyIs

(* What may make a deposit drift.                                            *)
DriftCause(d) ==
    \E i \in NewEvents :
       LET e == events'[i] IN
       \/ e.deposit = d /\ e.type = "opening" /\ e.reverses # 0
       \/ e.deposit # d /\ e.other = d

LEMMA NewIsPlain ==
    ASSUME NEW d \in Accounts, ~DriftCause(d), NEW i \in NewEvents, NEW e, e = events'[i],
           e.deposit = d => ~Opens(e)
    PROVE  Plain(e, d)
BY DEF DriftCause, Plain, Opens

LEMMA PostedKeeps ==
    ASSUME DInv, DInv', Posted, NEW d \in Accounts, IsDeposit(d), ~DriftCause(d)
    PROVE  Discrepancy(d)' = Discrepancy(d)
<1>1. PICK e \in Event : /\ RecordEvents(<<e>>) /\ balance' = Plus(balance, Moves(e))
                         /\ Opens(e) => ~IsDeposit(e.deposit)
  BY DEF Posted
<1>2. /\ events' = Append(events, e) /\ NewEvents = {Len(events) + 1}
      /\ events'[Len(events) + 1] = e /\ Len(events) + 1 \in DOMAIN events'
      /\ events \in Seq(Event)
  BY <1>1, RecordOne, EventFacts DEF DInv, EventsOK
<1>3. e.type \notin {"opening", "interest"} => e.other # e.deposit
  BY <1>2 DEF DInv, EventsOK, EventFits
<1>4. Plain(e, d)
  BY <1>1, <1>2, NewIsPlain
<1>5. Moves(e)[d] = Own(e, d) /\ Own(e, d) \in Int
  BY <1>3, <1>4, ClaimIsMove
<1>6. balance'[d] = balance[d] + Own(e, d)
  BY <1>1, <1>5 DEF Plus
<1>7. Claimed(events', d) = Claimed(events, d) + Own(e, d)
  <2>1. PICK s \in Seq(Event) : s = events
    BY <1>2
  <2>2. Claimed(Append(s, e), d) = Claimed(s, d) + Own(e, d)
    BY ClaimedGrows
  <2> QED BY <1>2, <2>1, <2>2
<1> QED BY <1>5, <1>6, <1>7, DiscrepancyStays

LEMMA ClaimedGrowsByTwo ==
    ASSUME DInv, NEW e \in Event, NEW f \in Event, RecordEvents(<<e, f>>), NEW d,
           Own(e, d) \in Int, Own(f, d) \in Int
    PROVE  Claimed(events', d) = Claimed(events, d) + (Own(e, d) + Own(f, d))
<1>1. PICK s \in Seq(Event) : s = events
  BY DEF DInv, EventsOK
<1>2. events' = Append(Append(s, e), f)
  <2>1. events' = s \o <<e, f>>
    BY <1>1 DEF RecordEvents
  <2> QED BY <2>1
<1>3. PICK t \in Seq(Event) : t = Append(s, e)
  BY AppendProperties
<1>4. Claimed(t, d) = Claimed(s, d) + Own(e, d)
  BY <1>3, ClaimedGrows
<1>5. Claimed(Append(t, f), d) = Claimed(t, d) + Own(f, d)
  BY ClaimedGrows
<1>6. Claimed(s, d) \in Int
  BY ClaimedFacts
<1>7. Claimed(events', d) = Claimed(Append(t, f), d) /\ Claimed(events, d) = Claimed(s, d)
  BY <1>1, <1>2, <1>3
<1> QED BY <1>4, <1>5, <1>6, <1>7

LEMMA NewTwo ==
    ASSUME DInv, DInv', NEW e \in Event, NEW f \in Event, RecordEvents(<<e, f>>),
           ~Opens(e), ~Opens(f), NEW d \in Accounts, ~DriftCause(d)
    PROVE  /\ Plain(e, d) /\ Plain(f, d)
           /\ Moves(e)[d] = Own(e, d) /\ Own(e, d) \in Int
           /\ Moves(f)[d] = Own(f, d) /\ Own(f, d) \in Int
<1>1. PICK m, n : m = Len(events) + 1 /\ n = Len(events) + 2
  OBVIOUS
<1>2. /\ NewEvents = {m, n} /\ events'[m] = e /\ events'[n] = f
      /\ m \in DOMAIN events' /\ n \in DOMAIN events'
  BY <1>1, RecordTwo, EventFacts DEF DInv
<1>3. /\ e.type \notin {"opening", "interest"} => e.other # e.deposit
      /\ f.type \notin {"opening", "interest"} => f.other # f.deposit
  BY <1>2 DEF DInv, EventsOK, EventFits
<1>4. Plain(e, d) /\ Plain(f, d)
  BY <1>2, NewIsPlain
<1> QED BY <1>3, <1>4, ClaimIsMove

LEMMA PostedBothKeeps ==
    ASSUME DInv, DInv', PostedBoth, NEW d \in Accounts, ~DriftCause(d)
    PROVE  Discrepancy(d)' = Discrepancy(d)
<1>1. PICK e \in Event, f \in Event :
        /\ RecordEvents(<<e, f>>) /\ balance' = Plus(balance, Plus(Moves(e), Moves(f)))
        /\ ~Opens(e) /\ ~Opens(f)
  BY DEF PostedBoth
<1>2. /\ Moves(e)[d] = Own(e, d) /\ Own(e, d) \in Int
      /\ Moves(f)[d] = Own(f, d) /\ Own(f, d) \in Int
  BY <1>1, NewTwo
<1>3. balance'[d] = balance[d] + (Own(e, d) + Own(f, d))
  BY <1>1, <1>2 DEF Plus
<1>4. Claimed(events', d) = Claimed(events, d) + (Own(e, d) + Own(f, d))
  BY <1>1, <1>2, ClaimedGrowsByTwo
<1> QED BY <1>2, <1>3, <1>4, DiscrepancyStays

LEMMA TakenBackKeeps ==
    ASSUME DInv, DInv', NEW g \in Event, NEW h \in Event, TakesBack(g, h),
           NEW d \in Accounts, ~DriftCause(d)
    PROVE  Discrepancy(d)' = Discrepancy(d)
<1>1. ~Opens(g) /\ ~Opens(h) /\ RecordEvents(<<g, h>>)
  BY DEF TakesBack, Opens
<1>2. /\ Plain(g, d) /\ Own(g, d) \in Int /\ Own(h, d) \in Int
  BY <1>1, NewTwo
<1>3. Claimed(events', d) = Claimed(events, d) + (Own(g, d) + Own(h, d))
  BY <1>1, <1>2, ClaimedGrowsByTwo
<1>4. g.amount \in Int /\ h.amount \in Int
  BY DEF Event
<1>5. balance'[d] = balance[d] + PairDelta(g.deposit, g.amount, g.other,
                                           -(g.amount + h.amount))[d]
  BY DEF TakesBack, Plus
<1>6. CASE g.deposit = d
  <2>1. Own(g, d) = g.amount /\ Own(h, d) = 0
    BY <1>4, <1>6 DEF TakesBack, Own, Claims, ClosureTypes, PrincipalTypes
  <2>2. balance'[d] = balance[d] + g.amount
    BY <1>5, <1>6 DEF TakesBack, PairDelta
  <2> QED BY <1>2, <1>3, <1>4, <2>1, <2>2, DiscrepancyStays
<1>7. CASE g.deposit # d
  <2>1. Own(g, d) = 0 /\ Own(h, d) = 0 /\ g.other # d
    BY <1>2, <1>7 DEF TakesBack, Own, Plain
  <2>2. balance'[d] = balance[d] + 0
    BY <1>5, <1>7, <2>1 DEF PairDelta
  <2> QED BY <1>3, <2>1, <2>2, DiscrepancyStays
<1> QED BY <1>6, <1>7

LEMMA OpenExistingKeepsOthers ==
    ASSUME DInv, DInv', NEW b \in Accounts, OpenExisting(b), NEW d \in Accounts, IsDeposit(d)
    PROVE  Discrepancy(d)' = Discrepancy(d)
<1>1. PICK amount \in Sums \cup {0} :
        /\ balance' = [balance EXCEPT ![b] = amount]
        /\ RecordEvents(<<NewEvent(b, "opening", amount, None, 0)>>)
  BY DEF OpenExisting
<1>2. PICK e : e = NewEvent(b, "opening", amount, None, 0)
  OBVIOUS
<1>3. e \in Event /\ e.deposit = b
  <2>1. LastDay \in Nat /\ MaxEvents \in Nat /\ amount \in 0 .. BalanceLimit
    BY Numbers
  <2> QED BY <1>2, <2>1 DEF NewEvent, Event, PrincipalTypes, AccountRef
<1>4. b # d
  BY DEF OpenExisting, DInv, AccountsOK, AccountOK, Exists
<1>5. balance'[d] = balance[d] + 0
  <2>1. balance[d] \in Int /\ balance \in [Accounts -> Balance]
    BY Numbers DEF DInv, AccountsOK, BalancesTypeOK
  <2> QED BY <1>1, <1>4, <2>1
<1>6. Claimed(events', d) = Claimed(events, d) + 0
  <2>1. PICK s \in Seq(Event) : s = events
    BY DEF DInv, EventsOK
  <2>2. Claimed(Append(s, e), d) = Claimed(s, d) + Own(e, d)
    BY <1>3, ClaimedGrows
  <2>3. events' = Append(s, e)
    BY <1>1, <1>2, <1>3, <2>1, RecordOne DEF DInv
  <2>4. Own(e, d) = 0
    BY <1>3, <1>4 DEF Own
  <2> QED BY <2>1, <2>2, <2>3, <2>4
<1> QED BY <1>5, <1>6, DiscrepancyStays

LEMMA DriftStep ==
    ASSUME DInv, DInv', [Next]_vars, NEW d \in Accounts, IsDeposit(d),
           Discrepancy(d)' # Discrepancy(d)
    PROVE  DriftCause(d)
<1> SUFFICES ASSUME ~DriftCause(d) PROVE FALSE
  OBVIOUS
<1>1. ASSUME UNCHANGED <<balance, events>> PROVE FALSE
  BY <1>1, DiscrepancyIs, NextDiscrepancyIs
<1> QED
  BY <1>1, MoneySteps, PostedKeeps, PostedBothKeeps, TakenBackKeeps, OpenExistingKeepsOthers

(* A deposit's balance and the claims of its events drift apart by nothing   *)
(* but the reversal of its opening position and an event of another deposit  *)
(* with this one at its other end.                                           *)
THEOREM DriftAlwaysHasCause == Spec => DriftHasCause
<1>1. DInv /\ DInv' /\ [Next]_vars =>
        [ \A d \in Accounts :
          IsDeposit(d) /\ Discrepancy(d)' # Discrepancy(d) =>
             \E i \in NewEvents :
                LET e == events'[i] IN
                \/ e.deposit = d /\ e.type = "opening" /\ e.reverses # 0
                \/ e.deposit # d /\ e.other = d ]_vars
  BY DriftStep DEF DriftCause
<1> QED
  BY <1>1, DepositsInvariant, PTL DEF Spec, DriftHasCause
=============================================================================
