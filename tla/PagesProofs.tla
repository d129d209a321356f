---------------------------- MODULE PagesProofs -----------------------------
(* Proofs about the pages of figures and their cache, for any users, rows,   *)
(* loans, workers and number of writes.  For the cache, what a page computes *)
(* is just a function of the rows and loans of the members and of the moment;*)
(* the second half looks into the figures, the debts of the cards and the    *)
(* schedules of the loans.                                                   *)
EXTENDS Pages, SumProofs, SequenceTheorems, TLAPS

USE PagesAssumption

-----------------------------------------------------------------------------
(* Type correctness.                                                         *)
Then == {<<>>} \cup {<<l>> : l \in Loan}
Committed == [phase : {"committed"}, user : Users, then : Then]
Read == [phase : {"read"}, user : Users, read : Nat, then : Then]
Set == [phase : {"set"}, user : Users, then : Then]
AtLoan == [phase : {"schedule", "account"}, loan : Loan]

AskedKey == [phase : {"asked"}, key : Nat, missed : Causes]
Computed == [phase : {"computed"}, key : Nat, picture : Picture]

DataOK == rows \subseteq Row /\ loans \subseteq Loan /\ now \in Moment
                /\ asked \in Asks /\ version \in [Users -> Nat]
EntriesOK == /\ entries = [k \in DOMAIN entries |-> entries[k]]
             /\ \A k \in DOMAIN entries : k \in Nat /\ entries[k] \in Picture
RequestOK == request \in {Idle} \cup AskedKey \cup Computed
WritersOK ==
    writer \in [Workers -> {Idle} \cup Committed \cup Read \cup Set \cup AtLoan]

PagesTypeOK == DataOK /\ EntriesOK /\ RequestOK /\ WritersOK

-----------------------------------------------------------------------------
(* The inductive invariant.  A picture that no cause marks is either out of  *)
(* reach already, under a version gone by, or still true, or a worker is on  *)
(* its way to put it out of reach: where there are versions, one that has yet*)
(* to read the version or has read one that is not below the picture's.      *)
Versioned == asked.page = "statistics"
Version == VersionOf(asked.user)

Same(pic) ==
    /\ OfUsers(pic.rows, Members) = OfUsers(rows, Members)
    /\ LoansOf(pic.loans, Members) = LoansOf(loans, Members)
    /\ pic.at = now

Brings(w, k) ==
    /\ w.phase \in {"committed", "read", "set"}
    /\ w.user = asked.user /\ asked.page # "profile"
    /\ Versioned => \/ w.phase = "committed"
                    \/ w.phase = "read" /\ k <= w.read

Coming(k) == \E w \in Workers : Brings(writer[w], k)

InReach(k) == Versioned => k <= Version
GoneBy(k) == Versioned /\ k < Version

Accounted(pic, k) ==
    \/ pic.missed # "none"
    \/ InReach(k) /\ (GoneBy(k) \/ Same(pic) \/ Coming(k))

EntriesAccounted == \A k \in DOMAIN entries : Accounted(entries[k], k)

RequestAccounted ==
    /\ request.phase = "asked" => request.missed # "none" \/ InReach(request.key)
    /\ request.phase = "computed" => Accounted(request.picture, request.key)

PagesInv == PagesTypeOK /\ EntriesAccounted /\ RequestAccounted

-----------------------------------------------------------------------------
(* Lemmas about types.                                                       *)
LEMMA WriterType ==
    ASSUME WritersOK, NEW w \in Workers
    PROVE  /\ writer[w] \in {Idle} \cup Committed \cup Read \cup Set \cup AtLoan
           /\ writer[w].phase = "idle" <=> writer[w] = Idle
           /\ writer[w].phase = "committed" => writer[w] \in Committed
           /\ writer[w].phase = "read" => writer[w] \in Read
           /\ writer[w].phase = "set" => writer[w] \in Set
           /\ writer[w].phase \in {"schedule", "account"} => writer[w] \in AtLoan
BY DEF WritersOK, Idle, Committed, Read, Set, AtLoan

LEMMA WriterFields ==
    /\ \A x \in Committed : x.user \in Users /\ x.then \in Then
    /\ \A x \in Read : x.user \in Users /\ x.read \in Nat /\ x.then \in Then
    /\ \A x \in Set : x.user \in Users /\ x.then \in Then
    /\ \A x \in AtLoan : x.loan \in Loan
BY DEF Committed, Read, Set, AtLoan

LEMMA RequestType ==
    ASSUME RequestOK
    PROVE  /\ request.phase = "asked" => request \in AskedKey
           /\ request.phase = "computed" => request \in Computed
           /\ request \in AskedKey => request.key \in Nat /\ request.missed \in Causes
           /\ request \in Computed =>
                request.key \in Nat /\ request.picture \in Picture
           /\ Idle.phase = "idle"
BY DEF RequestOK, Idle, AskedKey, Computed

LEMMA ThenFacts ==
    ASSUME NEW then \in Then
    PROVE  then # <<>> => Head(then) \in Loan
<1>1. CASE then = <<>>
  BY <1>1
<1>2. CASE \E l \in Loan : then = <<l>>
  BY <1>2
<1> QED
  BY <1>1, <1>2 DEF Then

(* A picture keeps its type when it is marked, and what it was computed from.*)
LEMMA MarkFacts ==
    ASSUME NEW pic \in Picture, NEW cause \in Causes \ {"none"}
    PROVE  Mark(pic, cause) \in Picture /\ Mark(pic, cause).missed # "none"
<1>1. CASE pic.missed = "none"
  <2>1. /\ [pic EXCEPT !.missed = cause] \in Picture
        /\ [pic EXCEPT !.missed = cause].missed = cause
    BY DEF Picture
  <2> QED
    BY <1>1, <2>1 DEF Mark
<1>2. CASE pic.missed # "none"
  BY <1>2 DEF Mark
<1> QED
  BY <1>1, <1>2

LEMMA NowFacts ==
    ASSUME DataOK, NEW cause \in Causes
    PROVE  /\ [Now EXCEPT !.missed = cause] \in Picture
           /\ [Now EXCEPT !.missed = cause].missed = cause
           /\ Same([Now EXCEPT !.missed = cause])
<1>1. [Now EXCEPT !.missed = cause] =
        [rows |-> rows, loans |-> loans, at |-> now, missed |-> cause]
  BY DEF Now
<1> QED
  BY <1>1 DEF DataOK, Picture, Same

-----------------------------------------------------------------------------
(* Marking every picture that is out puts everything out of account.         *)
LEMMA MarkedAll ==
    ASSUME EntriesOK, RequestOK, EntriesAccounted, RequestAccounted,
           NEW cause \in Causes \ {"none"}, Marked(cause), asked' = asked,
           cause = "rewound" \/ version' = version
    PROVE  /\ EntriesOK' /\ RequestOK'
           /\ EntriesAccounted' /\ RequestAccounted'
<1>1. /\ entries' = [k \in DOMAIN entries |-> Mark(entries[k], cause)]
      /\ MarkedRequest(cause)
  BY DEF Marked, MarkedEntries
<1>2. DOMAIN entries' = DOMAIN entries
  BY <1>1
<1>3. \A k \in DOMAIN entries :
        /\ k \in Nat /\ entries'[k] \in Picture
        /\ entries'[k].missed # "none"
  BY <1>1, MarkFacts DEF EntriesOK
<1>4. EntriesOK'
  BY <1>1, <1>2, <1>3 DEF EntriesOK
<1>5. EntriesAccounted'
  BY <1>2, <1>3 DEF EntriesAccounted, Accounted
<1>6. CASE request.phase = "computed"
  <2>1. request' = [request EXCEPT !.picture = Mark(request.picture, cause)]
    BY <1>1, <1>6 DEF MarkedRequest
  <2>2. request \in Computed /\ request.picture \in Picture
    BY <1>6, RequestType
  <2>3. /\ Mark(request.picture, cause) \in Picture
        /\ Mark(request.picture, cause).missed # "none"
    BY <2>2, MarkFacts
  <2>4. /\ request' \in Computed /\ request'.phase = "computed"
        /\ request'.picture = Mark(request.picture, cause)
    BY <2>1, <2>2, <2>3 DEF Computed
  <2> QED
    BY <1>4, <1>5, <2>3, <2>4 DEF RequestOK, RequestAccounted, Accounted
<1>7. CASE request.phase = "asked" /\ cause = "rewound"
  <2>1. request' = [request EXCEPT !.missed = cause]
    BY <1>1, <1>7 DEF MarkedRequest
  <2>2. request \in AskedKey
    BY <1>7, RequestType
  <2>3. /\ request' \in AskedKey /\ request'.phase = "asked"
        /\ request'.missed # "none"
    BY <2>1, <2>2 DEF AskedKey
  <2> QED
    BY <1>4, <1>5, <2>3 DEF RequestOK, RequestAccounted
<1>8. CASE request.phase # "computed"
              /\ ~(request.phase = "asked" /\ cause = "rewound")
  <2>1. request' = request
    BY <1>1, <1>8 DEF MarkedRequest
  <2>2. version' = version => (InReach(request.key) => InReach(request.key)')
    BY <2>1 DEF InReach, Versioned, Version, VersionOf
  <2>3. RequestAccounted'
    BY <1>8, <2>1, <2>2 DEF RequestAccounted
  <2> QED
    BY <1>4, <1>5, <2>1, <2>3 DEF RequestOK
<1> QED
  BY <1>6, <1>7, <1>8

(* Where nothing is marked, everything stays accounted for if it stays in    *)
(* reach and either what it shows stays the same or somebody brings, and     *)
(* goes on bringing, the news.                                               *)
SameData ==
    /\ OfUsers(rows', Members) = OfUsers(rows, Members)
    /\ LoansOf(loans', Members) = LoansOf(loans, Members)
    /\ now' = now

ReachStays ==
    Versioned => Version \in Nat /\ Version' \in Nat /\ Version <= Version'

NewsStay ==
    \A k \in Nat : InReach(k) /\ Coming(k) => Coming(k)' \/ GoneBy(k)'

NewsCome == \A k \in Nat : InReach(k) => Coming(k)'

LEMMA AccountedStays ==
    ASSUME asked' = asked, ReachStays, NewsStay, SameData \/ NewsCome,
           NEW k \in Nat, NEW pic
    PROVE  /\ InReach(k) => InReach(k)'
           /\ Accounted(pic, k) =>
                \/ pic.missed # "none"
                \/ InReach(k)' /\ (GoneBy(k)' \/ Same(pic)' \/ Coming(k)')
<1>1. Versioned' <=> Versioned
  BY DEF Versioned
<1>2. InReach(k) => InReach(k)'
  BY <1>1 DEF InReach, ReachStays
<1>3. GoneBy(k) => GoneBy(k)'
  BY <1>1 DEF GoneBy, ReachStays
<1>4. Members' = Members
  BY DEF Members
<1>5. SameData /\ Same(pic) => Same(pic)'
  BY <1>4 DEF SameData, Same, OfUsers, LoansOf
<1> QED
  BY <1>2, <1>3, <1>5 DEF Accounted, NewsStay, NewsCome

LEMMA UnmarkedStays ==
    ASSUME EntriesOK, RequestOK, EntriesAccounted, RequestAccounted,
           UNCHANGED <<entries, request, asked>>,
           ReachStays, NewsStay, SameData \/ NewsCome
    PROVE  /\ EntriesOK' /\ RequestOK'
           /\ EntriesAccounted' /\ RequestAccounted'
<1>1. EntriesOK' /\ RequestOK'
  BY DEF EntriesOK, RequestOK
<1>2. EntriesAccounted'
  <2> SUFFICES ASSUME NEW k \in DOMAIN entries PROVE Accounted(entries[k], k)'
    BY DEF EntriesAccounted
  <2>1. k \in Nat /\ Accounted(entries[k], k)
    BY DEF EntriesOK, EntriesAccounted
  <2>2. PICK pic : pic = entries[k]
    OBVIOUS
  <2>3. \/ pic.missed # "none"
        \/ InReach(k)' /\ (GoneBy(k)' \/ Same(pic)' \/ Coming(k)')
    BY <2>1, <2>2, AccountedStays
  <2>4. entries'[k] = pic
    BY <2>2
  <2> QED
    BY <2>3, <2>4 DEF Accounted, Same
<1>3. RequestAccounted'
  <2>1. CASE request.phase = "asked"
    <3>1. PICK k \in Nat : k = request.key
      BY <2>1, RequestType
    <3>2. request.missed # "none" \/ InReach(k)
      BY <2>1, <3>1 DEF RequestAccounted
    <3>3. InReach(k) => InReach(k)'
      BY AccountedStays
    <3> QED
      BY <2>1, <3>1, <3>2, <3>3 DEF RequestAccounted, InReach
  <2>2. CASE request.phase = "computed"
    <3>1. PICK k \in Nat : k = request.key
      BY <2>2, RequestType
    <3>2. PICK pic : pic = request.picture
      OBVIOUS
    <3>3. Accounted(pic, k)
      BY <2>2, <3>1, <3>2 DEF RequestAccounted
    <3>4. \/ pic.missed # "none"
          \/ InReach(k)' /\ (GoneBy(k)' \/ Same(pic)' \/ Coming(k)')
      BY <3>3, AccountedStays
    <3>5. request'.key = k /\ request'.picture = pic
      BY <3>1, <3>2
    <3> QED
      BY <2>2, <3>4, <3>5
      DEF RequestAccounted, Accounted, InReach, GoneBy, Same, Coming, Brings
  <2>3. CASE request.phase \notin {"asked", "computed"}
    BY <2>3 DEF RequestAccounted
  <2> QED
    BY <2>1, <2>2, <2>3
<1> QED
  BY <1>1, <1>2, <1>3

-----------------------------------------------------------------------------
(* What the steps have in common.                                            *)
LEMMA VersionFacts ==
    ASSUME DataOK
    PROVE  asked.user \in Users /\ Version \in Nat /\ VersionOf(asked.user) = Version
BY DEF DataOK, Asks, Version, VersionOf

LEMMA VersionKept ==
    ASSUME DataOK, asked' = asked, version'[asked.user] = version[asked.user]
    PROVE  Version' = Version /\ ReachStays /\ (\A k \in Nat : InReach(k)' <=> InReach(k))
<1>1. Version' = Version
  BY DEF Version, VersionOf
<1> QED
  BY <1>1, VersionFacts DEF ReachStays, InReach, Versioned

LEMMA WriterPut ==
    ASSUME WritersOK, NEW w \in Workers,
           NEW x \in {Idle} \cup Committed \cup Read \cup Set \cup AtLoan,
           writer' = [writer EXCEPT ![w] = x]
    PROVE  /\ WritersOK' /\ writer'[w] = x
           /\ \A v \in Workers \ {w} : writer'[v] = writer[v]
BY DEF WritersOK

(* News is lost only with the worker that brings it.                         *)
LEMMA OthersBring ==
    ASSUME asked' = asked, NEW w \in Workers,
           \A v \in Workers \ {w} : writer'[v] = writer[v],
           \A k \in Nat : InReach(k) /\ Brings(writer[w], k) =>
                Brings(writer[w], k)' \/ GoneBy(k)'
    PROVE  NewsStay
<1> SUFFICES ASSUME NEW k \in Nat, InReach(k), Coming(k)
    PROVE  Coming(k)' \/ GoneBy(k)'
  BY DEF NewsStay
<1>1. PICK v \in Workers : Brings(writer[v], k)
  BY DEF Coming
<1>2. CASE v = w
  BY <1>1, <1>2 DEF Coming
<1>3. CASE v # w
  <2>1. Brings(writer[v], k)'
    BY <1>1, <1>3 DEF Brings, Versioned
  <2> QED
    BY <2>1 DEF Coming
<1> QED
  BY <1>2, <1>3

(* A write of user u, whether it sends a signal or not.                      *)
LEMMA WrittenData ==
    ASSUME PagesInv, NEW u \in Users, NEW signalled \in BOOLEAN,
           Marked(Unheard(u, signalled)),
           asked' = asked, version' = version,
           u \notin Members => SameData,
           NEW w \in Workers, \A v \in Workers \ {w} : writer'[v] = writer[v],
           writer[w].phase \notin {"committed", "read", "set"},
           signalled => writer'[w].phase = "committed" /\ writer'[w].user = u
    PROVE  /\ EntriesOK' /\ RequestOK'
           /\ EntriesAccounted' /\ RequestAccounted'
<1>1. /\ DataOK /\ EntriesOK /\ RequestOK /\ EntriesAccounted
      /\ RequestAccounted
  BY DEF PagesInv, PagesTypeOK
<1>2. CASE Unheard(u, signalled) = "none"
  <2>1. UNCHANGED <<entries, request>>
    BY <1>2 DEF Marked
  <2>2. ReachStays
    BY <1>1, VersionKept
  <2>3. NewsStay
    <3>1. \A k \in Nat : ~Brings(writer[w], k)
      BY DEF Brings
    <3> QED
      BY <3>1, OthersBring
  <2>4. SameData \/ NewsCome
    <3>1. CASE u \notin Members
      BY <3>1
    <3>2. CASE u \in Members
      <4>1. signalled /\ asked.page # "profile" /\ u = asked.user
        BY <1>2, <3>2 DEF Unheard
      <4>2. \A k \in Nat : Brings(writer[w], k)'
        BY <4>1 DEF Brings
      <4> QED
        BY <4>2 DEF NewsCome, Coming
    <3> QED
      BY <3>1, <3>2
  <2> QED
    BY <1>1, <2>1, <2>2, <2>3, <2>4, UnmarkedStays
<1>3. CASE Unheard(u, signalled) # "none"
  <2>1. PICK cause : cause = Unheard(u, signalled)
    OBVIOUS
  <2>2. cause \in Causes \ {"none"}
    BY <1>3, <2>1 DEF Unheard, Causes
  <2> QED
    BY <1>1, <2>1, <2>2, MarkedAll
<1> QED
  BY <1>2, <1>3

(* A step that leaves the data as they are and marks nothing.                *)
LEMMA NothingWritten ==
    ASSUME PagesInv, UNCHANGED <<rows, loans, now, asked, entries, request>>,
           ReachStays, NewsStay
    PROVE  /\ EntriesOK' /\ RequestOK'
           /\ EntriesAccounted' /\ RequestAccounted'
<1>1. SameData
  BY DEF SameData
<1> QED
  BY <1>1, UnmarkedStays DEF PagesInv, PagesTypeOK

-----------------------------------------------------------------------------
(* The workers' steps.                                                       *)
LEMMA IdleFacts == Idle.phase = "idle" /\ Idle.phase \notin {"committed", "read", "set"}
BY DEF Idle

LEMMA CommittedFacts ==
    ASSUME NEW u \in Users, NEW then \in Then
    PROVE  LET x == [phase |-> "committed", user |-> u, then |-> then]
           IN  x \in Committed /\ x.phase = "committed" /\ x.user = u
BY DEF Committed

LEMMA ReadFacts ==
    ASSUME NEW u \in Users, NEW v \in Nat, NEW then \in Then
    PROVE  LET x == [phase |-> "read", user |-> u, read |-> v, then |-> then]
           IN  x \in Read /\ x.phase = "read" /\ x.user = u /\ x.read = v
BY DEF Read

LEMMA SetFacts ==
    ASSUME NEW u \in Users, NEW then \in Then
    PROVE  LET x == [phase |-> "set", user |-> u, then |-> then]
           IN  x \in Set /\ x.phase = "set" /\ x.user = u
BY DEF Set

LEMMA LoanStatus ==
    ASSUME NEW l \in Loan, NEW s \in {"scheduled", "deleted"}
    PROVE  [l EXCEPT !.status = s] \in Loan /\ [l EXCEPT !.status = s].user = l.user
BY DEF Loan

LEMMA WriteKeeps ==
    ASSUME PagesInv, NEW w \in Workers, NEW r \in Changes, Write(w, r)
    PROVE  PagesInv'
<1>1. DataOK /\ WritersOK
  BY DEF PagesInv, PagesTypeOK
<1>2. r \in Row /\ r.account \in Accounts /\ Owner[r.account] \in Users
  BY OperationsAssumption DEF Row
<1>3. PICK u \in Users : u = Owner[r.account]
  BY <1>2
<1>4. PICK signalled \in BOOLEAN : signalled <=> Signalled(r.kind)
  OBVIOUS
<1>5. /\ rows' = rows \ {r} \/ rows' = rows \cup {r}
      /\ UNCHANGED <<loans, now, asked, version>>
      /\ writer[w] = Idle
      /\ IF signalled
         THEN writer' = [writer EXCEPT ![w] =
                            [phase |-> "committed", user |-> u, then |-> <<>>]]
         ELSE writer' = writer
  BY <1>3, <1>4 DEF Write, Invalidating
<1>6. Marked(Unheard(u, signalled))
  <2>1. CASE signalled
    <3>1. Signalled(r.kind) = TRUE /\ signalled = TRUE
      BY <2>1, <1>4 DEF Signalled
    <3> QED
      BY <1>3, <3>1 DEF Write
  <2>2. CASE ~signalled
    <3>1. Signalled(r.kind) = FALSE /\ signalled = FALSE
      BY <2>2, <1>4 DEF Signalled
    <3> QED
      BY <1>3, <3>1 DEF Write
  <2> QED
    BY <2>1, <2>2
<1>7. /\ WritersOK' /\ (\A v \in Workers \ {w} : writer'[v] = writer[v])
      /\ signalled => writer'[w].phase = "committed" /\ writer'[w].user = u
  <2>1. CASE signalled
    <3>1. <<>> \in Then
      BY DEF Then
    <3>2. PICK x \in Committed :
            /\ x = [phase |-> "committed", user |-> u, then |-> <<>>]
            /\ x.phase = "committed" /\ x.user = u
      BY <3>1, CommittedFacts
    <3> QED
      BY <1>1, <1>5, <2>1, <3>2, WriterPut
  <2>2. CASE ~signalled
    BY <1>1, <1>5, <2>2 DEF WritersOK
  <2> QED
    BY <2>1, <2>2
<1>8. u \notin Members => SameData
  BY <1>3, <1>5 DEF SameData, OfUsers
<1>9. DataOK'
  BY <1>1, <1>2, <1>5 DEF DataOK
<1>10. writer[w].phase \notin {"committed", "read", "set"}
  BY <1>5, IdleFacts
<1>11. /\ EntriesOK' /\ RequestOK' /\ EntriesAccounted' /\ RequestAccounted'
  BY <1>5, <1>6, <1>7, <1>8, <1>10, WrittenData
<1> QED
  BY <1>7, <1>9, <1>11 DEF PagesInv, PagesTypeOK

LEMMA RefreshKeeps ==
    ASSUME PagesInv, NEW w \in Workers, NEW u \in Users, Refresh(w, u)
    PROVE  PagesInv'
<1>1. DataOK /\ WritersOK
  BY DEF PagesInv, PagesTypeOK
<1>2. <<>> \in Then
  BY DEF Then
<1>3. PICK x \in Committed :
        x = [phase |-> "committed", user |-> u, then |-> <<>>]
  BY <1>2, CommittedFacts
<1>4. /\ writer' = [writer EXCEPT ![w] = x] /\ writer[w] = Idle
      /\ UNCHANGED <<rows, loans, now, asked, version, entries, request>>
  BY <1>3 DEF Refresh, Invalidating, Unmarked, Marked
<1>5. WritersOK' /\ \A v \in Workers \ {w} : writer'[v] = writer[v]
  BY <1>1, <1>4, WriterPut
<1>6. \A k \in Nat : ~Brings(writer[w], k)
  BY <1>4, IdleFacts DEF Brings
<1>7. NewsStay
  BY <1>4, <1>5, <1>6, OthersBring
<1>8. ReachStays
  BY <1>1, <1>4, VersionKept
<1> QED
  BY <1>1, <1>4, <1>5, <1>7, <1>8, NothingWritten
  DEF PagesInv, PagesTypeOK, DataOK

(* The loan of another user is no member's.                                  *)
LEMMA OtherLoans ==
    ASSUME NEW l \in Loan, NEW m \in Loan, m.user = l.user, l.user \notin Members,
           rows' = rows, now' = now,
           \/ loans' = loans \cup {l}
           \/ loans' = loans \ {l}
           \/ loans' = (loans \ {l}) \cup {m}
    PROVE  SameData
BY DEF SameData, LoansOf

LEMMA TakeLoanKeeps ==
    ASSUME PagesInv, NEW w \in Workers, NEW l \in NewLoans, TakeLoan(w, l)
    PROVE  PagesInv'
<1>1. DataOK /\ WritersOK /\ l \in Loan /\ l.user \in Users
  BY DEF PagesInv, PagesTypeOK, Loan
<1>2. PICK u \in Users : u = l.user
  BY <1>1
<1>3. <<l>> \in Then
  BY <1>1 DEF Then
<1>4. PICK x \in Committed :
        /\ x = [phase |-> "committed", user |-> u, then |-> <<l>>]
        /\ x.phase = "committed" /\ x.user = u
  BY <1>3, CommittedFacts
<1>5. /\ writer' = [writer EXCEPT ![w] = x] /\ writer[w] = Idle
      /\ loans' = loans \cup {l}
      /\ UNCHANGED <<rows, now, asked, version>>
      /\ Marked(Unheard(u, TRUE))
  BY <1>2, <1>4 DEF TakeLoan, Invalidating
<1>6. /\ WritersOK' /\ writer'[w] = x
      /\ \A v \in Workers \ {w} : writer'[v] = writer[v]
  BY <1>1, <1>5, WriterPut
<1>7. u \notin Members => SameData
  BY <1>1, <1>2, <1>5, OtherLoans
<1>8. writer[w].phase \notin {"committed", "read", "set"}
  BY <1>5, IdleFacts
<1>9. /\ EntriesOK' /\ RequestOK' /\ EntriesAccounted' /\ RequestAccounted'
  BY <1>4, <1>5, <1>6, <1>7, <1>8, WrittenData
<1> QED
  BY <1>1, <1>5, <1>6, <1>9 DEF PagesInv, PagesTypeOK, DataOK

LEMMA StoreScheduleKeeps ==
    ASSUME PagesInv, NEW w \in Workers, StoreSchedule(w)
    PROVE  PagesInv'
<1>1. DataOK /\ WritersOK
  BY DEF PagesInv, PagesTypeOK
<1>2. writer[w].phase = "schedule"
  BY DEF StoreSchedule
<1>3. PICK l \in Loan : l = writer[w].loan
  BY <1>1, <1>2, WriterType, WriterFields
<1>4. PICK m \in Loan : m = [l EXCEPT !.status = "scheduled"] /\ m.user = l.user
  BY LoanStatus
<1>5. PICK u \in Users : u = l.user
  BY DEF Loan
<1>6. /\ writer' = [writer EXCEPT ![w] = Idle]
      /\ loans' = (loans \ {l}) \cup {m}
      /\ UNCHANGED <<rows, now, asked, version>>
      /\ Marked(Unheard(u, FALSE))
  BY <1>3, <1>4, <1>5 DEF StoreSchedule
<1>7. /\ WritersOK' /\ \A v \in Workers \ {w} : writer'[v] = writer[v]
  BY <1>1, <1>6, WriterPut
<1>8. u \notin Members => SameData
  BY <1>4, <1>5, <1>6, OtherLoans
<1>9. /\ EntriesOK' /\ RequestOK' /\ EntriesAccounted' /\ RequestAccounted'
  BY <1>2, <1>6, <1>7, <1>8, WrittenData
<1> QED
  BY <1>1, <1>6, <1>7, <1>9 DEF PagesInv, PagesTypeOK, DataOK

LEMMA DeleteLoanKeeps ==
    ASSUME PagesInv, NEW w \in Workers, NEW l \in loans, DeleteLoan(w, l)
    PROVE  PagesInv'
<1>1. DataOK /\ WritersOK
  BY DEF PagesInv, PagesTypeOK
<1>2. PICK ln \in Loan : ln = l
  BY <1>1 DEF DataOK
<1>3. PICK m \in Loan : m = [ln EXCEPT !.status = "deleted"] /\ m.user = ln.user
  BY LoanStatus
<1>4. PICK u \in Users : u = ln.user
  BY DEF Loan
<1>5. PICK x \in AtLoan : x = [phase |-> "account", loan |-> m]
  BY DEF AtLoan
<1>6. /\ writer' = [writer EXCEPT ![w] = x] /\ writer[w] = Idle
      /\ loans' = (loans \ {ln}) \cup {m}
      /\ UNCHANGED <<rows, now, asked, version>>
      /\ Marked(Unheard(u, FALSE))
  BY <1>2, <1>3, <1>4, <1>5 DEF DeleteLoan
<1>7. /\ WritersOK' /\ \A v \in Workers \ {w} : writer'[v] = writer[v]
  BY <1>1, <1>6, WriterPut
<1>8. u \notin Members => SameData
  BY <1>3, <1>4, <1>6, OtherLoans
<1>9. writer[w].phase \notin {"committed", "read", "set"}
  BY <1>6, IdleFacts
<1>10. /\ EntriesOK' /\ RequestOK' /\ EntriesAccounted' /\ RequestAccounted'
  BY <1>6, <1>7, <1>8, <1>9, WrittenData
<1> QED
  BY <1>1, <1>6, <1>7, <1>10 DEF PagesInv, PagesTypeOK, DataOK

LEMMA DeleteAccountKeeps ==
    ASSUME PagesInv, NEW w \in Workers, DeleteAccount(w)
    PROVE  PagesInv'
<1>1. DataOK /\ WritersOK
  BY DEF PagesInv, PagesTypeOK
<1>2. writer[w].phase = "account"
  BY DEF DeleteAccount
<1>2a. writer[w].phase \notin {"committed", "read", "set"}
  BY <1>2
<1>3. PICK l \in Loan : l = writer[w].loan
  BY <1>1, <1>2, WriterType, WriterFields
<1>4. PICK u \in Users : u = l.user
  BY DEF Loan
<1>5. <<>> \in Then
  BY DEF Then
<1>6. PICK x \in Committed :
        /\ x = [phase |-> "committed", user |-> u, then |-> <<>>]
        /\ x.phase = "committed" /\ x.user = u
  BY <1>5, CommittedFacts
<1>7. /\ writer' = [writer EXCEPT ![w] = x]
      /\ loans' = loans \ {l}
      /\ UNCHANGED <<rows, now, asked, version>>
      /\ Marked(Unheard(u, TRUE))
  BY <1>3, <1>4, <1>6 DEF DeleteAccount, Invalidating
<1>8. /\ WritersOK' /\ writer'[w] = x
      /\ \A v \in Workers \ {w} : writer'[v] = writer[v]
  BY <1>1, <1>7, WriterPut
<1>9. u \notin Members => SameData
  BY <1>4, <1>7, OtherLoans
<1>10. /\ EntriesOK' /\ RequestOK' /\ EntriesAccounted' /\ RequestAccounted'
  BY <1>6, <1>7, <1>8, <1>9, <1>2a, WrittenData
<1> QED
  BY <1>1, <1>7, <1>8, <1>10 DEF PagesInv, PagesTypeOK, DataOK

LEMMA ReadVersionKeeps ==
    ASSUME PagesInv, NEW w \in Workers, ReadVersion(w)
    PROVE  PagesInv'
<1>1. DataOK /\ WritersOK
  BY DEF PagesInv, PagesTypeOK
<1>2. writer[w].phase = "committed" /\ writer[w] \in Committed
  BY <1>1, WriterType DEF ReadVersion
<1>3. PICK u \in Users : u = writer[w].user
  BY <1>2, WriterFields
<1>4. PICK then \in Then : then = writer[w].then
  BY <1>2, WriterFields
<1>5. PICK v \in Nat : v = VersionOf(u)
  BY <1>1 DEF DataOK, VersionOf
<1>6. PICK x \in Read :
        /\ x = [phase |-> "read", user |-> u, read |-> v, then |-> then]
        /\ x.phase = "read" /\ x.user = u /\ x.read = v
  <2> DEFINE r == [phase |-> "read", user |-> u, read |-> v, then |-> then]
  <2>1. r \in Read /\ r.phase = "read" /\ r.user = u /\ r.read = v
    BY ReadFacts
  <2> QED
    BY <2>1
<1>7. /\ writer' = [writer EXCEPT ![w] = x]
      /\ UNCHANGED <<rows, loans, now, asked, version, entries, request>>
  BY <1>3, <1>4, <1>5, <1>6 DEF ReadVersion
<1>8. /\ WritersOK' /\ writer'[w] = x
      /\ \A o \in Workers \ {w} : writer'[o] = writer[o]
  BY <1>1, <1>7, WriterPut
<1>9. ASSUME NEW k \in Nat, InReach(k), Brings(writer[w], k)
      PROVE  Brings(writer[w], k)'
  <2>1. u = asked.user /\ asked.page # "profile"
    BY <1>3, <1>9 DEF Brings
  <2>2. Versioned => k <= v
    BY <1>5, <1>9, <2>1 DEF InReach, Version
  <2> QED
    BY <1>6, <1>7, <1>8, <2>1, <2>2 DEF Brings, Versioned
<1>10. NewsStay
  BY <1>7, <1>8, <1>9, OthersBring
<1>11. ReachStays
  BY <1>1, <1>7, VersionKept
<1> QED
  BY <1>1, <1>7, <1>8, <1>10, <1>11, NothingWritten
  DEF PagesInv, PagesTypeOK, DataOK

LEMMA SetVersionKeeps ==
    ASSUME PagesInv, NEW w \in Workers, SetVersion(w)
    PROVE  PagesInv'
<1>1. /\ DataOK /\ WritersOK /\ EntriesOK /\ RequestOK
      /\ EntriesAccounted /\ RequestAccounted
  BY DEF PagesInv, PagesTypeOK
<1>2. writer[w].phase = "read" /\ writer[w] \in Read
  BY <1>1, WriterType DEF SetVersion
<1>3. PICK u \in Users : u = writer[w].user
  BY <1>2, WriterFields
<1>4. PICK then \in Then : then = writer[w].then
  BY <1>2, WriterFields
<1>5. PICK r \in Nat : r = writer[w].read
  BY <1>2, WriterFields
<1>6. PICK x \in Set :
        /\ x = [phase |-> "set", user |-> u, then |-> then]
        /\ x.phase = "set" /\ x.user = u
  BY SetFacts
<1>7. /\ writer' = [writer EXCEPT ![w] = x]
      /\ version' = [version EXCEPT ![u] = r + 1]
      /\ UNCHANGED <<rows, loans, now, asked>>
      /\ IF u = asked.user /\ r + 1 < VersionOf(u) THEN Marked("rewound")
         ELSE UNCHANGED <<entries, request>>
  BY <1>3, <1>4, <1>5, <1>6 DEF SetVersion, NextVersion, Unmarked, Marked
<1>8. /\ WritersOK' /\ writer'[w] = x
      /\ \A o \in Workers \ {w} : writer'[o] = writer[o]
  BY <1>1, <1>7, WriterPut
<1>9. DataOK'
  BY <1>1, <1>7 DEF DataOK
<1>10. CASE u = asked.user /\ r + 1 < VersionOf(u)
  <2>1. Marked("rewound")
    BY <1>7, <1>10
  <2>2. "rewound" \in Causes \ {"none"}
    BY DEF Causes
  <2>3. EntriesOK' /\ RequestOK' /\ EntriesAccounted' /\ RequestAccounted'
    BY <1>1, <1>7, <2>1, <2>2, MarkedAll
  <2> QED
    BY <1>8, <1>9, <2>3 DEF PagesInv, PagesTypeOK
<1>11. CASE ~(u = asked.user /\ r + 1 < VersionOf(u))
  <2>1. UNCHANGED <<entries, request>>
    BY <1>7, <1>11
  <2>2. u = asked.user => Version' = r + 1
    BY <1>1, <1>7, VersionFacts DEF Version, VersionOf, DataOK
  <2>3. ReachStays
    <3>1. CASE u = asked.user
      BY <1>1, <1>11, <2>2, <3>1, VersionFacts DEF ReachStays
    <3>2. CASE u # asked.user
      <4>1. version'[asked.user] = version[asked.user]
        BY <1>1, <1>7, <3>2, VersionFacts DEF DataOK
      <4> QED
        BY <1>1, <1>7, <4>1, VersionKept
    <3> QED
      BY <3>1, <3>2
  <2>4. ASSUME NEW k \in Nat, InReach(k), Brings(writer[w], k)
        PROVE  Brings(writer[w], k)' \/ GoneBy(k)'
    <3>1. u = asked.user /\ asked.page # "profile"
      BY <1>3, <2>4 DEF Brings
    <3>2. CASE Versioned
      <4>1. k <= r
        BY <1>2, <1>5, <2>4, <3>2 DEF Brings
      <4>2. k < Version'
        BY <2>2, <3>1, <4>1
      <4> QED
        BY <1>7, <3>2, <4>2 DEF GoneBy, Versioned
    <3>3. CASE ~Versioned
      BY <1>6, <1>7, <1>8, <3>1, <3>3 DEF Brings, Versioned
    <3> QED
      BY <3>2, <3>3
  <2>5. NewsStay
    BY <1>7, <1>8, <2>4, OthersBring
  <2> QED
    BY <1>7, <1>8, <1>9, <2>1, <2>3, <2>5, NothingWritten
    DEF PagesInv, PagesTypeOK
<1> QED
  BY <1>10, <1>11

(* What DropPages leaves its worker with.                                    *)
LEMMA DropPagesWriter ==
    ASSUME WritersOK, NEW w \in Workers, DropPages(w)
    PROVE  /\ WritersOK' /\ \A o \in Workers \ {w} : writer'[o] = writer[o]
<1>1. writer[w].phase = "set" /\ writer[w] \in Set
  BY WriterType DEF DropPages
<1>2. PICK then \in Then : then = writer[w].then
  BY <1>1, WriterFields
<1>3. CASE then = <<>>
  <2>1. writer' = [writer EXCEPT ![w] = Idle]
    BY <1>2, <1>3 DEF DropPages
  <2> QED
    BY <2>1, WriterPut
<1>4. CASE then # <<>>
  <2>1. PICK l \in Loan : l = Head(then)
    BY <1>4, ThenFacts
  <2>2. PICK x \in AtLoan : x = [phase |-> "schedule", loan |-> l]
    BY DEF AtLoan
  <2>3. writer' = [writer EXCEPT ![w] = x]
    BY <1>2, <1>4, <2>1, <2>2 DEF DropPages
  <2> QED
    BY <2>3, WriterPut
<1> QED
  BY <1>3, <1>4

LEMMA DropPagesKeeps ==
    ASSUME PagesInv, NEW w \in Workers, DropPages(w)
    PROVE  PagesInv'
<1>1. /\ DataOK /\ WritersOK /\ EntriesOK /\ RequestOK
      /\ EntriesAccounted /\ RequestAccounted
  BY DEF PagesInv, PagesTypeOK
<1>2. /\ WritersOK' /\ \A o \in Workers \ {w} : writer'[o] = writer[o]
  BY <1>1, DropPagesWriter
<1>3. /\ UNCHANGED <<rows, loans, now, asked, version>>
      /\ writer[w].phase = "set"
  BY DEF DropPages
<1>4. DataOK'
  BY <1>1, <1>3 DEF DataOK
<1>5. CASE writer[w].user = asked.user /\ asked.page \in Deleted
  <2>1. /\ entries' = <<>>
        /\ IF request.phase = "computed" /\ request.picture # Now
           THEN MarkedRequest("late") ELSE request' = request
    BY <1>5 DEF DropPages
  <2>2. DOMAIN entries' = {}
    BY <2>1
  <2>3. EntriesOK' /\ EntriesAccounted'
    BY <2>1, <2>2 DEF EntriesOK, EntriesAccounted
  <2>4. ~Versioned /\ ~Versioned'
    BY <1>3, <1>5 DEF Versioned, Deleted
  <2>5. CASE request.phase = "computed" /\ request.picture # Now
    <3>1. request' = [request EXCEPT !.picture = Mark(request.picture, "late")]
      BY <2>1, <2>5 DEF MarkedRequest
    <3>2. request \in Computed /\ request.picture \in Picture
      BY <1>1, <2>5, RequestType
    <3>3. /\ Mark(request.picture, "late") \in Picture
          /\ Mark(request.picture, "late").missed # "none"
      BY <3>2, MarkFacts DEF Causes
    <3>4. /\ request' \in Computed /\ request'.phase = "computed"
          /\ request'.picture = Mark(request.picture, "late")
      BY <3>1, <3>2, <3>3 DEF Computed
    <3> QED
      BY <1>2, <1>4, <2>3, <3>3, <3>4
      DEF PagesInv, PagesTypeOK, RequestOK, RequestAccounted, Accounted
  <2>6. CASE ~(request.phase = "computed" /\ request.picture # Now)
    <3>1. request' = request
      BY <2>1, <2>6
    <3>2. request.phase = "computed" => Same(request.picture)'
      <4>1. Members' = Members
        BY <1>3 DEF Members
      <4> QED
        BY <1>3, <2>6, <3>1, <4>1 DEF Same, Now
    <3>3. RequestAccounted'
      BY <2>4, <3>1, <3>2 DEF RequestAccounted, Accounted, InReach
    <3> QED
      BY <1>1, <1>2, <1>4, <2>3, <3>1, <3>3
      DEF PagesInv, PagesTypeOK, RequestOK
  <2> QED
    BY <2>5, <2>6
<1>6. CASE ~(writer[w].user = asked.user /\ asked.page \in Deleted)
  <2>1. UNCHANGED <<entries, request>>
    BY <1>6 DEF DropPages, Unmarked, Marked
  <2>2. ReachStays
    BY <1>1, <1>3, VersionKept
  <2>3. \A k \in Nat : ~Brings(writer[w], k)
    BY <1>1, <1>3, <1>6 DEF Brings, Versioned, Deleted, DataOK, Asks, PageNames
  <2>4. NewsStay
    BY <1>2, <1>3, <2>3, OthersBring
  <2> QED
    BY <1>2, <1>3, <1>4, <2>1, <2>2, <2>4, NothingWritten
    DEF PagesInv, PagesTypeOK
<1> QED
  BY <1>5, <1>6

LEMMA DieKeeps ==
    ASSUME PagesInv, NEW w \in Workers, Die(w)
    PROVE  PagesInv'
<1>1. /\ DataOK /\ WritersOK /\ EntriesOK /\ RequestOK
      /\ EntriesAccounted /\ RequestAccounted
  BY DEF PagesInv, PagesTypeOK
<1>2. /\ writer' = [writer EXCEPT ![w] = Idle]
      /\ UNCHANGED <<rows, loans, now, asked, version>>
  BY DEF Die
<1>3. WritersOK' /\ \A o \in Workers \ {w} : writer'[o] = writer[o]
  BY <1>1, <1>2, WriterPut
<1>4. DataOK'
  BY <1>1, <1>2 DEF DataOK
<1>5. CASE /\ writer[w].phase \in {"committed", "read", "set"}
           /\ writer[w].user = asked.user
  <2>1. Marked("died")
    BY <1>5 DEF Die
  <2>2. "died" \in Causes \ {"none"}
    BY DEF Causes
  <2>3. EntriesOK' /\ RequestOK' /\ EntriesAccounted' /\ RequestAccounted'
    BY <1>1, <1>2, <2>1, <2>2, MarkedAll
  <2> QED
    BY <1>3, <1>4, <2>3 DEF PagesInv, PagesTypeOK
<1>6. CASE ~(/\ writer[w].phase \in {"committed", "read", "set"}
             /\ writer[w].user = asked.user)
  <2>1. UNCHANGED <<entries, request>>
    BY <1>6 DEF Die, Unmarked, Marked
  <2>2. ReachStays
    BY <1>1, <1>2, VersionKept
  <2>3. \A k \in Nat : ~Brings(writer[w], k)
    BY <1>6 DEF Brings
  <2>4. NewsStay
    BY <1>2, <1>3, <2>3, OthersBring
  <2> QED
    BY <1>2, <1>3, <1>4, <2>1, <2>2, <2>4, NothingWritten
    DEF PagesInv, PagesTypeOK
<1> QED
  BY <1>5, <1>6

-----------------------------------------------------------------------------
(* The reader's steps, the cache's and the clock's.                          *)
LEMMA AccountsKept ==
    ASSUME UNCHANGED <<rows, loans, now, asked, version, writer>>,
           NEW k, NEW pic
    PROVE  /\ InReach(k)' <=> InReach(k)
           /\ GoneBy(k)' <=> GoneBy(k)
           /\ Same(pic)' <=> Same(pic)
           /\ Coming(k)' <=> Coming(k)
BY DEF InReach, GoneBy, Same, Coming, Brings, Versioned, Version, VersionOf,
       Members

LEMMA EntriesKept ==
    ASSUME EntriesOK, EntriesAccounted,
           UNCHANGED <<rows, loans, now, asked, version, writer, entries>>
    PROVE  EntriesOK' /\ EntriesAccounted'
<1>1. EntriesOK'
  BY DEF EntriesOK
<1>2. ASSUME NEW k \in DOMAIN entries PROVE Accounted(entries[k], k)'
  <2>1. PICK pic : pic = entries[k]
    OBVIOUS
  <2>2. Accounted(pic, k)
    BY <2>1 DEF EntriesAccounted
  <2>3. /\ InReach(k)' <=> InReach(k)
        /\ GoneBy(k)' <=> GoneBy(k)
        /\ Same(pic)' <=> Same(pic)
        /\ Coming(k)' <=> Coming(k)
    BY AccountsKept
  <2>4. entries'[k] = pic
    BY <2>1
  <2> QED
    BY <2>2, <2>3, <2>4 DEF Accounted, Same
<1> QED
  BY <1>1, <1>2 DEF EntriesAccounted

LEMMA AskKeeps == PagesInv /\ Ask => PagesInv'
<1> SUFFICES ASSUME PagesInv, Ask PROVE PagesInv'
  OBVIOUS
<1>1. /\ DataOK /\ WritersOK /\ EntriesOK /\ EntriesAccounted
      /\ UNCHANGED <<rows, loans, now, asked, version, entries, writer>>
  BY DEF PagesInv, PagesTypeOK, Ask
<1>2. Key \in Nat /\ InReach(Key)
  BY <1>1, VersionFacts DEF Key, InReach, Versioned
<1>3. PICK k \in Nat : k = Key
  BY <1>2
<1>4. /\ request' = [phase |-> "asked", key |-> k, missed |-> "none"]
      /\ InReach(k)'
  BY <1>1, <1>2, <1>3 DEF Ask, InReach, Versioned, Version, VersionOf
<1>5. request' \in AskedKey /\ request'.phase = "asked" /\ request'.key = k
  BY <1>4 DEF AskedKey, Causes
<1>6. RequestOK' /\ RequestAccounted'
  BY <1>4, <1>5 DEF RequestOK, RequestAccounted, InReach
<1> QED
  BY <1>1, <1>6, EntriesKept DEF PagesInv, PagesTypeOK, DataOK, WritersOK

LEMMA RequestOver ==
    ASSUME request' = Idle
    PROVE  RequestOK' /\ RequestAccounted'
BY IdleFacts DEF RequestOK, RequestAccounted, Idle

LEMMA HitKeeps == PagesInv /\ Hit => PagesInv'
<1> SUFFICES ASSUME PagesInv, Hit PROVE PagesInv'
  OBVIOUS
<1>1. /\ DataOK /\ WritersOK /\ EntriesOK /\ EntriesAccounted
      /\ UNCHANGED <<rows, loans, now, asked, version, entries, writer>>
      /\ request' = Idle
  BY DEF PagesInv, PagesTypeOK, Hit
<1> QED
  BY <1>1, RequestOver, EntriesKept DEF PagesInv, PagesTypeOK, DataOK, WritersOK

LEMMA ComputeKeeps == PagesInv /\ Compute => PagesInv'
<1> SUFFICES ASSUME PagesInv, Compute PROVE PagesInv'
  OBVIOUS
<1>1. /\ DataOK /\ WritersOK /\ EntriesOK /\ EntriesAccounted
      /\ RequestOK /\ RequestAccounted
      /\ UNCHANGED <<rows, loans, now, asked, version, entries, writer>>
  BY DEF PagesInv, PagesTypeOK, Compute
<1>2. CASE Fails(Now)
  <2>1. request' = Idle
    BY <1>2 DEF Compute
  <2> QED
    BY <1>1, <2>1, RequestOver, EntriesKept
    DEF PagesInv, PagesTypeOK, DataOK, WritersOK
<1>3. CASE ~Fails(Now)
  <2>1. request.phase = "asked" /\ request \in AskedKey
    BY <1>1, RequestType DEF Compute
  <2>2. PICK k \in Nat : k = request.key
    BY <1>1, <2>1, RequestType
  <2>3. PICK cause \in Causes : cause = request.missed
    BY <1>1, <2>1, RequestType
  <2>4. PICK pic : pic = [Now EXCEPT !.missed = cause]
    OBVIOUS
  <2>5. pic \in Picture /\ pic.missed = cause /\ Same(pic)
    BY <1>1, <2>4, NowFacts
  <2>6. request' = [phase |-> "computed", key |-> k, picture |-> pic]
    BY <1>3, <2>2, <2>3, <2>4 DEF Compute
  <2>7. /\ request' \in Computed /\ request'.phase = "computed"
        /\ request'.key = k /\ request'.picture = pic
    BY <2>5, <2>6 DEF Computed
  <2>8. cause # "none" \/ InReach(k)
    BY <1>1, <2>1, <2>2, <2>3 DEF RequestAccounted
  <2>9. /\ InReach(k)' <=> InReach(k)
        /\ Same(pic)' <=> Same(pic)
    BY <1>1, AccountsKept
  <2>10. RequestAccounted'
    BY <2>5, <2>7, <2>8, <2>9
    DEF RequestAccounted, Accounted, InReach, Same
  <2> QED
    BY <1>1, <2>7, <2>10, EntriesKept
    DEF PagesInv, PagesTypeOK, DataOK, WritersOK, RequestOK
<1> QED
  BY <1>2, <1>3

LEMMA StoreKeeps == PagesInv /\ Store => PagesInv'
<1> SUFFICES ASSUME PagesInv, Store PROVE PagesInv'
  OBVIOUS
<1>1. /\ DataOK /\ WritersOK /\ EntriesOK /\ EntriesAccounted
      /\ RequestOK /\ RequestAccounted
      /\ UNCHANGED <<rows, loans, now, asked, version, writer>>
      /\ request.phase = "computed" /\ request' = Idle
  BY DEF PagesInv, PagesTypeOK, Store
<1>2. PICK k \in Nat : k = request.key
  BY <1>1, RequestType
<1>3. PICK pic \in Picture : pic = request.picture
  BY <1>1, RequestType
<1>4. Accounted(pic, k)
  BY <1>1, <1>2, <1>3 DEF RequestAccounted
<1>5. entries' = [j \in DOMAIN entries \cup {k} |->
                    IF j = k THEN pic ELSE entries[j]]
  BY <1>2, <1>3 DEF Store
<1>6. /\ DOMAIN entries' = DOMAIN entries \cup {k}
      /\ entries' = [j \in DOMAIN entries' |-> entries'[j]]
      /\ entries'[k] = pic
      /\ \A j \in DOMAIN entries \ {k} : entries'[j] = entries[j]
  BY <1>5
<1>7. EntriesOK'
  BY <1>1, <1>3, <1>6 DEF EntriesOK
<1>8. ASSUME NEW j \in DOMAIN entries' PROVE Accounted(entries[j], j)'
  <2>1. PICK p : p = entries'[j]
    OBVIOUS
  <2>2. Accounted(p, j)
    BY <1>1, <1>4, <1>6, <2>1 DEF EntriesAccounted
  <2>3. /\ InReach(j)' <=> InReach(j)
        /\ GoneBy(j)' <=> GoneBy(j)
        /\ Same(p)' <=> Same(p)
        /\ Coming(j)' <=> Coming(j)
    BY <1>1, AccountsKept
  <2> QED
    BY <2>1, <2>2, <2>3 DEF Accounted, Same
<1> QED
  BY <1>1, <1>7, <1>8, RequestOver
  DEF PagesInv, PagesTypeOK, DataOK, WritersOK, EntriesAccounted

LEMMA ForgetKeeps ==
    ASSUME PagesInv, NEW key \in DOMAIN entries, Forget(key)
    PROVE  PagesInv'
<1>1. /\ DataOK /\ WritersOK /\ EntriesOK /\ EntriesAccounted
      /\ RequestOK /\ RequestAccounted
      /\ UNCHANGED <<rows, loans, now, asked, version, request, writer>>
      /\ entries' = [j \in DOMAIN entries \ {key} |-> entries[j]]
  BY DEF PagesInv, PagesTypeOK, Forget, Restrict
<1>2. /\ DOMAIN entries' = DOMAIN entries \ {key}
      /\ entries' = [j \in DOMAIN entries' |-> entries'[j]]
      /\ \A j \in DOMAIN entries' : entries'[j] = entries[j]
  BY <1>1
<1>3. EntriesOK'
  BY <1>1, <1>2 DEF EntriesOK
<1>4. ASSUME NEW j \in DOMAIN entries' PROVE Accounted(entries[j], j)'
  <2>1. PICK p : p = entries'[j]
    OBVIOUS
  <2>2. Accounted(p, j)
    BY <1>1, <1>2, <2>1 DEF EntriesAccounted
  <2>3. /\ InReach(j)' <=> InReach(j)
        /\ GoneBy(j)' <=> GoneBy(j)
        /\ Same(p)' <=> Same(p)
        /\ Coming(j)' <=> Coming(j)
    BY <1>1, AccountsKept
  <2> QED
    BY <2>1, <2>2, <2>3 DEF Accounted, Same
<1>5. RequestAccounted'
  <2>1. PICK k, pic : k = request.key /\ pic = request.picture
    OBVIOUS
  <2>2. /\ InReach(k)' <=> InReach(k)
        /\ GoneBy(k)' <=> GoneBy(k)
        /\ Same(pic)' <=> Same(pic)
        /\ Coming(k)' <=> Coming(k)
    BY <1>1, AccountsKept
  <2> QED
    BY <1>1, <2>1, <2>2
    DEF RequestAccounted, Accounted, InReach, GoneBy, Same, Coming, Brings
<1> QED
  BY <1>1, <1>3, <1>4, <1>5
  DEF PagesInv, PagesTypeOK, DataOK, WritersOK, RequestOK, EntriesAccounted

LEMMA ForgetVersionKeeps ==
    ASSUME PagesInv, NEW u \in Users, ForgetVersion(u)
    PROVE  PagesInv'
<1>1. /\ DataOK /\ WritersOK /\ EntriesOK /\ EntriesAccounted
      /\ RequestOK /\ RequestAccounted
      /\ UNCHANGED <<rows, loans, now, asked, writer>>
      /\ version' = [version EXCEPT ![u] = 0]
  BY DEF PagesInv, PagesTypeOK, ForgetVersion
<1>2. DataOK' /\ WritersOK'
  BY <1>1 DEF DataOK, WritersOK
<1>3. CASE u = asked.user
  <2>1. Marked("rewound")
    BY <1>3 DEF ForgetVersion
  <2>2. "rewound" \in Causes \ {"none"}
    BY DEF Causes
  <2>3. EntriesOK' /\ RequestOK' /\ EntriesAccounted' /\ RequestAccounted'
    BY <1>1, <2>1, <2>2, MarkedAll
  <2> QED
    BY <1>2, <2>3 DEF PagesInv, PagesTypeOK
<1>4. CASE u # asked.user
  <2>1. UNCHANGED <<entries, request>>
    BY <1>4 DEF ForgetVersion, Unmarked, Marked
  <2>2. version'[asked.user] = version[asked.user]
    BY <1>1, <1>4, VersionFacts DEF DataOK
  <2>3. ReachStays
    BY <1>1, <2>2, VersionKept
  <2>4. NewsStay
    BY <1>1 DEF NewsStay, Coming, Brings, Versioned
  <2> QED
    BY <1>1, <1>2, <2>1, <2>3, <2>4, NothingWritten DEF PagesInv, PagesTypeOK
<1> QED
  BY <1>3, <1>4

LEMMA TurnKeeps == PagesInv /\ Turn => PagesInv'
<1> SUFFICES ASSUME PagesInv, Turn PROVE PagesInv'
  OBVIOUS
<1>1. /\ DataOK /\ WritersOK /\ EntriesOK /\ EntriesAccounted
      /\ RequestOK /\ RequestAccounted
      /\ UNCHANGED <<rows, loans, asked, version, writer>>
      /\ now' \in Moment /\ Marked("turned")
  BY DEF PagesInv, PagesTypeOK, Turn
<1>2. DataOK' /\ WritersOK'
  BY <1>1 DEF DataOK, WritersOK
<1>3. "turned" \in Causes \ {"none"}
  BY DEF Causes
<1>4. EntriesOK' /\ RequestOK' /\ EntriesAccounted' /\ RequestAccounted'
  BY <1>1, <1>3, MarkedAll
<1> QED
  BY <1>2, <1>4 DEF PagesInv, PagesTypeOK

-----------------------------------------------------------------------------
(* The invariant, and what it says of the page that is served.               *)
LEMMA PagesAtFirst == Init => PagesInv
<1> SUFFICES ASSUME Init PROVE PagesInv
  OBVIOUS
<1>1. DataOK
  BY DEF Init, Shown, Quiet, DataOK
<1>2. DOMAIN entries = {} /\ entries = <<>>
  BY DEF Init, Quiet
<1>3. EntriesOK /\ EntriesAccounted
  BY <1>2 DEF EntriesOK, EntriesAccounted
<1>4. RequestOK /\ RequestAccounted
  BY DEF Init, Quiet, RequestOK, RequestAccounted, Idle
<1>5. WritersOK
  BY DEF Init, Quiet, WritersOK
<1> QED
  BY <1>1, <1>3, <1>4, <1>5 DEF PagesInv, PagesTypeOK

LEMMA PagesStep == PagesInv /\ [Next]_vars => PagesInv'
<1> SUFFICES ASSUME PagesInv, [Next]_vars PROVE PagesInv'
  OBVIOUS
<1>1. CASE Ask \/ Hit \/ Compute \/ Store \/ Turn
  BY <1>1, AskKeeps, HitKeeps, ComputeKeeps, StoreKeeps, TurnKeeps
<1>2. CASE \E w \in Workers, r \in Changes : Write(w, r)
  BY <1>2, WriteKeeps
<1>3. CASE \E w \in Workers, u \in Users : Refresh(w, u)
  BY <1>3, RefreshKeeps
<1>4. CASE \E w \in Workers, l \in NewLoans : TakeLoan(w, l)
  BY <1>4, TakeLoanKeeps
<1>5. CASE \E w \in Workers, l \in loans : DeleteLoan(w, l)
  BY <1>5, DeleteLoanKeeps
<1>6. CASE \E w \in Workers : StoreSchedule(w) \/ DeleteAccount(w)
  BY <1>6, StoreScheduleKeeps, DeleteAccountKeeps
<1>7. CASE \E w \in Workers :
            ReadVersion(w) \/ SetVersion(w) \/ DropPages(w) \/ Die(w)
  BY <1>7, ReadVersionKeeps, SetVersionKeeps, DropPagesKeeps, DieKeeps
<1>8. CASE \E k \in DOMAIN entries : Forget(k)
  BY <1>8, ForgetKeeps
<1>9. CASE \E u \in Users : ForgetVersion(u)
  BY <1>9, ForgetVersionKeeps
<1>10. CASE UNCHANGED vars
  <2>1. UNCHANGED <<rows, loans, now, asked, version, entries, request, writer>>
    BY <1>10 DEF vars
  <2>2. /\ DataOK /\ WritersOK /\ EntriesOK /\ RequestOK /\ ReachStays
    BY <2>1, VersionKept DEF PagesInv, PagesTypeOK
  <2>3. NewsStay
    BY <2>1 DEF NewsStay, Coming, Brings, Versioned
  <2> QED
    BY <2>1, <2>2, <2>3, NothingWritten
    DEF PagesInv, PagesTypeOK, DataOK, WritersOK
<1> QED
  BY <1>1, <1>2, <1>3, <1>4, <1>5, <1>6, <1>7, <1>8, <1>9, <1>10 DEF Next

(* The inductive invariant of the cache.                                     *)
THEOREM PagesInvariant == Spec => []PagesInv
BY PagesAtFirst, PagesStep, PTL DEF Spec

(* A page is a function of the members' rows and loans and of the moment.    *)
LEMMA SameAnswers ==
    ASSUME NEW pic, Same(pic)
    PROVE  Answer(pic) = Answer(Now)
<1>1. /\ OfUsers(pic.rows, Members) = OfUsers(Now.rows, Members)
      /\ LoansOf(pic.loans, Members) = LoansOf(Now.loans, Members)
      /\ pic.at = Now.at
  BY DEF Same, Now
<1>2. Fails(pic) <=> Fails(Now)
  BY <1>1 DEF Fails
<1> QED
  BY <1>1, <1>2, Zenon DEF Answer

LEMMA AccountedIsFresh == PagesInv => StalePageHasCause
<1> SUFFICES ASSUME PagesInv, Key \in DOMAIN entries,
                    entries[Key].missed = "none", ~UnderWay
    PROVE Answer(entries[Key]) = Answer(Now)
  BY DEF StalePageHasCause
<1>1. Accounted(entries[Key], Key) /\ DataOK
  BY DEF PagesInv, PagesTypeOK, EntriesAccounted
<1>2. ~GoneBy(Key)
  BY <1>1, VersionFacts DEF GoneBy, Key, Versioned
<1>3. ~Coming(Key)
  BY DEF UnderWay, Coming, Brings
<1>4. Same(entries[Key])
  BY <1>1, <1>2, <1>3 DEF Accounted
<1> QED
  BY <1>4, SameAnswers

(* A page served from the cache shows the rows as they are but for the named *)
(* causes, whatever the writers, invalidations, refreshes, expiring keys and *)
(* readers that cross, however many (invalidate_user_detailed_statistics_    *)
(* cache and the keys of get_user_detailed_statistics_cache_key).            *)
THEOREM StalePagesHaveCauses == Spec => []StalePageHasCause
BY PagesInvariant, AccountedIsFresh, PTL

-----------------------------------------------------------------------------
(* Totals of rows.                                                           *)
Amounts == [r \in Row |-> r.amount]

FiniteRows(S) == S \subseteq Row /\ IsFiniteSet(S)

LEMMA PartsOfRows ==
    ASSUME NEW S, FiniteRows(S), NEW T, T \subseteq S PROVE FiniteRows(T)
BY FS_Subset DEF FiniteRows

LEMMA TotalIsSum ==
    ASSUME NEW S, FiniteRows(S)
    PROVE  Total(S) = SumFunctionOnSet(Amounts, S) /\ Total(S) \in Nat
<1> DEFINE f == [r \in S |-> r.amount]
<1>1. \A r \in S : f[r] = Amounts[r] /\ Amounts[r] \in Nat
  BY DEF FiniteRows, Amounts, Row
<1>2. Total(S) = SumFunctionOnSet(f, S)
  BY DEF Total, SumFunction
<1> HIDE DEF f
<1>3. SumFunctionOnSet(f, S) = SumFunctionOnSet(Amounts, S)
  BY <1>1, SumOfEquals DEF FiniteRows
<1>4. SumFunctionOnSet(Amounts, S) \in Nat
  BY <1>1, SumIsNat DEF FiniteRows
<1> QED
  BY <1>2, <1>3, <1>4

LEMMA TotalOfNone == FiniteRows({}) /\ Total({}) = 0
<1>1. FiniteRows({})
  BY FS_EmptySet DEF FiniteRows
<1> QED
  BY <1>1, TotalIsSum, SumOfNone

LEMMA TotalOfTwo ==
    ASSUME NEW S, FiniteRows(S), NEW T, FiniteRows(T), S \cap T = {}
    PROVE  FiniteRows(S \cup T) /\ Total(S \cup T) = Total(S) + Total(T)
<1>1. FiniteRows(S \cup T)
  BY FS_Union DEF FiniteRows
<1>2. \A r \in S \cup T : Amounts[r] \in Int
  BY DEF FiniteRows, Amounts, Row
<1>3. SumFunctionOnSet(Amounts, S \cup T) =
        SumFunctionOnSet(Amounts, S) + SumFunctionOnSet(Amounts, T)
  BY <1>2, SumOfTwo DEF FiniteRows
<1> QED
  BY <1>1, <1>3, TotalIsSum

(* Rows in parts: the totals of the parts add up.                            *)
LEMMA TotalOfParts ==
    ASSUME NEW X, IsFiniteSet(X), NEW P, \A x \in X : FiniteRows(P[x]),
           Disjoint(P, X), NEW g, \A x \in X : g[x] = Total(P[x])
    PROVE  /\ FiniteRows(AllOf(P, X))
           /\ SumFunctionOnSet(g, X) = Total(AllOf(P, X))
<1>1. InParts(Amounts, g, P, X)
  <2>1. \A x \in X : IsFiniteSet(P[x]) /\ g[x] = SumFunctionOnSet(Amounts, P[x])
    BY TotalIsSum DEF FiniteRows
  <2>2. \A x \in X : \A r \in P[x] : Amounts[r] \in Int
    BY DEF FiniteRows, Amounts, Row
  <2> QED
    BY <2>1, <2>2 DEF InParts
<1>2. FiniteRows(AllOf(P, X))
  <2>1. AllOf(P, X) \subseteq Row
    BY DEF AllOf, FiniteRows
  <2> QED
    BY <1>1, <2>1, SumOfParts DEF FiniteRows
<1>3. SumFunctionOnSet(g, X) = SumFunctionOnSet(Amounts, AllOf(P, X))
  BY <1>1, SumOfParts
<1> QED
  BY <1>2, <1>3, TotalIsSum

(* Parts of a set of rows that are all of it.                                *)
ArePartsOf(P, X, S, g) ==
    /\ Disjoint(P, X)
    /\ \A x \in X : P[x] \subseteq S /\ g[x] = Total(P[x])
    /\ \A r \in S : \E x \in X : r \in P[x]

LEMMA TotalInParts ==
    ASSUME NEW S, FiniteRows(S), NEW X, IsFiniteSet(X), NEW P, NEW g,
           ArePartsOf(P, X, S, g)
    PROVE  SumFunctionOnSet(g, X) = Total(S)
<1> USE DEF ArePartsOf
<1>1. \A x \in X : FiniteRows(P[x])
  BY PartsOfRows
<1>2. AllOf(P, X) = S
  BY DEF AllOf
<1> QED
  BY <1>1, <1>2, TotalOfParts

-----------------------------------------------------------------------------
(* The months that the pages show are in the calendar.                       *)
MonthsOfPage(at) ==
    /\ Today(at) \in Int /\ ThisMonth(at) \in 2 .. Len(MonthLengths)
    /\ \A m \in 1 .. Len(MonthLengths) :
            /\ MonthStart(m) \in Nat \ {0} /\ MonthEnd(m) \in Nat
            /\ MonthStart(m) <= MonthEnd(m)
    /\ \A j, m \in 1 .. Len(MonthLengths) : j < m => MonthEnd(j) < MonthStart(m)
    /\ \A m \in 2 .. Len(MonthLengths) : MonthStart(m) = MonthEnd(m - 1) + 1
    /\ MonthStart(ThisMonth(at)) <= Today(at) /\ Today(at) <= MonthEnd(ThisMonth(at))
    /\ ThisMonth(at) - StatMonths + 1 \in 1 .. ThisMonth(at) - 1
    /\ StatStart(at) = MonthStart(ThisMonth(at) - StatMonths + 1)

LEMMA MonthsInCalendar ==
    /\ DaysInAll \in Nat /\ Rising(MonthLengths, Len(MonthLengths))
    /\ \A m \in 1 .. Len(MonthLengths) :
            /\ MonthStart(m) = FirstSum(MonthLengths, m - 1) + 1
            /\ MonthEnd(m) = FirstSum(MonthLengths, m)
            /\ MonthLengths[m] \in Nat \ {0}
    /\ DaysInAll = FirstSum(MonthLengths, Len(MonthLengths))
<1>1. PICK n \in Nat : n = Len(MonthLengths)
  BY CalendarAssumption, LenProperties
<1>2. DOMAIN MonthLengths = 1 .. n /\ \A m \in 1 .. n : MonthLengths[m] \in Nat \ {0}
  BY <1>1, CalendarAssumption
<1>3. Rising(MonthLengths, n)
  BY <1>2, FirstSums
<1>4. DaysInAll = FirstSum(MonthLengths, n)
  BY <1>2 DEF DaysInAll, SumFunction, FirstSum
<1>5. \A m : MonthStart(m) = 1 + FirstSum(MonthLengths, m - 1)
  BY DEF MonthStart, FirstSum
<1>6. /\ \A m \in 0 .. n : FirstSum(MonthLengths, m) \in Nat
      /\ \A m \in 1 .. n : FirstSum(MonthLengths, m) =
                            FirstSum(MonthLengths, m - 1) + MonthLengths[m]
  BY <1>3 DEF Rising
<1>7. ASSUME NEW m \in 1 .. n
      PROVE  /\ MonthStart(m) = FirstSum(MonthLengths, m - 1) + 1
             /\ MonthEnd(m) = FirstSum(MonthLengths, m)
  <2>1. m - 1 \in 0 .. n
    OBVIOUS
  <2>2. PICK before \in Nat : before = FirstSum(MonthLengths, m - 1)
    BY <1>6, <2>1
  <2>3. PICK length \in Nat : length = MonthLengths[m]
    BY <1>2
  <2>4. FirstSum(MonthLengths, m) = before + length
    BY <1>6, <2>2, <2>3
  <2>5. MonthStart(m) = 1 + before
    BY <1>5, <2>2
  <2>6. MonthEnd(m) = (1 + before) + length - 1
    BY Zenon, <2>3, <2>5 DEF MonthEnd
  <2> QED
    BY <2>2, <2>4, <2>5, <2>6
<1>8. n \in 0 .. n
  OBVIOUS
<1>9. DaysInAll \in Nat
  BY <1>4, <1>6, <1>8
<1> QED
  BY <1>1, <1>2, <1>3, <1>4, <1>7, <1>9

LEMMA DaysOfMonths ==
    ASSUME NEW day \in Day
    PROVE  /\ MonthOf(day) \in 1 .. Len(MonthLengths)
           /\ MonthStart(MonthOf(day)) <= day /\ day <= MonthEnd(MonthOf(day))
<1>1. PICK n \in Nat : n = Len(MonthLengths)
  BY CalendarAssumption, LenProperties
<1>2. PICK last \in Nat : last = DaysInAll
  BY MonthsInCalendar
<1>3. day \in 1 .. last /\ FirstSum(MonthLengths, n) = last
  BY <1>1, <1>2, MonthsInCalendar DEF Day
<1>4. PICK m \in 1 .. n :
        FirstSum(MonthLengths, m - 1) < day /\ day <= FirstSum(MonthLengths, m)
  BY <1>1, <1>3, MonthsInCalendar DEF Rising
<1>5. ASSUME NEW k \in 1 .. n
      PROVE  /\ MonthStart(k) = FirstSum(MonthLengths, k - 1) + 1
             /\ MonthEnd(k) = FirstSum(MonthLengths, k)
             /\ FirstSum(MonthLengths, k - 1) \in Nat
             /\ FirstSum(MonthLengths, k) \in Nat
  <2>1. k - 1 \in 0 .. n /\ k \in 0 .. n
    OBVIOUS
  <2> QED
    BY <1>1, <2>1, MonthsInCalendar DEF Rising
<1>6. m \in DOMAIN MonthLengths /\ day \in MonthStart(m) .. MonthEnd(m)
  BY <1>1, <1>3, <1>4, <1>5, CalendarAssumption
<1>7. /\ MonthOf(day) \in DOMAIN MonthLengths
      /\ day \in MonthStart(MonthOf(day)) .. MonthEnd(MonthOf(day))
  BY <1>6 DEF MonthOf
<1>8. PICK k \in 1 .. n : k = MonthOf(day)
  BY <1>1, <1>7, CalendarAssumption
<1> QED
  BY <1>1, <1>3, <1>5, <1>7, <1>8

(* The months follow each other.                                             *)
MonthsInARow ==
    /\ \A m \in 1 .. Len(MonthLengths) :
            /\ MonthStart(m) \in Nat \ {0} /\ MonthEnd(m) \in Nat
            /\ MonthStart(m) <= MonthEnd(m)
    /\ \A j, m \in 1 .. Len(MonthLengths) : j < m => MonthEnd(j) < MonthStart(m)
    /\ \A m \in 2 .. Len(MonthLengths) : MonthStart(m) = MonthEnd(m - 1) + 1

LEMMA MonthsInOrder == MonthsInARow
<1>1. PICK n \in Nat : n = Len(MonthLengths)
  BY CalendarAssumption, LenProperties
<1>2. /\ \A j \in 0 .. n : FirstSum(MonthLengths, j) \in Nat
      /\ \A i, j \in 0 .. n :
            i < j => FirstSum(MonthLengths, i) < FirstSum(MonthLengths, j)
      /\ \A j \in 1 .. n : /\ MonthStart(j) = FirstSum(MonthLengths, j - 1) + 1
                           /\ MonthEnd(j) = FirstSum(MonthLengths, j)
  BY <1>1, MonthsInCalendar DEF Rising
<1>3. ASSUME NEW j \in 1 .. n
      PROVE  /\ MonthStart(j) \in Nat \ {0} /\ MonthEnd(j) \in Nat
             /\ MonthStart(j) <= MonthEnd(j)
  <2>1. j - 1 \in 0 .. n /\ j \in 0 .. n /\ j - 1 < j
    OBVIOUS
  <2>2. /\ FirstSum(MonthLengths, j - 1) \in Nat /\ FirstSum(MonthLengths, j) \in Nat
        /\ FirstSum(MonthLengths, j - 1) < FirstSum(MonthLengths, j)
    BY <1>2, <2>1
  <2> QED
    BY <1>2, <2>2
<1>4. ASSUME NEW j \in 1 .. n, NEW k \in 1 .. n, j < k
       PROVE  MonthEnd(j) < MonthStart(k)
  <2>1. j \in 0 .. n /\ k - 1 \in 0 .. n /\ (j = k - 1 \/ j < k - 1)
    BY <1>4
  <2>2. FirstSum(MonthLengths, j) \in Nat /\ FirstSum(MonthLengths, k - 1) \in Nat
    BY <1>2, <2>1
  <2>3. FirstSum(MonthLengths, j) <= FirstSum(MonthLengths, k - 1)
    BY <1>2, <2>1, <2>2
  <2> QED
    BY <1>2, <2>2, <2>3
<1>5. ASSUME NEW j \in 2 .. n PROVE MonthStart(j) = MonthEnd(j - 1) + 1
  <2>1. j - 1 \in 1 .. n /\ j \in 1 .. n
    OBVIOUS
  <2> QED
    BY <1>2, <2>1
<1> QED
  BY <1>1, <1>3, <1>4, <1>5 DEF MonthsInARow

LEMMA PageInCalendar ==
    ASSUME NEW at \in Shown PROVE MonthsOfPage(at)
<1>1. PICK n \in Nat : n = Len(MonthLengths)
  BY CalendarAssumption, LenProperties
<1>2. PICK day : day = Today(at)
  OBVIOUS
<1>3. PICK m : m = ThisMonth(at)
  OBVIOUS
<1>4. day \in Day /\ m = MonthOf(day) /\ m >= StatMonths
  BY <1>2, <1>3 DEF Shown, ThisMonth
<1>5. /\ m \in 1 .. n /\ MonthStart(m) <= day /\ day <= MonthEnd(m)
      /\ day \in Int
  BY <1>1, <1>4, DaysOfMonths, MonthsInCalendar DEF Day
<1>6. StatMonths \in Nat /\ StatMonths >= 2
  BY FiguresAssumption
<1>7. m \in 2 .. n /\ m - StatMonths + 1 \in 1 .. m - 1
  BY <1>4, <1>5, <1>6
<1>8. StatStart(at) = MonthStart(m - StatMonths + 1)
  BY <1>3 DEF StatStart
<1> QED
  BY <1>1, <1>2, <1>3, <1>5, <1>7, <1>8, MonthsInOrder DEF MonthsInARow, MonthsOfPage

-----------------------------------------------------------------------------
(* What the figures are compared in: any finite set of rows of the members,  *)
(* at a moment whose months are in the calendar.                             *)
DataShown ==
    /\ IsFiniteSet(rows) /\ events \in Nat
    /\ events = 0 => now \in Shown

LEMMA ShownAtFirst == Init => DataShown
BY DEF Init, Quiet, DataShown

LEMMA ShownStep == DataShown /\ [Next]_vars => DataShown'
<1> SUFFICES ASSUME DataShown, [Next]_vars PROVE DataShown'
  OBVIOUS
<1>1. ASSUME UNCHANGED <<rows, now, events>> PROVE DataShown'
  BY <1>1 DEF DataShown
<1>2. ASSUME rows' = rows, Happens PROVE DataShown'
  BY <1>2 DEF DataShown, Happens
<1>3. CASE Ask \/ Hit \/ Compute \/ Store
  BY <1>1, <1>3 DEF Ask, Hit, Compute, Store
<1>4. CASE Turn
  BY <1>2, <1>4 DEF Turn
<1>5. CASE \E w \in Workers, r \in Changes : Write(w, r)
  <2>1. PICK w \in Workers, r \in Changes : Write(w, r)
    BY <1>5
  <2>2. IsFiniteSet(rows \ {r}) /\ IsFiniteSet(rows \cup {r})
    BY FS_RemoveElement, FS_AddElement DEF DataShown
  <2>3. IsFiniteSet(rows') /\ Happens
    BY <2>1, <2>2 DEF Write
  <2> QED
    BY <2>3 DEF DataShown, Happens
<1>6. CASE \E w \in Workers : \/ \E u \in Users : Refresh(w, u)
                              \/ \E l \in NewLoans : TakeLoan(w, l)
                              \/ \E l \in loans : DeleteLoan(w, l)
  BY <1>2, <1>6 DEF Refresh, TakeLoan, DeleteLoan
<1>7. CASE \E w \in Workers :
            StoreSchedule(w) \/ DeleteAccount(w) \/ ReadVersion(w)
  BY <1>1, <1>2, <1>7 DEF StoreSchedule, DeleteAccount, ReadVersion
<1>8. CASE \E w \in Workers : SetVersion(w) \/ DropPages(w) \/ Die(w)
  BY <1>1, <1>2, <1>8 DEF SetVersion, DropPages, Die
<1>9. CASE \E k \in DOMAIN entries : Forget(k)
  BY <1>1, <1>9 DEF Forget
<1>10. CASE \E u \in Users : ForgetVersion(u)
  BY <1>2, <1>10 DEF ForgetVersion
<1>11. CASE UNCHANGED vars
  BY <1>1, <1>11 DEF vars
<1> QED
  BY <1>3, <1>4, <1>5, <1>6, <1>7, <1>8, <1>9, <1>10, <1>11 DEF Next

LEMMA DataAlwaysShown == Spec => []DataShown
BY ShownAtFirst, ShownStep, PTL DEF Spec

-----------------------------------------------------------------------------
(* The figures of a month.                                                   *)
LEMMA KindsOfRows ==
    ASSUME NEW S, FiniteRows(S), NEW kinds PROVE FiniteRows(OfKind(S, kinds))
<1>1. OfKind(S, kinds) \subseteq S
  BY DEF OfKind
<1> QED
  BY <1>1, PartsOfRows

LEMMA DaysOfRows ==
    ASSUME NEW S, FiniteRows(S), NEW first, NEW last
    PROVE  FiniteRows(Between(S, first, last))
<1>1. Between(S, first, last) \subseteq S
  BY DEF Between
<1> QED
  BY <1>1, PartsOfRows

LEMMA FigureOfRows ==
    ASSUME NEW S, FiniteRows(S)
    PROVE  /\ Figure(S).income = SumOf({"income"}, S)
           /\ Figure(S).expenses = SumOf({"expense"}, S)
           /\ \A kinds : SumOf(kinds, S) \in Nat
BY KindsOfRows, TotalIsSum DEF Figure, SumOf

LEMMA NothingEarned ==
    ASSUME NEW S, FiniteRows(S), OfKind(S, {"interest"}) = {}
    PROVE  WithInterest(Figure(S), S) = Figure(S)
<1>1. PICK earned \in Nat : earned = SumOf({"income"}, S)
  BY FigureOfRows
<1>2. PICK spent : spent = SumOf({"expense"}, S)
  OBVIOUS
<1>3. SumOf({"interest"}, S) = 0
  BY TotalOfNone DEF SumOf
<1>4. Figure(S) = [income |-> earned, expenses |-> spent]
  BY <1>1, <1>2 DEF Figure
<1>5. WithInterest(Figure(S), S) = [income |-> earned + 0, expenses |-> spent]
  BY <1>3, <1>4 DEF WithInterest
<1>6. earned + 0 = earned
  OBVIOUS
<1> QED
  BY <1>4, <1>5, <1>6

(* The categories' totals add up to that of their kind.                      *)
LEMMA CategoriesAddUp ==
    ASSUME NEW S, FiniteRows(S), NEW kind
    PROVE  SumFunction(FactMap(kind, S)) = SumOf({kind}, S)
<1> DEFINE all == OfKind(S, {kind})
           P == [c \in Categories |-> {r \in all : r.category = c}]
           g == FactMap(kind, S)
<1>1. FiniteRows(all) /\ IsFiniteSet(Categories)
  BY KindsOfRows, OperationsAssumption
<1>2. \A c \in Categories : P[c] \subseteq all /\ g[c] = Total(P[c])
  BY DEF FactMap, CategoryTotal
<1>3. Disjoint(P, Categories)
  BY DEF Disjoint
<1>4. \A r \in all : \E c \in Categories : r \in P[c]
  BY <1>1 DEF FiniteRows, Row
<1>5. SumFunction(g) = SumFunctionOnSet(g, Categories)
  BY DEF SumFunction, FactMap
<1> HIDE DEF all, P, g
<1>6. SumFunctionOnSet(g, Categories) = Total(all)
  <2>1. ArePartsOf(P, Categories, all, g)
    BY <1>2, <1>3, <1>4 DEF ArePartsOf
  <2> QED
    BY <1>1, <2>1, TotalInParts
<1> QED
  BY <1>5, <1>6 DEF SumOf, all, g

LEMMA KpisAreCharts ==
    ASSUME NEW S, FiniteRows(S) PROVE MonthKpis(S, now) = BudgetCharts(S, now)
<1>1. PICK month : month = LocalMonth(S, now)
  OBVIOUS
<1>2. FiniteRows(month)
  BY <1>1, DaysOfRows DEF LocalMonth, InMonth
<1>3. /\ SumFunction(FactMap("income", month)) = SumOf({"income"}, month)
      /\ SumFunction(FactMap("expense", month)) = SumOf({"expense"}, month)
  BY <1>2, CategoriesAddUp
<1>4. {CategoryTotal(c, OfKind(month, {"expense"})) : c \in Categories} =
        {FactMap("expense", month)[c] : c \in Categories}
  BY DEF FactMap
<1> QED
  BY <1>1, <1>3, <1>4, Zenon DEF MonthKpis, BudgetCharts, Figure

LEMMA RowsBetween ==
    ASSUME NEW S, FiniteRows(S), NEW first \in Int, NEW last \in Int
    PROVE  \A r : r \in Between(S, first, last) <=>
                    /\ r \in S /\ r.at \in Int
                    /\ 2 * first <= r.at /\ r.at <= 2 * last + 1
<1>1. \A r \in S : r.at \in Int
  <2>1. \A r \in S : r.at \in Moment
    BY DEF FiniteRows, Row
  <2> QED
    BY <2>1 DEF Moment
<1> QED
  BY <1>1 DEF Between, StartOfDay, EndOfDay

(* The days of the page: those of this month so far, of the last month, and  *)
(* of the period.                                                            *)
PageDays(S, m, current) ==
    /\ current \subseteq InMonth(S, m)
    /\ Later(InMonth(S, m)) = {} => InMonth(S, m) = current
    /\ Later(S) = {} => Between(S, MonthStart(m), Max(Day)) = current
    /\ InMonth(InPeriod(S, now), m) = current
    /\ InMonth(InPeriod(S, now), m - 1) = InMonth(S, m - 1)
    /\ Later(S) = {} => Between(S, Min(Day), Min({MonthEnd(m), Today(now)})) = S

LEMMA DaysOfPage ==
    ASSUME now \in Shown, NEW S, FiniteRows(S), NEW m, m = ThisMonth(now),
           NEW current, current = Between(S, MonthStart(m), Today(now))
    PROVE  PageDays(S, m, current)
<1>1. PICK n \in Nat : n = Len(MonthLengths)
  BY CalendarAssumption, LenProperties
<1>2. PICK day \in Int : day = Today(now)
  BY PageInCalendar DEF MonthsOfPage
<1>3. m \in 2 .. n /\ m \in 1 .. n /\ m - 1 \in 1 .. n
  BY <1>1, PageInCalendar DEF MonthsOfPage
<1>4. PICK start \in Nat : start = MonthStart(m)
  BY <1>1, <1>3, PageInCalendar DEF MonthsOfPage
<1>5. PICK end \in Nat : end = MonthEnd(m)
  BY <1>1, <1>3, PageInCalendar DEF MonthsOfPage
<1>6. PICK lastStart \in Nat : lastStart = MonthStart(m - 1)
  BY <1>1, <1>3, PageInCalendar DEF MonthsOfPage
<1>7. PICK lastEnd \in Nat : lastEnd = MonthEnd(m - 1)
  BY <1>1, <1>3, PageInCalendar DEF MonthsOfPage
<1>8. PICK first \in 1 .. m - 1 : first = m - StatMonths + 1
  BY PageInCalendar DEF MonthsOfPage
<1>9. first \in 1 .. n /\ (first = m - 1 \/ first < m - 1)
  BY <1>3
<1>10. PICK from \in Nat : from = StatStart(now)
  BY <1>1, <1>8, <1>9, PageInCalendar DEF MonthsOfPage
<1>11. /\ start <= day /\ day <= end /\ lastEnd < start /\ lastStart <= lastEnd
       /\ from <= lastStart
  <2>1. start <= day /\ day <= end
    BY <1>2, <1>4, <1>5, PageInCalendar DEF MonthsOfPage
  <2>2. lastEnd < start
    BY <1>1, <1>3, <1>4, <1>7, PageInCalendar DEF MonthsOfPage
  <2>3. lastStart <= lastEnd
    BY <1>1, <1>3, <1>6, <1>7, PageInCalendar DEF MonthsOfPage
  <2>4. from = MonthStart(first)
    BY <1>8, <1>10, PageInCalendar DEF MonthsOfPage
  <2>5. from <= lastStart
    <3>1. CASE first = m - 1
      BY <1>6, <2>4, <3>1
    <3>2. CASE first < m - 1
      <4>1. MonthStart(first) <= MonthEnd(first) /\ MonthEnd(first) < lastStart
            /\ MonthEnd(first) \in Nat
        <5>1. PICK k \in 1 .. n : k = m - 1
          BY <1>3
        <5> QED
          BY <1>1, <1>6, <1>9, <3>2, <5>1, PageInCalendar DEF MonthsOfPage
      <4> QED
        BY <1>10, <2>4, <4>1
    <3> QED
      BY <1>9, <3>1, <3>2
  <2> QED
    BY <2>1, <2>2, <2>3, <2>5
<1>12. PICK least \in Int : least = Min(Day) /\ \A d \in Day : least <= d
  <2>1. DaysInAll \in Int /\ 1 \in Int /\ Day \subseteq 1 .. DaysInAll /\ Day \in SUBSET Int
    BY MonthsInCalendar DEF Day
  <2>2. IsFiniteSet(Day)
    BY Zenon, <2>1, PartsAreFinite
  <2>3. Day # {}
    BY DEF Shown
  <2> QED
    BY <2>1, <2>2, <2>3, LeastAndGreatest
<1>13. PICK greatest \in Int : greatest = Max(Day) /\ \A d \in Day : d <= greatest
  <2>1. DaysInAll \in Int /\ 1 \in Int /\ Day \subseteq 1 .. DaysInAll /\ Day \in SUBSET Int
    BY MonthsInCalendar DEF Day
  <2>2. IsFiniteSet(Day)
    BY Zenon, <2>1, PartsAreFinite
  <2>3. Day # {}
    BY DEF Shown
  <2> QED
    BY <2>1, <2>2, <2>3, LeastAndGreatest
<1>14. day \in Day
  BY <1>2 DEF Shown
<1>15. day <= greatest
  BY <1>13, <1>14
<1>16. \A r \in S : r.at \in Int /\ 2 * least <= r.at
  <2>1. \A r \in S : r.at \in Moment
    BY DEF FiniteRows, Row
  <2> QED
    BY <1>12, <1>13, <2>1 DEF Moment, StartOfDay, EndOfDay
<1>17. Min({end, day}) = day
  <2>1. {end, day} \in SUBSET Int /\ {end, day} # {}
    OBVIOUS
  <2>2. day \in Int /\ end \in Int /\ {end, day} \subseteq day .. end
    BY <1>11
  <2>3. IsFiniteSet({end, day})
    BY Zenon, <2>2, PartsAreFinite
  <2>4. Min({end, day}) \in {end, day} /\ \A x \in {end, day} : Min({end, day}) <= x
    BY <2>1, <2>3, LeastAndGreatest
  <2> QED
    BY <1>11, <2>4
<1>18. \A X : Later(X) = {r \in X : r.at > 2 * day + 1}
  BY <1>2 DEF Later, EndOfDay
<1>19. \A r : r \in current <=> r \in S /\ r.at \in Int /\ 2 * start <= r.at /\ r.at <= 2 * day + 1
  BY <1>2, <1>4, RowsBetween
<1>20. \A r : r \in InMonth(S, m) <=>
                r \in S /\ r.at \in Int /\ 2 * start <= r.at /\ r.at <= 2 * end + 1
  BY <1>4, <1>5, RowsBetween DEF InMonth
<1>21. \A r : r \in InPeriod(S, now) <=>
                r \in S /\ r.at \in Int /\ 2 * from <= r.at /\ r.at <= 2 * day + 1
  BY <1>2, <1>10, RowsBetween DEF InPeriod
<1>22. FiniteRows(InPeriod(S, now))
  BY DaysOfRows DEF InPeriod
<1>23. \A r : r \in InMonth(S, m - 1) <=>
                r \in S /\ r.at \in Int /\ 2 * lastStart <= r.at /\ r.at <= 2 * lastEnd + 1
  BY <1>6, <1>7, RowsBetween DEF InMonth
<1>24. current \subseteq InMonth(S, m)
  BY <1>11, <1>19, <1>20
<1>25. Later(InMonth(S, m)) = {} => InMonth(S, m) = current
  <2> SUFFICES ASSUME Later(InMonth(S, m)) = {} PROVE InMonth(S, m) \subseteq current
    BY <1>24
  <2>1. Later(InMonth(S, m)) = {r \in InMonth(S, m) : r.at > 2 * day + 1}
    BY <1>18
  <2>2. \A r \in InMonth(S, m) : ~(r.at > 2 * day + 1)
    BY <2>1
  <2> QED
    BY <1>19, <1>20, <2>2
<1>26. Later(S) = {} => Between(S, MonthStart(m), Max(Day)) = current
  <2>1. \A r : r \in Between(S, MonthStart(m), Max(Day)) <=>
            r \in S /\ r.at \in Int /\ 2 * start <= r.at /\ r.at <= 2 * greatest + 1
    BY <1>4, <1>13, RowsBetween
  <2>2. Later(S) = {r \in S : r.at > 2 * day + 1}
    BY <1>18
  <2>3. Later(S) = {} => \A r : r \in Between(S, MonthStart(m), Max(Day)) <=> r \in current
    <3> SUFFICES ASSUME Later(S) = {}, NEW r
                 PROVE  r \in Between(S, MonthStart(m), Max(Day)) <=> r \in current
      OBVIOUS
    <3>1. r \in S => ~(r.at > 2 * day + 1)
      BY <2>2
    <3> QED
      BY <1>15, <1>19, <2>1, <3>1
  <2> QED
    BY <2>3
<1>27. InMonth(InPeriod(S, now), m) = current
  <2>1. \A r : r \in InMonth(InPeriod(S, now), m) <=>
            r \in InPeriod(S, now) /\ 2 * start <= r.at /\ r.at <= 2 * end + 1
    BY <1>4, <1>5, <1>21, <1>22, RowsBetween DEF InMonth
  <2>2. ASSUME NEW r PROVE r \in InMonth(InPeriod(S, now), m) <=> r \in current
    BY <1>11, <1>19, <1>21, <2>1
  <2> QED
    BY <2>2
<1>28. InMonth(InPeriod(S, now), m - 1) = InMonth(S, m - 1)
  <2>1. \A r : r \in InMonth(InPeriod(S, now), m - 1) <=>
            r \in InPeriod(S, now) /\ 2 * lastStart <= r.at /\ r.at <= 2 * lastEnd + 1
    BY <1>6, <1>7, <1>21, <1>22, RowsBetween DEF InMonth
  <2>2. ASSUME NEW r
        PROVE  r \in InMonth(InPeriod(S, now), m - 1) <=> r \in InMonth(S, m - 1)
    BY <1>11, <1>21, <1>23, <2>1
  <2> QED
    BY <2>2
<1>29. Later(S) = {} => Between(S, Min(Day), Min({MonthEnd(m), Today(now)})) = S
  <2>1. Min({MonthEnd(m), Today(now)}) = day
    BY <1>2, <1>5, <1>17
  <2>2. \A r : r \in Between(S, Min(Day), day) <=>
            r \in S /\ r.at \in Int /\ 2 * least <= r.at /\ r.at <= 2 * day + 1
    BY <1>12, RowsBetween
  <2>4. Later(S) = {r \in S : r.at > 2 * day + 1}
    BY <1>18
  <2>5. Later(S) = {} => \A r : r \in Between(S, Min(Day), day) <=> r \in S
    <3> SUFFICES ASSUME Later(S) = {}, NEW r
                 PROVE  r \in Between(S, Min(Day), day) <=> r \in S
      OBVIOUS
    <3>1. r \in S => ~(r.at > 2 * day + 1) /\ r.at \in Int /\ 2 * least <= r.at
      BY <1>16, <2>4
    <3> QED
      BY <2>2, <3>1
  <2>3. Later(S) = {} => Between(S, Min(Day), day) = S
    BY <2>5
  <2> QED
    BY <2>1, <2>3
<1> QED
  BY <1>24, <1>25, <1>26, <1>27, <1>28, <1>29, Zenon DEF PageDays

LEMMA FiguresOfTheMonth ==
    ASSUME now \in Shown, NEW S, FiniteRows(S) PROVE MonthsAgree(S)
<1>1. PICK m : m = ThisMonth(now)
  OBVIOUS
<1>2. PICK current : current = Between(S, MonthStart(m), Today(now))
  OBVIOUS
<1>3. PICK previous : previous = InMonth(S, m - 1)
  OBVIOUS
<1>4. /\ current \subseteq InMonth(S, m)
      /\ Later(InMonth(S, m)) = {} => InMonth(S, m) = current
      /\ Later(S) = {} => Between(S, MonthStart(m), Max(Day)) = current
      /\ InMonth(InPeriod(S, now), m) = current
      /\ InMonth(InPeriod(S, now), m - 1) = previous
  <2>1. PageDays(S, m, current)
    BY <1>1, <1>2, DaysOfPage
  <2> QED
    BY <1>3, <2>1, Zenon DEF PageDays
<1>5. FiniteRows(current) /\ FiniteRows(previous)
  BY <1>2, <1>3, DaysOfRows DEF InMonth
<1>6. ~HasInterest(S, m) => WithInterest(Figure(current), current) = Figure(current)
  <2>1. ~HasInterest(S, m) => OfKind(current, {"interest"}) = {}
    BY <1>4 DEF HasInterest, OfKind
  <2> QED
    BY <1>5, <2>1, NothingEarned
<1>7. ~HasInterest(S, m - 1) => WithInterest(Figure(previous), previous) = Figure(previous)
  <2>1. ~HasInterest(S, m - 1) => OfKind(previous, {"interest"}) = {}
    BY <1>3 DEF HasInterest
  <2> QED
    BY <1>5, <2>1, NothingEarned
<1>8. PICK compared : compared = Comparison(S, now)
  OBVIOUS
<1>9. /\ compared.current = WithInterest(Figure(current), current)
      /\ compared.previous = WithInterest(Figure(previous), previous)
  BY <1>1, <1>2, <1>3, <1>8 DEF Comparison
<1>10. PICK kpis : kpis = MonthKpis(S, now)
  OBVIOUS
<1>11. MonthOf(LocalDay(now)) = m =>
        kpis.figure = WithInterest(Figure(InMonth(S, m)), InMonth(S, m))
  BY <1>10 DEF MonthKpis, LocalMonth
<1>12. PICK profile : profile = UserStatistics(AccountsOf(Members), 0, S, now)
  OBVIOUS
<1>13. /\ profile.current = Figure(Between(S, MonthStart(m), Max(Day)))
       /\ profile.previous = Figure(previous)
  BY <1>1, <1>3, <1>12 DEF UserStatistics
<1>14. /\ Sides(MonthData(m, S, now)) = Figure(current)
       /\ Sides(MonthData(m - 1, S, now)) = Figure(previous)
  BY <1>4 DEF MonthData, Sides, Figure
<1>15. kpis = BudgetCharts(S, now)
  BY <1>10, KpisAreCharts
<1>16. \/ compared.current = kpis.figure
       \/ MonthOf(LocalDay(now)) # m \/ Later(InMonth(S, m)) # {}
  BY <1>4, <1>9, <1>11
<1>17. \/ profile.current = compared.current
       \/ HasInterest(S, m) \/ Later(S) # {}
  BY <1>4, <1>6, <1>9, <1>13
<1>18. profile.previous = compared.previous \/ HasInterest(S, m - 1)
  BY <1>7, <1>9, <1>13
<1>19. \/ Sides(MonthData(m, S, now)) = compared.current
       \/ HasInterest(S, m)
  BY <1>6, <1>9, <1>14
<1>20. Sides(MonthData(m - 1, S, now)) = profile.previous
  BY <1>13, <1>14
<1> QED
  BY <1>1, <1>8, <1>10, <1>12, <1>15, <1>16, <1>17, <1>18, <1>19, <1>20, Zenon
  DEF MonthsAgree

-----------------------------------------------------------------------------
(* Balances together: what the users' rows gained and lost of each kind.  A  *)
(* transfer stays between the accounts of one user.                          *)
Opened(as) == SumFunctionOnSet(Opening, as)

LEMMA BalancesOfAll ==
    ASSUME NEW us, NEW S, FiniteRows(S), \A r \in S : Owner[r.account] \in us
    PROVE  LET as == AccountsOf(us)
           IN  /\ Opened(as) \in Int
               /\ Balances(as, S) = Opened(as) + Total(OfKind(S, Gains))
                                               - Total(OfKind(S, Losses))
<1>1. PICK as : as = AccountsOf(us)
  OBVIOUS
<1>2. IsFiniteSet(as) /\ as \subseteq Accounts
  BY <1>1, OperationsAssumption, FS_Subset DEF AccountsOf
<1>3. \A r \in S : r.account \in as /\ r.to \in as
  <2>1. \A r \in S : r.account \in Accounts /\ r.to \in Accounts /\ Owner[r.to] = Owner[r.account]
    BY DEF FiniteRows, Row
  <2> QED
    BY <1>1, <2>1 DEF AccountsOf
<1>4. PICK g : /\ g = [a \in as |-> Total({r \in OfKind(S, Gains) : r.to = a})]
              /\ SumFunctionOnSet(g, as) = Total(OfKind(S, Gains))
  <2> DEFINE P == [a \in as |-> {r \in OfKind(S, Gains) : r.to = a}]
             t == [a \in as |-> Total({r \in OfKind(S, Gains) : r.to = a})]
  <2>1. FiniteRows(OfKind(S, Gains))
    BY KindsOfRows
  <2>2. \A r \in OfKind(S, Gains) : \E a \in as : r \in P[a]
    BY <1>3 DEF OfKind
  <2>3. ArePartsOf(P, as, OfKind(S, Gains), t)
    BY <2>2 DEF ArePartsOf, Disjoint
  <2> HIDE DEF P, t
  <2>4. SumFunctionOnSet(t, as) = Total(OfKind(S, Gains))
    BY <1>2, <2>1, <2>3, TotalInParts
  <2> QED
    BY <2>4 DEF t
<1>5. PICK l : /\ l = [a \in as |-> Total({r \in OfKind(S, Losses) : r.account = a})]
              /\ SumFunctionOnSet(l, as) = Total(OfKind(S, Losses))
  <2> DEFINE P == [a \in as |-> {r \in OfKind(S, Losses) : r.account = a}]
             t == [a \in as |-> Total({r \in OfKind(S, Losses) : r.account = a})]
  <2>1. FiniteRows(OfKind(S, Losses))
    BY KindsOfRows
  <2>2. \A r \in OfKind(S, Losses) : \E a \in as : r \in P[a]
    BY <1>3 DEF OfKind
  <2>3. ArePartsOf(P, as, OfKind(S, Losses), t)
    BY <2>2 DEF ArePartsOf, Disjoint
  <2> HIDE DEF P, t
  <2>4. SumFunctionOnSet(t, as) = Total(OfKind(S, Losses))
    BY <1>2, <2>1, <2>3, TotalInParts
  <2> QED
    BY <2>4 DEF t
<1>6. ASSUME NEW a \in as
      PROVE  /\ Opening[a] \in Int /\ g[a] \in Int /\ l[a] \in Int
             /\ Balance(a, S) = (Opening[a] + g[a]) - l[a]
  <2>1. /\ {r \in OfKind(S, Gains) : r.to = a} \subseteq S
        /\ {r \in OfKind(S, Losses) : r.account = a} \subseteq S
    BY DEF OfKind
  <2>2. /\ FiniteRows({r \in OfKind(S, Gains) : r.to = a})
        /\ FiniteRows({r \in OfKind(S, Losses) : r.account = a})
    BY <2>1, PartsOfRows
  <2>3. /\ g[a] = Total({r \in OfKind(S, Gains) : r.to = a})
        /\ l[a] = Total({r \in OfKind(S, Losses) : r.account = a})
    BY <1>4, <1>5
  <2>4. g[a] \in Int /\ l[a] \in Int
    BY <2>2, <2>3, TotalIsSum
  <2>5. Opening[a] \in Int
    BY <1>2, OperationsAssumption
  <2>6. Balance(a, S) = Opening[a] + (g[a] - l[a])
    BY <2>3 DEF Balance
  <2> QED
    BY <2>4, <2>5, <2>6
<1>7. PICK h : h = [a \in as |-> Opening[a] + g[a]]
  OBVIOUS
<1>8. PICK b : b = [a \in as |-> Balance(a, S)]
  OBVIOUS
<1>9. Balances(as, S) = SumFunctionOnSet(b, as)
  BY <1>8 DEF Balances, SumFunction
<1>10. SumFunctionOnSet(h, as) = Opened(as) + SumFunctionOnSet(g, as)
  <2>1. AddsTo(Opening, g, h, as)
    BY <1>6, <1>7 DEF AddsTo
  <2>2. SumsAddTo(Opening, g, h, as)
    BY <1>2, <2>1, SumOfSums
  <2> QED
    BY <2>2 DEF SumsAddTo, Opened
<1>11. SumFunctionOnSet(b, as) = SumFunctionOnSet(h, as) - SumFunctionOnSet(l, as)
  <2>1. \A a \in as : h[a] = Opening[a] + g[a] /\ b[a] = Balance(a, S)
    BY <1>7, <1>8
  <2>2. LeavesOf(h, l, b, as)
    <3> SUFFICES ASSUME NEW a \in as
                 PROVE  h[a] \in Int /\ l[a] \in Int /\ b[a] = h[a] - l[a]
      BY DEF LeavesOf
    <3>1. h[a] = Opening[a] + g[a] /\ b[a] = Balance(a, S)
      BY <2>1
    <3>2. /\ Opening[a] \in Int /\ g[a] \in Int /\ l[a] \in Int
          /\ Balance(a, S) = (Opening[a] + g[a]) - l[a]
      BY <1>6
    <3>3. b[a] = h[a] - l[a]
      BY Zenon, <3>1, <3>2
    <3> QED
      BY <3>1, <3>2, <3>3
  <2>3. SumsLeave(h, l, b, as)
    BY <1>2, <2>2, SumOfDifferences
  <2> QED
    BY <2>3 DEF SumsLeave
<1>12. Opened(as) \in Int
  BY <1>2, <1>6, SumIsInt DEF Opened
<1>13. Balances(as, S) = Opened(as) + Total(OfKind(S, Gains)) - Total(OfKind(S, Losses))
  <2>1. SumFunctionOnSet(b, as) = (Opened(as) + SumFunctionOnSet(g, as)) - SumFunctionOnSet(l, as)
    BY <1>10, <1>11
  <2>2. PICK gained \in Nat : gained = Total(OfKind(S, Gains))
    BY KindsOfRows, TotalIsSum
  <2>3. PICK lost \in Nat : lost = Total(OfKind(S, Losses))
    BY KindsOfRows, TotalIsSum
  <2>4. PICK opened \in Int : opened = Opened(as)
    BY <1>12
  <2>5. Balances(as, S) = (opened + gained) - lost
    BY <1>4, <1>5, <1>9, <2>1, <2>2, <2>3, <2>4
  <2>6. (opened + gained) - lost = opened + (gained - lost)
    OBVIOUS
  <2> QED
    BY <2>2, <2>3, <2>4, <2>5, <2>6
<1> QED
  BY Zenon, <1>1, <1>12, <1>13

(* Rows that are neither receipts nor interest move the balances together by *)
(* what they earn less what they spend.                                      *)
GrowBy(us, T, D, S) ==
    /\ Balances(AccountsOf(us), T) \in Int /\ Signed(D) \in Int
    /\ Balances(AccountsOf(us), S) = Balances(AccountsOf(us), T) + Signed(D)

LEMMA BalancesGrow ==
    ASSUME NEW us, NEW S, FiniteRows(S), \A r \in S : Owner[r.account] \in us,
           NEW T, NEW D, S = T \cup D, T \cap D = {},
           OfKind(D, {"purchase", "return", "interest"}) = {}
    PROVE  GrowBy(us, T, D, S)
<1>1. FiniteRows(T) /\ FiniteRows(D)
  BY PartsOfRows
<1>2. PICK opened \in Int : opened = Opened(AccountsOf(us))
  BY BalancesOfAll
<1>3. /\ Balances(AccountsOf(us), S) = opened + Total(OfKind(S, Gains)) - Total(OfKind(S, Losses))
      /\ Balances(AccountsOf(us), T) = opened + Total(OfKind(T, Gains)) - Total(OfKind(T, Losses))
  BY <1>1, <1>2, BalancesOfAll
<1>4. ASSUME NEW kinds
      PROVE  /\ Total(OfKind(S, kinds)) = Total(OfKind(T, kinds)) + Total(OfKind(D, kinds))
             /\ Total(OfKind(T, kinds)) \in Nat /\ Total(OfKind(D, kinds)) \in Nat
  <2>1. OfKind(S, kinds) = OfKind(T, kinds) \cup OfKind(D, kinds)
        /\ OfKind(T, kinds) \cap OfKind(D, kinds) = {}
    BY DEF OfKind
  <2>2. FiniteRows(OfKind(T, kinds)) /\ FiniteRows(OfKind(D, kinds))
    BY <1>1, KindsOfRows
  <2> QED
    BY <2>1, <2>2, TotalOfTwo, TotalIsSum
<1>5. ASSUME NEW kind, kind \notin {"transfer"}
      PROVE  /\ Total(OfKind(D, {kind, "transfer"})) = Total(OfKind(D, {kind})) + Total(OfKind(D, {"transfer"}))
             /\ Total(OfKind(D, {kind})) \in Nat
  <2>1. OfKind(D, {kind, "transfer"}) = OfKind(D, {kind}) \cup OfKind(D, {"transfer"})
        /\ OfKind(D, {kind}) \cap OfKind(D, {"transfer"}) = {}
    BY <1>5 DEF OfKind
  <2>2. FiniteRows(OfKind(D, {kind})) /\ FiniteRows(OfKind(D, {"transfer"}))
    BY <1>1, KindsOfRows
  <2> QED
    BY <2>1, <2>2, TotalOfTwo, TotalIsSum
<1>6. /\ OfKind(D, Gains) = OfKind(D, {"income", "transfer"})
      /\ OfKind(D, Losses) = OfKind(D, {"expense", "transfer"})
  BY DEF OfKind, Gains, Losses
<1>7. PICK moved \in Nat : moved = Total(OfKind(D, {"transfer"}))
  BY <1>4
<1>8. PICK earned \in Nat : earned = Total(OfKind(D, {"income"}))
  BY <1>5
<1>9. PICK spent \in Nat : spent = Total(OfKind(D, {"expense"}))
  BY <1>5
<1>10. /\ Total(OfKind(D, Gains)) = earned + moved
       /\ Total(OfKind(D, Losses)) = spent + moved
  BY <1>5, <1>6, <1>7, <1>8, <1>9
<1>11. Signed(D) = earned - spent
  BY <1>8, <1>9 DEF Signed, Figure, SumOf
<1>12. PICK gained \in Nat : gained = Total(OfKind(T, Gains))
  BY <1>4
<1>13. PICK lost \in Nat : lost = Total(OfKind(T, Losses))
  BY <1>4
<1>14. /\ Total(OfKind(S, Gains)) = gained + (earned + moved)
       /\ Total(OfKind(S, Losses)) = lost + (spent + moved)
  BY <1>4, <1>10, <1>12, <1>13
<1>15. Balances(AccountsOf(us), T) \in Int
  BY <1>3, <1>12, <1>13
<1> QED
  BY <1>3, <1>11, <1>12, <1>13, <1>14, <1>15 DEF GrowBy

-----------------------------------------------------------------------------
(* The chart.                                                                *)
LEMMA RowMoments ==
    ASSUME NEW S, FiniteRows(S) PROVE \A r \in S : r.at \in Int
<1>1. \A r \in S : r.at \in Moment
  BY DEF FiniteRows, Row
<1> QED
  BY <1>1 DEF Moment

Twice(kind, S) == \E r, o \in OfKind(S, {kind}) :
                        r.at # o.at /\ UtcDay(r.at) = UtcDay(o.at)

LEMMA ChartDaysFinite ==
    ASSUME NEW S, FiniteRows(S) PROVE IsFiniteSet(ChartDays(S))
<1>1. PICK drawn : drawn = OfKind(S, {"income", "expense"})
  OBVIOUS
<1>2. IsFiniteSet(drawn)
  BY <1>1, KindsOfRows DEF FiniteRows
<1>3. PICK days : days = {UtcDay(r.at) : r \in drawn}
  OBVIOUS
<1>4. [r \in drawn |-> UtcDay(r.at)] \in Surjection(drawn, days)
  BY <1>3 DEF Surjection
<1>5. IsFiniteSet(days)
  BY <1>2, <1>4, FS_Surjection
<1>6. IsFiniteSet(days \cup {Min(days) - 1})
  BY <1>5, FS_AddElement
<1>7. ChartDays(S) = days \/ ChartDays(S) = days \cup {Min(days) - 1}
  BY <1>1, <1>3 DEF ChartDays
<1> QED
  BY <1>5, <1>6, <1>7

LEMMA ChartAddsUp ==
    ASSUME NEW S, FiniteRows(S), NEW kind \in {"income", "expense"}, ~Twice(kind, S)
    PROVE  SumFunction([d \in ChartDays(S) |-> ChartDay(kind, d, S)]) = SumOf({kind}, S)
<1>1. PICK days : days = ChartDays(S)
  OBVIOUS
<1>2. IsFiniteSet(days)
  BY <1>1, ChartDaysFinite
<1>3. PICK all : all = OfKind(S, {kind})
  OBVIOUS
<1>4. FiniteRows(all)
  BY <1>3, KindsOfRows
<1>5. PICK P : P = [d \in days |-> {r \in all : UtcDay(r.at) = d}]
  OBVIOUS
<1>6. PICK g : g = [d \in days |-> ChartDay(kind, d, S)]
  OBVIOUS
<1>7. ASSUME NEW d \in days PROVE g[d] = Total(P[d])
  <2>1. PICK there : there = {r \in all : UtcDay(r.at) = d}
    OBVIOUS
  <2>2. \A r, o \in there : r.at = o.at
    BY <1>3, <2>1 DEF Twice
  <2>3. \A r \in there : r.at \in Int
    BY <1>4, <2>1, RowMoments
  <2>4. {r \in there : \A o \in there : o.at <= r.at} = there
    BY <2>2, <2>3
  <2>5. ChartDay(kind, d, S) = Total({r \in there : \A o \in there : o.at <= r.at})
    BY <1>3, <2>1 DEF ChartDay
  <2> QED
    BY <1>5, <1>6, <2>1, <2>4, <2>5
<1>8. \A r \in all : UtcDay(r.at) \in days
  BY <1>1, <1>3 DEF ChartDays, OfKind
<1>9. ArePartsOf(P, days, all, g)
  <2>1. Disjoint(P, days)
    BY <1>5 DEF Disjoint
  <2>2. \A d \in days : P[d] \subseteq all
    BY <1>5
  <2>3. \A r \in all : \E d \in days : r \in P[d]
    BY <1>5, <1>8
  <2> QED
    BY <1>7, <2>1, <2>2, <2>3 DEF ArePartsOf
<1>10. SumFunctionOnSet(g, days) = Total(all)
  BY <1>2, <1>4, <1>9, TotalInParts
<1>11. SumFunction(g) = SumFunctionOnSet(g, days)
  BY <1>6 DEF SumFunction
<1> QED
  BY <1>1, <1>3, <1>6, <1>10, <1>11 DEF SumOf

LEMMA ChartFiguresAgree ==
    ASSUME now \in Shown, NEW S, FiniteRows(S), \A r \in S : Owner[r.account] \in Members
    PROVE  ChartAgrees(S)
<1>1. PICK period : period = InPeriod(S, now)
  OBVIOUS
<1>2. FiniteRows(period)
  BY <1>1, DaysOfRows DEF InPeriod
<1>3. \A kind \in {"income", "expense"} :
        \/ SumFunction([d \in ChartDays(period) |-> ChartDay(kind, d, period)])
                = SumOf({kind}, period)
        \/ Twice(kind, period)
  BY <1>2, ChartAddsUp
<1>4. \/ MonthData(ThisMonth(now), S, now).balance =
            Balances(AccountsOf(Members), S) - Balances(AccountsOf(Members), {})
      \/ OfKind(S, {"purchase", "return", "interest"}) # {}
      \/ Later(S) # {}
  <2> SUFFICES ASSUME OfKind(S, {"purchase", "return", "interest"}) = {}, Later(S) = {}
               PROVE  MonthData(ThisMonth(now), S, now).balance =
                        Balances(AccountsOf(Members), S) - Balances(AccountsOf(Members), {})
    OBVIOUS
  <2>1. PICK m : m = ThisMonth(now)
    OBVIOUS
  <2>2. Between(S, Min(Day), Min({MonthEnd(m), Today(now)})) = S
    <3>1. PICK current : current = Between(S, MonthStart(m), Today(now))
      OBVIOUS
    <3>2. PageDays(S, m, current)
      BY <2>1, <3>1, DaysOfPage
    <3> QED
      BY <3>2 DEF PageDays
  <2>3. MonthData(m, S, now).balance = Signed(S)
    BY <2>2 DEF MonthData, Signed
  <2>4. S = {} \cup S /\ {} \cap S = {}
    OBVIOUS
  <2>5. GrowBy(Members, {}, S, S)
    BY <2>4, BalancesGrow
  <2> QED
    BY <2>1, <2>3, <2>5 DEF GrowBy
<1> QED
  BY <1>1, <1>3, <1>4, Zenon DEF ChartAgrees, Twice

-----------------------------------------------------------------------------
(* The trend.                                                                *)
LEMMA BalancesType ==
    ASSUME NEW us, NEW S, FiniteRows(S), \A r \in S : Owner[r.account] \in us
    PROVE  Balances(AccountsOf(us), S) \in Int
<1>1. \A kinds : Total(OfKind(S, kinds)) \in Nat
  BY KindsOfRows, TotalIsSum
<1> QED
  BY <1>1, BalancesOfAll

LEMMA TrendFiguresAgree ==
    ASSUME now \in Shown, NEW S, FiniteRows(S), \A r \in S : Owner[r.account] \in Members
    PROVE  TrendAgrees(S)
<1>1. PICK as : as = AccountsOf(Members)
  OBVIOUS
<1>2. PICK today \in Int : today = Today(now)
  BY PageInCalendar DEF MonthsOfPage
<1>3. PICK start \in Int : start = TrendStart(now) /\ start <= today
  BY <1>2, FiguresAssumption DEF TrendStart, Today
<1>4. PICK since : since = {r \in S : LocalDay(r.at) >= start}
  OBVIOUS
<1>5. PICK transactions : transactions = OfKind(since, {"income", "expense"})
  OBVIOUS
<1>6. FiniteRows(since)
  BY <1>4, PartsOfRows
<1>7. OfAccounts(S, as) = S
  <2>1. \A r \in S : r.account \in Accounts
    BY DEF FiniteRows, Row
  <2> QED
    BY <1>1, <2>1 DEF OfAccounts, AccountsOf
<1>8. BalanceAt(as, start, S) = Balances(as, S) - Signed(since)
  BY <1>4, <1>7 DEF BalanceAt
<1>9. Balances(as, S) \in Int /\ Signed(since) \in Int
  <2>1. Balances(as, S) \in Int
    BY <1>1, BalancesType
  <2>2. Signed(since) \in Int
    <3>1. PICK earned \in Nat : earned = Figure(since).income
      BY <1>6, FigureOfRows
    <3>2. PICK spent \in Nat : spent = Figure(since).expenses
      BY <1>6, FigureOfRows
    <3> QED
      BY <3>1, <3>2 DEF Signed
  <2> QED
    BY <2>1, <2>2
<1>10. \/ BalanceTrend(as, S, now)[today] = Balances(as, S)
       \/ \E r \in transactions :
            r.at < now - 2 * TrendDays \/ LocalDay(r.at) > today
  <2> SUFFICES ASSUME ~\E r \in transactions :
                        r.at < now - 2 * TrendDays \/ LocalDay(r.at) > today
               PROVE  BalanceTrend(as, S, now)[today] = Balances(as, S)
    OBVIOUS
  <2>1. PICK seen : seen = {r \in S : /\ r.at >= now - 2 * TrendDays
                                      /\ LocalDay(r.at) \in start .. today}
    OBVIOUS
  <2>2. now \in Int /\ TrendDays \in Nat
    <3>1. now \in Moment
      BY DEF Shown
    <3> QED
      BY <3>1, FiguresAssumption DEF Moment
  <2>3. \A r \in S : r.at \in Int /\ LocalDay(r.at) \in Int
    BY RowMoments DEF LocalDay
  <2>4. ASSUME NEW kind \in {"income", "expense"}
        PROVE  OfKind(seen, {kind}) = OfKind(since, {kind})
    <3>1. ASSUME NEW r PROVE r \in OfKind(seen, {kind}) <=> r \in OfKind(since, {kind})
      <4>1. r \in OfKind(seen, {kind}) => r \in OfKind(since, {kind})
        BY <1>4, <2>1, <2>3 DEF OfKind
      <4>2. ASSUME r \in OfKind(since, {kind}) PROVE r \in OfKind(seen, {kind})
        <5>1. r \in transactions /\ r \in S /\ LocalDay(r.at) >= start /\ r.kind = kind
          BY <1>4, <1>5, <4>2 DEF OfKind
        <5>2. ~(r.at < now - 2 * TrendDays) /\ ~(LocalDay(r.at) > today)
          BY <5>1
        <5>3. r.at >= now - 2 * TrendDays /\ LocalDay(r.at) \in start .. today
          BY <2>2, <2>3, <5>1, <5>2
        <5> QED
          BY <2>1, <5>1, <5>3 DEF OfKind
      <4> QED
        BY <4>1, <4>2
    <3> QED
      BY <3>1
  <2>5. Signed(seen) = Signed(since)
    BY <2>4 DEF Signed, Figure, SumOf
  <2>6. TrendPoint(as, today, S, now) = BalanceAt(as, start, S) + Signed(seen)
    BY <1>3, <1>7, <2>1 DEF TrendPoint
  <2>7. BalanceTrend(as, S, now)[today] = TrendPoint(as, today, S, now)
    <3>1. today \in start .. today
      BY <1>3
    <3> QED
      BY <1>2, <1>3, <3>1 DEF BalanceTrend
  <2>8. PICK all \in Int : all = Balances(as, S)
    BY <1>9, Zenon
  <2>9. PICK moved \in Int : moved = Signed(since)
    BY <1>9, Zenon
  <2>10. TrendPoint(as, today, S, now) = (all - moved) + moved
    BY <1>8, <2>5, <2>6, <2>8, <2>9, Zenon
  <2>11. (all - moved) + moved = all
    OBVIOUS
  <2> QED
    BY <2>7, <2>8, <2>10, <2>11, Zenon
<1>11. \/ BalanceAt(as, start, S) = Balances(as, S \ since)
       \/ OfKind(since, {"purchase", "return", "interest"}) # {}
  <2> SUFFICES ASSUME OfKind(since, {"purchase", "return", "interest"}) = {}
               PROVE  BalanceAt(as, start, S) = Balances(as, S \ since)
    OBVIOUS
  <2>1. PICK before : before = S \ since
    OBVIOUS
  <2>2. S = before \cup since /\ before \cap since = {}
    BY <1>4, <2>1
  <2>3. GrowBy(Members, before, since, S)
    BY <2>2, BalancesGrow
  <2> QED
    BY <1>1, <1>8, <2>1, <2>3 DEF GrowBy
<1> QED
  BY <1>1, <1>2, <1>3, <1>4, <1>5, <1>10, <1>11, Zenon DEF TrendAgrees

-----------------------------------------------------------------------------
(* The figures of a month, the chart and the trend agree between the pages   *)
(* but where the rows hold what one of them leaves out, whatever the rows,   *)
(* accounts, categories, calendar and moment (the services of statistics,    *)
(* dashboard, reports, comparison and profile, and BalanceTrendService).     *)
THEOREM FiguresAlwaysAgree == Spec => []FiguresAgree
<1>1. PagesInv /\ DataShown => FiguresAgree
  <2> SUFFICES ASSUME PagesInv, DataShown, AtFirst,
                      NEW S, S = OfUsers(rows, Members)
               PROVE  MonthsAgree(S) /\ ChartAgrees(S) /\ TrendAgrees(S)
    BY DEF FiguresAgree
  <2>1. now \in Shown
    BY DEF AtFirst, DataShown
  <2>2. FiniteRows(S) /\ \A r \in S : Owner[r.account] \in Members
    <3>1. S \subseteq rows /\ rows \subseteq Row /\ IsFiniteSet(rows)
      BY DEF OfUsers, PagesInv, PagesTypeOK, DataOK, DataShown
    <3>2. FiniteRows(S)
      BY <3>1, FS_Subset DEF FiniteRows
    <3> QED
      BY <3>2 DEF OfUsers
  <2> QED
    BY <2>1, <2>2, FiguresOfTheMonth, ChartFiguresAgree, TrendFiguresAgree
<1> QED
  BY <1>1, PagesInvariant, DataAlwaysShown, PTL

-----------------------------------------------------------------------------
(* The debts of the credit cards.                                            *)
LEMMA PairHasEnds ==
    ASSUME NEW a \in Int, NEW b \in Int
    PROVE  /\ Max({a, b}) = (IF a >= b THEN a ELSE b)
           /\ Min({a, b}) = (IF a <= b THEN a ELSE b)
<1>1. {a, b} \in SUBSET Int /\ {a, b} # {}
  OBVIOUS
<1>2. IsFiniteSet({a, b})
  <2>1. IsFiniteSet({a}) /\ IsFiniteSet({b})
    BY FS_Singleton
  <2>2. IsFiniteSet({a} \cup {b})
    BY <2>1, FS_Union
  <2>3. {a, b} = {a} \cup {b}
    OBVIOUS
  <2> QED
    BY <2>2, <2>3
<1>3. /\ Min({a, b}) \in {a, b} /\ \A x \in {a, b} : Min({a, b}) <= x
      /\ Max({a, b}) \in {a, b} /\ \A x \in {a, b} : x <= Max({a, b})
  BY <1>1, <1>2, LeastAndGreatest
<1> QED
  BY <1>3

LEMMA NotNegativeIs ==
    ASSUME NEW x \in Int
    PROVE  NotNegative(x) \in Nat /\ NotNegative(x) = IF x >= 0 THEN x ELSE 0
<1>1. Max({x, 0}) = IF x >= 0 THEN x ELSE 0
  BY PairHasEnds
<1> QED
  BY <1>1 DEF NotNegative

(* A card that no transfer leaves gains its repayments and loses its         *)
(* purchases.                                                                *)
Keeps(c, S) == \A r \in S : r.kind = "transfer" => r.account # c
GainedBy(c, S) == {r \in OfKind(S, Gains) : r.to = c}
LostBy(c, S) == {r \in OfKind(S, Losses) : r.account = c}
Returns(c, S) == {r \in OfKind(S, {"return"}) : r.account = c}

RowsOfCard(c, S) ==
    /\ FiniteRows(GainedBy(c, S)) /\ FiniteRows(LostBy(c, S))
    /\ FiniteRows(Purchases(c, S)) /\ FiniteRows(Repayments(c, S))
    /\ FiniteRows(CollectedPayments(c, S)) /\ FiniteRows(Returns(c, S))
    /\ GainedBy(c, S) = Repayments(c, S)
    /\ Repayments(c, S) = CollectedPayments(c, S) \cup Returns(c, S)
    /\ CollectedPayments(c, S) \cap Returns(c, S) = {}
    /\ Keeps(c, S) => LostBy(c, S) = Purchases(c, S)

LEMMA CardRows ==
    ASSUME NEW c \in CreditCards, NEW S, FiniteRows(S) PROVE RowsOfCard(c, S)
<1>1. /\ GainedBy(c, S) \subseteq S /\ LostBy(c, S) \subseteq S
      /\ Purchases(c, S) \subseteq S /\ Repayments(c, S) \subseteq S
      /\ CollectedPayments(c, S) \subseteq S /\ Returns(c, S) \subseteq S
  BY DEF GainedBy, LostBy, Purchases, Repayments, CollectedPayments, Returns, OfKind
<1>2. \A r \in S : /\ r.kind # "transfer" => r.to = r.account
                   /\ r.kind = "interest" => r.account # c
  BY DEF FiniteRows, Row
<1>3. ASSUME NEW r PROVE r \in GainedBy(c, S) <=> r \in Repayments(c, S)
  BY <1>2 DEF GainedBy, Repayments, OfKind, Gains
<1>4. ASSUME NEW r
      PROVE  r \in Repayments(c, S) <=> r \in CollectedPayments(c, S) \cup Returns(c, S)
  BY <1>2 DEF Repayments, CollectedPayments, Returns, OfKind
<1>5. CollectedPayments(c, S) \cap Returns(c, S) = {}
  BY DEF CollectedPayments, Returns, OfKind
<1>6. ASSUME Keeps(c, S), NEW r PROVE r \in LostBy(c, S) <=> r \in Purchases(c, S)
  BY <1>6 DEF LostBy, Purchases, OfKind, Losses, Keeps
<1> QED
  BY <1>1, <1>3, <1>4, <1>5, <1>6, PartsOfRows DEF RowsOfCard

(* What is on a card, and the numbers of what made it.                       *)
CardBalance(c, S, spent, repaid) ==
    /\ spent = Total(Purchases(c, S)) /\ repaid = Total(Repayments(c, S))
    /\ Keeps(c, S) => Balance(c, S) = (Opening[c] + repaid) - spent

LEMMA BalanceOfCard ==
    ASSUME NEW c \in CreditCards, NEW S, FiniteRows(S)
    PROVE  \E spent, repaid \in Nat : CardBalance(c, S, spent, repaid)
<1>1. RowsOfCard(c, S)
  BY CardRows
<1>2. PICK spent \in Nat : spent = Total(Purchases(c, S))
  BY <1>1, TotalIsSum DEF RowsOfCard
<1>3. PICK repaid \in Nat : repaid = Total(Repayments(c, S))
  BY <1>1, TotalIsSum DEF RowsOfCard
<1>4. PICK opening \in Int : opening = Opening[c]
  BY OperationsAssumption
<1>5. ASSUME Keeps(c, S) PROVE Balance(c, S) = (opening + repaid) - spent
  <2>1. Balance(c, S) = opening + (Total(GainedBy(c, S)) - Total(LostBy(c, S)))
    BY <1>4 DEF Balance, GainedBy, LostBy
  <2>2. Balance(c, S) = opening + (repaid - spent)
    BY <1>1, <1>2, <1>3, <1>5, <2>1 DEF RowsOfCard
  <2>3. opening + (repaid - spent) = (opening + repaid) - spent
    OBVIOUS
  <2> QED
    BY <2>2, <2>3
<1>6. CardBalance(c, S, spent, repaid)
  BY <1>2, <1>3, <1>4, <1>5, Zenon DEF CardBalance
<1> QED
  BY <1>6

LEMMA DebtsOfCard ==
    ASSUME NEW c \in CreditCards, FiniteRows(rows) PROVE DebtAgrees(c)
<1> SUFFICES ASSUME ~MovedOut(c), Opening[c] = CreditLimit[c]
             PROVE  CardDebt(c, rows) = Lacks(c)
  BY DEF DebtAgrees
<1>1. PICK spent \in Nat, repaid \in Nat : CardBalance(c, rows, spent, repaid)
  BY BalanceOfCard
<1>2. Keeps(c, rows)
  BY DEF MovedOut, Keeps, OfKind
<1>3. PICK limit \in Nat : limit = CreditLimit[c]
  BY CardsAssumption
<1>4. Balance(c, rows) = (limit + repaid) - spent
  BY <1>1, <1>2, <1>3 DEF CardBalance
<1>5. CardDebt(c, rows) = NotNegative(spent - repaid)
  BY <1>1 DEF CardBalance, CardDebt
<1>6. Lacks(c) = NotNegative(limit - ((limit + repaid) - spent))
  BY <1>3, <1>4 DEF Lacks
<1>7. limit - ((limit + repaid) - spent) = spent - repaid
  OBVIOUS
<1> QED
  BY <1>5, <1>6, <1>7

LEMMA GraceOfCard ==
    ASSUME NEW c \in CreditCards, FiniteRows(rows) PROVE GraceAgrees(c)
<1>1. PICK m : m = ThisMonth(now)
  OBVIOUS
<1>2. PICK inMonth : inMonth = InMonth(rows, m)
  OBVIOUS
<1>3. PICK end : end = GraceEnd(c, m, rows)
  OBVIOUS
<1>4. PICK inGrace : inGrace = {r \in rows : r.at \in StartOfDay(MonthStart(m)) .. end}
  OBVIOUS
<1>5. PICK grace : grace = GraceInfo(c, m, rows, now)
  OBVIOUS
<1>6. /\ grace.graceEnd = end
      /\ grace.final = NotNegative(CardDebt(c, inMonth) - PaidInGrace(c, m, rows))
  BY <1>2, <1>3, <1>5 DEF GraceInfo
<1>7. FiniteRows(inMonth) /\ FiniteRows(inGrace)
  BY <1>2, <1>4, DaysOfRows, PartsOfRows DEF InMonth
<1>8. PICK spent \in Nat, repaid \in Nat : CardBalance(c, inMonth, spent, repaid)
  BY <1>7, BalanceOfCard
<1>9. PICK paid \in Nat : paid = CardPayments(c, inGrace)
  <2>1. RowsOfCard(c, inGrace)
    BY <1>7, CardRows
  <2> QED
    BY <2>1, TotalIsSum DEF CardPayments, RowsOfCard
<1>10. CardDebt(c, inMonth) = NotNegative(spent - repaid)
  BY <1>8 DEF CardBalance, CardDebt
<1>11. CASE Bank[c] = "other"
  <2>1. inGrace = inMonth
    BY <1>2, <1>3, <1>4, <1>11 DEF GraceEnd, InMonth, Between
  <2>2. paid = repaid
    BY <1>8, <1>9, <2>1 DEF CardPayments, CardBalance
  <2>3. PICK debt \in Nat : debt = NotNegative(spent - repaid)
    BY NotNegativeIs
  <2>4. grace.final = NotNegative(debt - 0)
    BY <1>6, <1>10, <1>11, <2>3 DEF PaidInGrace
  <2>5. NotNegative(debt - 0) = debt
    BY NotNegativeIs
  <2>6. grace.final = NotNegative(spent - paid)
    BY <2>2, <2>3, <2>4, <2>5
  <2> QED
    BY <1>1, <1>2, <1>4, <1>5, <1>6, <1>8, <1>9, <2>6, Zenon DEF GraceAgrees, CardBalance
<1>12. CASE Bank[c] # "other" /\ Repayments(c, inMonth) = {}
  <2>1. repaid = 0
    BY <1>8, <1>12, TotalOfNone DEF CardBalance
  <2>2. NotNegative(spent - repaid) = spent
    BY <2>1, NotNegativeIs
  <2>3. PaidInGrace(c, m, rows) = paid
    BY <1>3, <1>4, <1>9, <1>12 DEF PaidInGrace
  <2>4. grace.final = NotNegative(spent - paid)
    BY <1>6, <1>10, <2>2, <2>3
  <2> QED
    BY <1>1, <1>2, <1>4, <1>5, <1>6, <1>8, <1>9, <2>4, Zenon DEF GraceAgrees, CardBalance
<1>13. CASE Bank[c] # "other" /\ Repayments(c, inMonth) # {}
  BY <1>1, <1>2, <1>13, Zenon DEF GraceAgrees
<1> QED
  BY <1>11, <1>12, <1>13

(* Every row of the page's period is of exactly one of its months.           *)
InMonths(T) ==
    /\ IsFiniteSet(StatRange(now))
    /\ \A m, k \in StatRange(now) : m # k => InMonth(T, m) \cap InMonth(T, k) = {}
    /\ \A r \in T : \E m \in StatRange(now) : r \in InMonth(T, m)

LEMMA PeriodInMonths ==
    ASSUME now \in Shown, NEW S, FiniteRows(S) PROVE InMonths(InPeriod(S, now))
<1>1. PICK n \in Nat : n = Len(MonthLengths)
  BY CalendarAssumption, LenProperties
<1>2. PICK last \in 2 .. n : last = ThisMonth(now)
  BY <1>1, PageInCalendar DEF MonthsOfPage
<1>3. PICK first \in 1 .. last - 1 : first = last - StatMonths + 1
  BY <1>2, PageInCalendar DEF MonthsOfPage
<1>4. StatRange(now) = first .. last /\ first .. last \subseteq 1 .. n
  BY <1>2, <1>3 DEF StatRange
<1>5. PICK T : T = InPeriod(S, now)
  OBVIOUS
<1>6. FiniteRows(T)
  BY <1>5, DaysOfRows DEF InPeriod
<1>7. PICK today \in Int : today = Today(now)
  BY PageInCalendar DEF MonthsOfPage
<1>8. \A m \in 1 .. n : /\ MonthStart(m) \in Nat /\ MonthEnd(m) \in Nat
                        /\ MonthStart(m) <= MonthEnd(m)
  BY <1>1, PageInCalendar DEF MonthsOfPage
<1>9. \A k, m \in 1 .. n : k < m => MonthEnd(k) < MonthStart(m)
  BY <1>1, PageInCalendar DEF MonthsOfPage
<1>10. ASSUME NEW m \in 1 .. n, NEW r
       PROVE  r \in InMonth(T, m) <=>
                r \in T /\ r.at \in Int /\ 2 * MonthStart(m) <= r.at
                        /\ r.at <= 2 * MonthEnd(m) + 1
  BY <1>6, <1>8, RowsBetween DEF InMonth
<1>11. IsFiniteSet(StatRange(now))
  BY <1>4, FS_Interval
<1>12. ASSUME NEW k \in 1 .. n, NEW m \in 1 .. n, k < m
       PROVE  InMonth(T, k) \cap InMonth(T, m) = {}
  <2>1. PICK end \in Nat : end = MonthEnd(k)
    BY <1>8
  <2>2. PICK start \in Nat : start = MonthStart(m)
    BY <1>8
  <2>3. end < start
    BY <1>9, <1>12, <2>1, <2>2
  <2>4. ASSUME NEW r, r \in InMonth(T, k), r \in InMonth(T, m) PROVE FALSE
    BY <1>10, <2>1, <2>2, <2>3, <2>4
  <2> QED
    BY <2>4
<1>13. ASSUME NEW r \in T PROVE \E m \in StatRange(now) : r \in InMonth(T, m)
  <2>1. PICK from \in Nat \ {0} : from = StatStart(now)
    <3>1. first \in 1 .. n
      OBVIOUS
    <3>2. MonthStart(first) \in Nat \ {0}
      BY <1>1, <3>1, PageInCalendar DEF MonthsOfPage
    <3>3. StatStart(now) = MonthStart(first)
      BY <1>2, <1>3, PageInCalendar DEF MonthsOfPage
    <3> QED
      BY <3>2, <3>3
  <2>2. r \in S /\ r.at \in Int /\ 2 * from <= r.at /\ r.at <= 2 * today + 1
    BY <1>5, <1>7, <2>1, RowsBetween DEF InPeriod
  <2>3. PICK day : day = LocalDay(r.at)
    OBVIOUS
  <2>4. day \in Int /\ 2 * day <= r.at /\ r.at <= 2 * day + 1
    BY <2>2, <2>3 DEF LocalDay
  <2>5. from <= day /\ day <= today
    BY <2>2, <2>4
  <2>6. day \in Day
    <3>1. PICK all \in Nat : all = DaysInAll
      BY MonthsInCalendar
    <3>2. today \in 1 .. all
      BY <1>7, <3>1 DEF Shown, Day
    <3>3. day \in 1 .. all
      BY <2>1, <2>4, <2>5, <3>2
    <3> QED
      BY <3>1, <3>3 DEF Day
  <2>7. PICK m \in 1 .. n : m = MonthOf(day)
    BY <1>1, <2>6, DaysOfMonths
  <2>8. MonthStart(m) <= day /\ day <= MonthEnd(m)
    BY <2>6, <2>7, DaysOfMonths
  <2>9. MonthStart(last) <= today /\ today <= MonthEnd(last)
    BY <1>2, <1>7, PageInCalendar DEF MonthsOfPage
  <2>10. from = MonthStart(first)
    BY <1>2, <1>3, <2>1, PageInCalendar DEF MonthsOfPage
  <2>11. ~(m < first)
    BY <1>2, <1>3, <1>8, <1>9, <2>4, <2>5, <2>8, <2>10
  <2>12. ~(last < m)
    BY <1>2, <1>7, <1>8, <1>9, <2>4, <2>5, <2>8, <2>9
  <2>13. m \in StatRange(now)
    BY <1>4, <2>11, <2>12
  <2>14. r \in InMonth(T, m)
    BY <1>8, <1>10, <2>2, <2>4, <2>8
  <2> QED
    BY <2>13, <2>14
<1>14. \A k, m \in StatRange(now) : k # m => InMonth(T, k) \cap InMonth(T, m) = {}
  <2> SUFFICES ASSUME NEW k \in StatRange(now), NEW m \in StatRange(now), k # m
               PROVE  InMonth(T, k) \cap InMonth(T, m) = {}
    OBVIOUS
  <2>1. k \in 1 .. n /\ m \in 1 .. n
    BY <1>4
  <2>2. CASE k < m
    BY <1>12, <2>1, <2>2
  <2>3. CASE m < k
    BY <1>12, <2>1, <2>3
  <2> QED
    BY <2>1, <2>2, <2>3
<1> QED
  BY <1>5, <1>11, <1>13, <1>14 DEF InMonths

(* The debts of the months of a card add up to what was spent and not        *)
(* returned.                                                                 *)
MonthDebts(c, T) == [m \in StatRange(now) |-> MonthDebt(c, m, T)]
DebtsOf(c, T, spent, returned) ==
    /\ \A m \in StatRange(now) : MonthDebts(c, T)[m] \in Int
    /\ spent = Total(Purchases(c, T)) /\ returned = Total(Returns(c, T))
    /\ SumFunctionOnSet(MonthDebts(c, T), StatRange(now)) = spent - returned

LEMMA DebtsAddUp ==
    ASSUME NEW c \in CreditCards, NEW T, FiniteRows(T), InMonths(T)
    PROVE  \E spent, returned \in Nat : DebtsOf(c, T, spent, returned)
<1>1. PICK X : X = StatRange(now)
  OBVIOUS
<1>2. IsFiniteSet(X) /\ RowsOfCard(c, T)
  BY <1>1, CardRows DEF InMonths
<1>3. ASSUME NEW m \in X
      PROVE  FiniteRows(InMonth(T, m)) /\ RowsOfCard(c, InMonth(T, m))
  BY DaysOfRows, CardRows DEF InMonth
<1>4. PICK s : s = [m \in X |-> Total(Purchases(c, InMonth(T, m)))]
  OBVIOUS
<1>5. PICK q : q = [m \in X |-> Total(Returns(c, InMonth(T, m)))]
  OBVIOUS
<1>6. \A m \in X : InMonth(T, m) \subseteq T
  BY DEF InMonth, Between
<1>7. SumFunctionOnSet(s, X) = Total(Purchases(c, T))
  <2>1. PICK P : P = [m \in X |-> Purchases(c, InMonth(T, m))]
    OBVIOUS
  <2>2. Disjoint(P, X)
    BY <1>1, <2>1 DEF Disjoint, InMonths, Purchases, OfKind
  <2>3. ASSUME NEW m \in X PROVE P[m] \subseteq Purchases(c, T) /\ s[m] = Total(P[m])
    BY <1>4, <1>6, <2>1 DEF Purchases, OfKind
  <2>4. ASSUME NEW r \in Purchases(c, T) PROVE \E m \in X : r \in P[m]
    <3>1. r \in T
      BY DEF Purchases, OfKind
    <3>2. PICK m \in X : r \in InMonth(T, m)
      BY <1>1, <3>1 DEF InMonths
    <3> QED
      BY <2>1, <3>2 DEF Purchases, OfKind
  <2>5. ArePartsOf(P, X, Purchases(c, T), s)
    BY <2>2, <2>3, <2>4 DEF ArePartsOf
  <2> QED
    BY <1>2, <2>5, TotalInParts DEF RowsOfCard
<1>8. SumFunctionOnSet(q, X) = Total(Returns(c, T))
  <2>1. PICK P : P = [m \in X |-> Returns(c, InMonth(T, m))]
    OBVIOUS
  <2>2. Disjoint(P, X)
    BY <1>1, <2>1 DEF Disjoint, InMonths, Returns, OfKind
  <2>3. ASSUME NEW m \in X PROVE P[m] \subseteq Returns(c, T) /\ q[m] = Total(P[m])
    BY <1>5, <1>6, <2>1 DEF Returns, OfKind
  <2>4. ASSUME NEW r \in Returns(c, T) PROVE \E m \in X : r \in P[m]
    <3>1. r \in T
      BY DEF Returns, OfKind
    <3>2. PICK m \in X : r \in InMonth(T, m)
      BY <1>1, <3>1 DEF InMonths
    <3> QED
      BY <2>1, <3>2 DEF Returns, OfKind
  <2>5. ArePartsOf(P, X, Returns(c, T), q)
    BY <2>2, <2>3, <2>4 DEF ArePartsOf
  <2> QED
    BY <1>2, <2>5, TotalInParts DEF RowsOfCard
<1>9. PICK d : d = MonthDebts(c, T)
  OBVIOUS
<1>10. LeavesOf(s, q, d, X)
  <2> SUFFICES ASSUME NEW m \in X
               PROVE  s[m] \in Int /\ q[m] \in Int /\ d[m] = s[m] - q[m]
    BY DEF LeavesOf
  <2>1. s[m] = Total(Purchases(c, InMonth(T, m))) /\ s[m] \in Nat
    BY <1>3, <1>4, TotalIsSum DEF RowsOfCard
  <2>2. q[m] = Total(Returns(c, InMonth(T, m))) /\ q[m] \in Nat
    BY <1>3, <1>5, TotalIsSum DEF RowsOfCard
  <2>3. d[m] = s[m] - q[m]
    BY <1>1, <1>9, <2>1, <2>2 DEF MonthDebts, MonthDebt, Returns
  <2> QED
    BY <2>1, <2>2, <2>3
<1>11. SumsLeave(s, q, d, X)
  BY <1>2, <1>10, SumOfDifferences
<1>12. PICK spent \in Nat : spent = Total(Purchases(c, T))
  BY <1>2, TotalIsSum DEF RowsOfCard
<1>13. PICK returned \in Nat : returned = Total(Returns(c, T))
  BY <1>2, TotalIsSum DEF RowsOfCard
<1>14. \A m \in X : d[m] \in Int
  BY <1>10 DEF LeavesOf
<1>15. SumFunctionOnSet(d, X) = spent - returned
  BY <1>7, <1>8, <1>11, <1>12, <1>13 DEF SumsLeave
<1>16. DebtsOf(c, T, spent, returned)
  BY <1>1, <1>9, <1>12, <1>13, <1>14, <1>15, Zenon DEF DebtsOf
<1> QED
  BY <1>16

(* The months of a card's plan, in their order.                              *)
Entries(c, T) == [m \in StatRange(now) |-> CardMonth(c, m, T, now)]

InOrder(h, X) ==
    /\ \A m, k \in X : h[k].due < h[m].due <=> k < m
    /\ \A m \in X : h[m].month = m

LEMMA EntriesInOrder ==
    ASSUME now \in Shown, NEW c, NEW T
    PROVE  /\ InOrder(Entries(c, T), StatRange(now))
           /\ \A m \in StatRange(now) : Entries(c, T)[m].debt = MonthDebts(c, T)[m]
<1>1. PICK n \in Nat : n = Len(MonthLengths)
  BY CalendarAssumption, LenProperties
<1>2. PICK last \in 2 .. n : last = ThisMonth(now)
  BY <1>1, PageInCalendar DEF MonthsOfPage
<1>3. PICK first \in 1 .. last - 1 : first = last - StatMonths + 1
  BY <1>2, PageInCalendar DEF MonthsOfPage
<1>4. StatRange(now) = first .. last /\ first .. last \subseteq 1 .. n
  BY <1>2, <1>3 DEF StatRange
<1>5. PICK h : h = Entries(c, T)
  OBVIOUS
<1>6. ASSUME NEW m \in StatRange(now)
      PROVE  /\ h[m].month = m /\ h[m].debt = MonthDebt(c, m, T)
             /\ h[m].due = 2 * MonthEnd(m) + 1
  <2>1. h[m] = CardMonth(c, m, T, now)
    BY <1>5 DEF Entries
  <2>2. PlanDue(c, m, T) = 2 * MonthEnd(m) + 1
    BY DEF PlanDue, BankEquals, EndOfDay
  <2> QED
    BY <2>1, <2>2 DEF CardMonth
<1>7. ASSUME NEW k \in 1 .. n, NEW m \in 1 .. n, k < m
      PROVE  MonthEnd(k) \in Nat /\ MonthEnd(m) \in Nat /\ MonthEnd(k) < MonthEnd(m)
  <2>1. /\ MonthEnd(k) \in Nat /\ MonthEnd(m) \in Nat /\ MonthStart(m) \in Nat
        /\ MonthStart(m) <= MonthEnd(m) /\ MonthEnd(k) < MonthStart(m)
    BY <1>1, <1>7, PageInCalendar DEF MonthsOfPage
  <2> QED
    BY <2>1
<1>8. ASSUME NEW k \in StatRange(now), NEW m \in StatRange(now)
      PROVE  h[k].due < h[m].due <=> k < m
  <2>1. k \in 1 .. n /\ m \in 1 .. n
    BY <1>4
  <2>2. PICK end \in Nat : end = MonthEnd(k)
    BY <1>1, <2>1, PageInCalendar DEF MonthsOfPage
  <2>3. PICK due \in Nat : due = MonthEnd(m)
    BY <1>1, <2>1, PageInCalendar DEF MonthsOfPage
  <2>4. h[k].due = 2 * end + 1 /\ h[m].due = 2 * due + 1
    BY <1>6, <2>2, <2>3
  <2>5. CASE k < m
    BY <1>7, <2>1, <2>2, <2>3, <2>4, <2>5
  <2>6. CASE m < k
    <3>1. due < end
      BY <1>7, <2>1, <2>2, <2>3, <2>6
    <3> QED
      BY <2>1, <2>4, <2>6, <3>1
  <2>7. CASE m = k
    BY <2>1, <2>4, <2>7
  <2> QED
    BY <2>1, <2>5, <2>6, <2>7
<1>9. InOrder(h, StatRange(now))
  BY <1>6, <1>8 DEF InOrder
<1> QED
  BY <1>5, <1>6, <1>9 DEF MonthDebts

LEMMA SumOfEntries ==
    ASSUME now \in Shown, NEW c, NEW T, InMonths(T),
           \A m \in StatRange(now) : MonthDebts(c, T)[m] \in Int,
           NEW K \in SUBSET StatRange(now), NEW E, E = {Entries(c, T)[m] : m \in K}
    PROVE  SumFunction([e \in E |-> e.debt]) = SumFunctionOnSet(MonthDebts(c, T), K)
<1>1. PICK h : h = Entries(c, T)
  OBVIOUS
<1>2. PICK d : d = MonthDebts(c, T)
  OBVIOUS
<1>3. PICK f : f = [e \in E |-> e.debt]
  OBVIOUS
<1>4. IsFiniteSet(K)
  BY FS_Subset DEF InMonths
<1>5. ASSUME NEW m \in K PROVE f[h[m]] \in Int /\ d[m] = f[h[m]]
  <2>1. h[m] \in E
    BY <1>1
  <2>2. f[h[m]] = h[m].debt
    BY <1>3, <2>1
  <2>3. h[m].debt = d[m] /\ d[m] \in Int
    BY <1>1, <1>2, EntriesInOrder
  <2> QED
    BY <2>2, <2>3
<1>6. \A m, k \in K : h[m] = h[k] => m = k
  BY <1>1, EntriesInOrder DEF InOrder
<1>7. Renames(f, d, h, K)
  BY <1>4, <1>5, <1>6 DEF Renames
<1>8. SumFunctionOnSet(d, K) = SumFunctionOnSet(f, {h[m] : m \in K})
  BY <1>7, SumRenamed
<1>9. SumFunction(f) = SumFunctionOnSet(f, E)
  BY <1>3 DEF SumFunction
<1> QED
  BY <1>1, <1>2, <1>3, <1>8, <1>9

(* The debts from the first month of the calendar on.                        *)
AllDebts(c, T) == [m \in 1 .. ThisMonth(now) |->
                    IF m \in StatRange(now) THEN MonthDebts(c, T)[m] ELSE 0]
DebtsUpTo(c, T, j) ==
    FirstSum(AllDebts(c, T), j) =
        SumFunctionOnSet(MonthDebts(c, T), {k \in StatRange(now) : k <= j})

LEMMA FirstDebts ==
    ASSUME now \in Shown, NEW c, NEW T,
           \A m \in StatRange(now) : MonthDebts(c, T)[m] \in Int
    PROVE  /\ StatRange(now) \subseteq 1 .. ThisMonth(now) /\ ThisMonth(now) \in Nat
           /\ \A j \in 0 .. ThisMonth(now) : DebtsUpTo(c, T, j)
<1>1. PICK last \in Nat \ {0} : last = ThisMonth(now)
  BY PageInCalendar DEF MonthsOfPage
<1>2. PICK first \in 1 .. last - 1 : first = last - StatMonths + 1
  BY <1>1, PageInCalendar DEF MonthsOfPage
<1>3. StatRange(now) = first .. last
  BY <1>1, <1>2 DEF StatRange
<1>4. PICK d : d = MonthDebts(c, T)
  OBVIOUS
<1>5. PICK a : a = AllDebts(c, T)
  OBVIOUS
<1>6. \A m \in 1 .. last : a[m] = IF m \in StatRange(now) THEN d[m] ELSE 0
  BY <1>1, <1>4, <1>5 DEF AllDebts
<1>7. ASSUME NEW j \in 0 .. last PROVE DebtsUpTo(c, T, j)
  <2>1. PICK K : K = {k \in StatRange(now) : k <= j}
    OBVIOUS
  <2>2. K \in SUBSET (1 .. j)
    BY <1>3, <2>1
  <2>3. IsFiniteSet(1 .. j) /\ IsFiniteSet(K)
    <3>1. 1 \in Int /\ j \in Int
      OBVIOUS
    <3>2. IsFiniteSet(1 .. j)
      BY <3>1, FS_Interval
    <3> QED
      BY <2>2, <3>2, FS_Subset
  <2>4. \A m \in K : a[m] \in Int /\ a[m] = d[m]
    BY <1>4, <1>6, <2>1, <2>2
  <2>5. \A m \in (1 .. j) \ K : a[m] = 0
    BY <1>3, <1>6, <2>1
  <2>6. SumFunctionOnSet(a, 1 .. j) = SumFunctionOnSet(a, K)
    BY <2>2, <2>3, <2>4, <2>5, SumOfRest
  <2>7. SumFunctionOnSet(a, K) = SumFunctionOnSet(d, K)
    BY <2>3, <2>4, SumOfEquals
  <2> QED
    BY <1>4, <1>5, <2>1, <2>6, <2>7 DEF DebtsUpTo, FirstSum
<1> QED
  BY <1>1, <1>2, <1>3, <1>7

(* What a plan leaves of a month's debt when all payments are in time.       *)
InTime(E, payments) ==
    \A p \in payments, e \in E : e.debt > 0 => ~(p.at > e.due)
PaysBy(c, T, E, payments, paid, m) ==
    PaidOf(Entries(c, T)[m], E, payments, 0) =
        Min({NotNegative(paid - FirstSum(AllDebts(c, T), m - 1)), MonthDebts(c, T)[m]})

LEMMA PaidOfMonth ==
    ASSUME now \in Shown, NEW c \in CreditCards, NEW T, FiniteRows(T), InMonths(T),
           \A k \in StatRange(now) : MonthDebts(c, T)[k] \in Int,
           NEW E, E = {Entries(c, T)[k] : k \in StatRange(now)},
           NEW payments, payments = CollectedPayments(c, T), InTime(E, payments),
           NEW paid, paid = Total(payments),
           NEW m \in StatRange(now), MonthDebts(c, T)[m] > 0
    PROVE  PaysBy(c, T, E, payments, paid, m)
<1>1. PICK h : h = Entries(c, T)
  OBVIOUS
<1>2. PICK last \in Nat : last = ThisMonth(now) /\ StatRange(now) \subseteq 1 .. last
  BY FirstDebts
<1>3. PICK K : K = {k \in StatRange(now) : k <= m - 1}
  OBVIOUS
<1>4. h[m].debt = MonthDebts(c, T)[m] /\ h[m] \in E
  BY <1>1, EntriesInOrder
<1>5. {p \in payments : p.at <= h[m].due} = payments
  <2>1. ASSUME NEW p \in payments PROVE p.at <= h[m].due
    <3>1. ~(p.at > h[m].due)
      BY <1>4 DEF InTime
    <3>2. p.at \in Int
      BY RowMoments DEF CollectedPayments, OfKind
    <3>3. h[m].due \in Int
      <4>1. m \in 1 .. Len(MonthLengths)
        <5>1. ThisMonth(now) \in 2 .. Len(MonthLengths)
          BY PageInCalendar DEF MonthsOfPage
        <5>2. Len(MonthLengths) \in Nat
          BY CalendarAssumption, LenProperties
        <5> QED
          BY <1>2, <5>1, <5>2
      <4>2. MonthEnd(m) \in Nat
        BY <4>1, PageInCalendar DEF MonthsOfPage
      <4> QED
        BY <1>1, <4>2 DEF Entries, CardMonth, PlanDue, BankEquals, EndOfDay
    <3> QED
      BY <3>1, <3>2, <3>3
  <2> QED
    BY <2>1
<1>6. {o \in E : o.due < h[m].due} = {h[k] : k \in K}
  <2>1. \A k \in StatRange(now) : h[k].due < h[m].due <=> k < m
    BY <1>1, EntriesInOrder DEF InOrder
  <2>2. \A k \in StatRange(now) : k < m <=> k \in K
    BY <1>2, <1>3
  <2> QED
    BY <1>1, <1>3, <2>1, <2>2
<1>7. PICK earlier : earlier = {h[k] : k \in K}
  OBVIOUS
<1>8. SumFunction([o \in earlier |-> o.debt]) = SumFunctionOnSet(MonthDebts(c, T), K)
  BY <1>1, <1>3, <1>7, SumOfEntries
<1>9. FirstSum(AllDebts(c, T), m - 1) = SumFunctionOnSet(MonthDebts(c, T), K)
  <2>1. m - 1 \in 0 .. ThisMonth(now)
    BY <1>2
  <2> QED
    BY <1>3, <2>1, FirstDebts DEF DebtsUpTo
<1>10. PICK prior \in Int : prior = SumFunctionOnSet(MonthDebts(c, T), K)
  <2>1. K \subseteq StatRange(now)
    BY <1>3
  <2>2. IsFiniteSet(K)
    BY <2>1, FS_Subset DEF InMonths
  <2> QED
    BY <2>1, <2>2, SumIsInt
<1>11. PaidOf(h[m], E, payments, 0) = Min({NotNegative(paid - (0 + prior)), h[m].debt})
  BY <1>5, <1>6, <1>7, <1>8, <1>10 DEF PaidOf
<1>12. 0 + prior = prior
  OBVIOUS
<1> QED
  BY <1>1, <1>4, <1>9, <1>10, <1>11, <1>12, Zenon DEF PaysBy

(* Together the months leave what the payments do not cover.                 *)
LEMMA PlanPays ==
    ASSUME now \in Shown, NEW c \in CreditCards, NEW T, FiniteRows(T), InMonths(T),
           \A k \in StatRange(now) : MonthDebts(c, T)[k] \in Nat,
           NEW E, E = {Entries(c, T)[k] : k \in StatRange(now)},
           NEW payments, payments = CollectedPayments(c, T), InTime(E, payments),
           NEW paid \in Nat, paid = Total(payments),
           NEW A, PreDebt(c, E, T, A) = 0
    PROVE  LET debt == SumFunctionOnSet(MonthDebts(c, T), StatRange(now))
           IN  /\ debt \in Nat
               /\ Remaining(PaymentPlan(c, E, T, A)) =
                    IF paid <= debt THEN debt - paid ELSE 0
<1>1. PICK h : h = Entries(c, T)
  OBVIOUS
<1>2. PICK last \in Nat : last = ThisMonth(now) /\ StatRange(now) \subseteq 1 .. last
  BY FirstDebts
<1>3. PICK a : a = AllDebts(c, T)
  OBVIOUS
<1>4. PICK d : d = MonthDebts(c, T)
  OBVIOUS
<1>5. PICK Owing : Owing = {m \in StatRange(now) : d[m] > 0}
  OBVIOUS
<1>6. PICK line : line = [e \in E |->
        [month |-> e.month, debt |-> e.debt, paid |-> PaidOf(e, E, payments, 0),
         remaining |-> e.debt - PaidOf(e, E, payments, 0), due |-> e.due,
         isOverdue |-> e.isOverdue, daysLeft |-> e.daysLeft]]
  OBVIOUS
<1>7. PICK left : left = [m \in 1 .. last |->
        IF m \in Owing THEN d[m] - PaidOf(h[m], E, payments, 0) ELSE 0]
  OBVIOUS
<1>8. \A m \in StatRange(now) : h[m].debt = d[m] /\ h[m].month = m /\ d[m] \in Nat
  BY <1>1, <1>4, EntriesInOrder DEF InOrder
<1>9. PICK q : q = [m \in StatRange(now) |-> line[h[m]]]
  OBVIOUS
<1>10. ASSUME NEW m \in StatRange(now)
       PROVE  q[m].month = m /\ q[m].remaining = d[m] - PaidOf(h[m], E, payments, 0)
  <2>1. h[m] \in E /\ q[m] = line[h[m]]
    BY <1>1, <1>9
  <2> QED
    BY <1>6, <1>8, <2>1
<1>11. PaymentPlan(c, E, T, A) = {q[m] : m \in Owing}
  <2>1. PaymentPlan(c, E, T, A) = {line[e] : e \in {x \in E : x.debt > 0}}
    BY <1>6 DEF PaymentPlan
  <2>2. {x \in E : x.debt > 0} = {h[m] : m \in Owing}
    BY <1>1, <1>5, <1>8
  <2>3. \A m \in Owing : q[m] = line[h[m]]
    BY <1>5, <1>9
  <2> QED
    BY <2>1, <2>2, <2>3
<1>12. ASSUME NEW m \in 1 .. last
       PROVE  /\ a[m] \in Nat /\ left[m] \in Nat
              /\ left[m] = IF paid <= FirstSum(a, m - 1) THEN a[m]
                           ELSE IF paid - FirstSum(a, m - 1) >= a[m] THEN 0
                           ELSE a[m] - (paid - FirstSum(a, m - 1))
  <2>1. PICK debt \in Nat : debt = a[m] /\ (m \in StatRange(now) => debt = d[m])
                            /\ (m \notin StatRange(now) => debt = 0)
    BY <1>2, <1>3, <1>4 DEF AllDebts
  <2>2. PICK prior \in Int : prior = FirstSum(a, m - 1)
    <3>1. m - 1 \in 0 .. last
      OBVIOUS
    <3>2. PICK K : K = {k \in StatRange(now) : k <= m - 1}
      OBVIOUS
    <3>3. IsFiniteSet(K) /\ \A k \in K : MonthDebts(c, T)[k] \in Int
      BY <3>2, FS_Subset DEF InMonths
    <3>4. FirstSum(a, m - 1) = SumFunctionOnSet(MonthDebts(c, T), K)
      BY <1>2, <1>3, <3>1, <3>2, FirstDebts DEF DebtsUpTo
    <3> QED
      BY <3>3, <3>4, SumIsInt
  <2>3. CASE m \in Owing
    <3>1. m \in StatRange(now) /\ debt > 0 /\ debt = d[m]
      BY <1>5, <2>1, <2>3
    <3>2. PaidOf(h[m], E, payments, 0) = Min({NotNegative(paid - prior), debt})
      BY <1>1, <1>3, <1>4, <2>2, <3>1, PaidOfMonth DEF PaysBy
    <3>3. PICK over \in Nat : /\ over = NotNegative(paid - prior)
                              /\ over = IF paid - prior >= 0 THEN paid - prior ELSE 0
      BY NotNegativeIs
    <3>4. Min({over, debt}) = IF over <= debt THEN over ELSE debt
      BY PairHasEnds
    <3>5. left[m] = debt - (IF over <= debt THEN over ELSE debt)
      BY <1>7, <2>3, <3>1, <3>2, <3>3, <3>4
    <3>6. debt - (IF over <= debt THEN over ELSE debt) =
            IF paid <= prior THEN debt
            ELSE IF paid - prior >= debt THEN 0 ELSE debt - (paid - prior)
      BY <3>3
    <3> QED
      BY <2>1, <2>2, <3>5, <3>6
  <2>4. CASE m \notin Owing
    <3>1. left[m] = 0 /\ debt = 0
      BY <1>5, <1>7, <2>1, <2>4
    <3> QED
      BY <2>1, <2>2, <3>1
  <2> QED
    BY <2>3, <2>4
<1>13. OldestFirst(a, left, paid, last)
  BY <1>12 DEF OldestFirst
<1>14. PaidOff(a, left, paid, last)
  BY <1>13, PayingOldestFirst
<1>15. FirstSum(a, last) = SumFunctionOnSet(d, StatRange(now))
  <2>1. {k \in StatRange(now) : k <= last} = StatRange(now)
    BY <1>2
  <2> QED
    BY <1>2, <1>3, <1>4, <2>1, FirstDebts DEF DebtsUpTo
<1>16. Remaining(PaymentPlan(c, E, T, A)) = FirstSum(left, last)
  <2>1. PICK plan : plan = {q[m] : m \in Owing}
    OBVIOUS
  <2>2. PICK f : f = [e \in plan |-> e.remaining]
    OBVIOUS
  <2>3. Owing \in SUBSET (1 .. last) /\ IsFiniteSet(1 .. last) /\ IsFiniteSet(Owing)
    <3>1. Owing \in SUBSET (1 .. last)
      BY <1>2, <1>5
    <3>2. 1 \in Int /\ last \in Int
      OBVIOUS
    <3>3. IsFiniteSet(1 .. last)
      BY <3>2, FS_Interval
    <3> QED
      BY <3>1, <3>3, FS_Subset
  <2>4. ASSUME NEW m \in Owing PROVE f[q[m]] \in Int /\ left[m] = f[q[m]]
    <3>1. q[m] \in plan /\ m \in StatRange(now) /\ m \in 1 .. last
      BY <1>2, <1>5, <2>1
    <3>2. f[q[m]] = q[m].remaining
      BY <2>2, <3>1
    <3>3. q[m].remaining = d[m] - PaidOf(h[m], E, payments, 0)
      BY <1>10, <3>1
    <3>4. left[m] = d[m] - PaidOf(h[m], E, payments, 0)
      BY <1>7, <3>1
    <3> QED
      BY <1>12, <3>1, <3>2, <3>3, <3>4
  <2>5. \A m, k \in Owing : q[m] = q[k] => m = k
    <3>1. \A m \in Owing : q[m].month = m
      BY <1>5, <1>10
    <3> QED
      BY <3>1
  <2>6. Renames(f, left, q, Owing)
    BY <2>3, <2>4, <2>5 DEF Renames
  <2>7. SumFunctionOnSet(left, Owing) = SumFunctionOnSet(f, plan)
    BY <2>1, <2>6, SumRenamed
  <2>8. \A m \in (1 .. last) \ Owing : left[m] = 0
    BY <1>7
  <2>9. SumFunctionOnSet(left, 1 .. last) = SumFunctionOnSet(left, Owing)
    <3>1. \A m \in Owing : left[m] \in Int
      BY <2>4
    <3> QED
      BY <2>3, <2>8, <3>1, SumOfRest
  <2>10. Remaining(plan) = SumFunctionOnSet(f, plan)
    BY <2>2 DEF Remaining, SumFunction
  <2> QED
    BY <1>11, <2>1, <2>7, <2>9, <2>10 DEF FirstSum
<1> QED
  BY <1>4, <1>14, <1>15, <1>16 DEF PaidOff

LEMMA RowsOfCardSplit ==
    ASSUME now \in Shown, FiniteRows(rows), NEW c,
           \A r \in Later(rows) : c \notin {r.account, r.to},
           NEW T, T = InPeriod(rows, now),
           NEW before, before = {r \in rows : r.at < StartOfDay(StatStart(now))}
    PROVE  /\ before \cap T = {}
           /\ Purchases(c, rows) = Purchases(c, before) \cup Purchases(c, T)
           /\ Repayments(c, rows) = Repayments(c, before) \cup Repayments(c, T)
<1>1. PICK today \in Int : today = Today(now)
  BY PageInCalendar DEF MonthsOfPage
<1>2. PICK from \in Nat : from = StatStart(now)
  <2>1. PICK n \in Nat : n = Len(MonthLengths)
    BY CalendarAssumption, LenProperties
  <2>2. PICK last \in 2 .. n : last = ThisMonth(now)
    BY <2>1, PageInCalendar DEF MonthsOfPage
  <2>3. PICK first \in 1 .. last - 1 : first = last - StatMonths + 1
    BY <2>2, PageInCalendar DEF MonthsOfPage
  <2>4. first \in 1 .. n
    OBVIOUS
  <2>5. MonthStart(first) \in Nat
    BY <2>1, <2>4, PageInCalendar DEF MonthsOfPage
  <2> QED
    BY <2>2, <2>3, <2>5, PageInCalendar DEF MonthsOfPage
<1>3. \A r : r \in T <=> /\ r \in rows /\ r.at \in Int
                         /\ 2 * from <= r.at /\ r.at <= 2 * today + 1
  BY <1>1, <1>2, RowsBetween DEF InPeriod
<1>4. before = {r \in rows : r.at < 2 * from}
  BY <1>2 DEF StartOfDay
<1>5. \A r \in rows : r.at \in Int
  BY RowMoments
<1>6. before \cap T = {}
  BY <1>3, <1>4
<1>7. ASSUME NEW r \in rows, c \in {r.account, r.to} PROVE r \in before \cup T
  <2>1. ~(r.at > 2 * today + 1)
    BY <1>1, <1>7 DEF Later, EndOfDay
  <2> QED
    BY <1>3, <1>4, <1>5, <2>1
<1>8. before \subseteq rows /\ T \subseteq rows
  BY <1>3, <1>4
<1>9. ASSUME NEW r
      PROVE  r \in Purchases(c, rows) <=> r \in Purchases(c, before) \cup Purchases(c, T)
  BY <1>7, <1>8 DEF Purchases, OfKind
<1>10. ASSUME NEW r
       PROVE  r \in Repayments(c, rows) <=> r \in Repayments(c, before) \cup Repayments(c, T)
  BY <1>7, <1>8 DEF Repayments, OfKind
<1> QED
  BY <1>6, <1>9, <1>10

LEMMA PlanOfCard ==
    ASSUME now \in Shown, FiniteRows(rows), NEW c \in CreditCards PROVE PlanAgrees(c)
<1>1. PICK T : T = InPeriod(rows, now)
  OBVIOUS
<1>2. PICK E : E = CardMonths(c, rows, now)
  OBVIOUS
<1>3. PICK payments : payments = CollectedPayments(c, T)
  OBVIOUS
<1>4. PICK before : before = {r \in rows : r.at < StartOfDay(StatStart(now))}
  OBVIOUS
<1> SUFFICES ASSUME ~MovedOut(c),
                    \A r \in Later(rows) : c \notin {r.account, r.to},
                    \A p \in payments, e \in E : ~(e.debt > 0 /\ p.at > e.due),
                    \A e \in E : ~(e.debt < 0),
                    Balance(c, before) = CreditLimit[c]
             PROVE  Remaining(CardPlan(c, rows, now)) = Lacks(c)
  BY <1>1, <1>2, <1>3, <1>4, Zenon DEF PlanAgrees
<1>5. FiniteRows(T) /\ FiniteRows(before) /\ InMonths(T)
  BY <1>1, <1>4, DaysOfRows, PartsOfRows, PeriodInMonths DEF InPeriod
<1>6. RowsOfCard(c, T) /\ RowsOfCard(c, before)
  BY <1>5, CardRows
<1>7. Keeps(c, rows) /\ Keeps(c, before)
  BY <1>4 DEF MovedOut, Keeps, OfKind
<1>8. E = {Entries(c, T)[m] : m \in StatRange(now)}
  BY <1>1, <1>2 DEF CardMonths, Entries
<1>9. PICK spent \in Nat, returned \in Nat : DebtsOf(c, T, spent, returned)
  BY <1>5, DebtsAddUp
<1>10. PICK paid \in Nat : paid = Total(payments)
  BY <1>3, <1>6, TotalIsSum DEF RowsOfCard
<1>11. Total(Repayments(c, T)) = paid + returned
  BY <1>3, <1>6, <1>9, <1>10, TotalOfTwo DEF RowsOfCard, DebtsOf
<1>12. PICK oldSpent \in Nat, oldRepaid \in Nat : CardBalance(c, before, oldSpent, oldRepaid)
  BY <1>5, BalanceOfCard
<1>13. PICK allSpent \in Nat, allRepaid \in Nat : CardBalance(c, rows, allSpent, allRepaid)
  BY BalanceOfCard
<1>14. /\ before \cap T = {}
       /\ Purchases(c, rows) = Purchases(c, before) \cup Purchases(c, T)
       /\ Repayments(c, rows) = Repayments(c, before) \cup Repayments(c, T)
  BY <1>1, <1>4, RowsOfCardSplit
<1>15. allSpent = oldSpent + spent
  <2>1. Purchases(c, before) \cap Purchases(c, T) = {}
    BY <1>14 DEF Purchases, OfKind
  <2>2. Total(Purchases(c, rows)) = Total(Purchases(c, before)) + Total(Purchases(c, T))
    BY <1>6, <1>14, <2>1, TotalOfTwo DEF RowsOfCard
  <2> QED
    BY <1>9, <1>12, <1>13, <2>2 DEF CardBalance, DebtsOf
<1>16. allRepaid = oldRepaid + (paid + returned)
  <2>1. Repayments(c, before) \cap Repayments(c, T) = {}
    BY <1>14 DEF Repayments, OfKind
  <2>2. Total(Repayments(c, rows)) = Total(Repayments(c, before)) + Total(Repayments(c, T))
    BY <1>6, <1>14, <2>1, TotalOfTwo DEF RowsOfCard
  <2> QED
    BY <1>11, <1>12, <1>13, <2>2 DEF CardBalance
<1>17. PICK opening \in Int : opening = Opening[c]
  BY OperationsAssumption
<1>18. PICK limit \in Nat : limit = CreditLimit[c]
  BY CardsAssumption
<1>19. (opening + oldRepaid) - oldSpent = limit
  BY <1>7, <1>12, <1>17, <1>18 DEF CardBalance
<1>20. Balance(c, rows) = (opening + allRepaid) - allSpent
  BY <1>7, <1>13, <1>17 DEF CardBalance
<1>21. PICK balance \in Int : balance = Balance(c, rows)
  BY <1>20
<1>22. limit - balance = spent - (paid + returned)
  BY <1>15, <1>16, <1>19, <1>20, <1>21
<1>23. \A m \in StatRange(now) : MonthDebts(c, T)[m] \in Nat
  <2> SUFFICES ASSUME NEW m \in StatRange(now) PROVE MonthDebts(c, T)[m] \in Nat
    OBVIOUS
  <2>1. PICK e : e = Entries(c, T)[m]
    OBVIOUS
  <2>2. e \in E /\ e.debt = MonthDebts(c, T)[m]
    BY <1>8, <2>1, EntriesInOrder
  <2>3. MonthDebts(c, T)[m] \in Int /\ ~(MonthDebts(c, T)[m] < 0)
    BY <1>9, <2>2 DEF DebtsOf
  <2> QED
    BY <2>3
<1>24. SumFunctionOnSet(MonthDebts(c, T), StatRange(now)) = spent - returned
  BY <1>9 DEF DebtsOf
<1>25. SumFunction([e \in E |-> e.debt]) = spent - returned
  <2>1. \A m \in StatRange(now) : MonthDebts(c, T)[m] \in Int
    BY <1>23
  <2> QED
    BY <1>5, <1>8, <1>24, <2>1, SumOfEntries
<1>26. PreDebt(c, E, T, rows) = 0
  <2>1. CASE limit = 0
    BY <1>18, <2>1 DEF PreDebt
  <2>2. CASE limit # 0
    <3>1. PreDebt(c, E, T, rows) = NotNegative((limit - balance) + (paid - (spent - returned)))
      BY <1>3, <1>10, <1>18, <1>21, <1>25, <2>2 DEF PreDebt
    <3>2. (limit - balance) + (paid - (spent - returned)) = 0
      BY <1>22
    <3>3. NotNegative(0) = 0
      BY NotNegativeIs
    <3> QED
      BY <3>1, <3>2, <3>3
  <2> QED
    BY <2>1, <2>2
<1>27. PICK debt : debt = SumFunctionOnSet(MonthDebts(c, T), StatRange(now))
  OBVIOUS
<1>28. /\ debt \in Nat
       /\ Remaining(PaymentPlan(c, E, T, rows)) = IF paid <= debt THEN debt - paid ELSE 0
  <2>1. InTime(E, payments)
    BY DEF InTime
  <2> QED
    BY <1>3, <1>5, <1>8, <1>10, <1>23, <1>26, <1>27, <2>1, PlanPays
<1>29. Lacks(c) = IF limit - balance >= 0 THEN limit - balance ELSE 0
  BY <1>18, <1>21, NotNegativeIs DEF Lacks
<1>30. CardPlan(c, rows, now) = PaymentPlan(c, E, T, rows)
  BY <1>1, <1>2 DEF CardPlan
<1>31. debt = spent - returned
  BY <1>24, <1>27
<1>32. (IF paid <= debt THEN debt - paid ELSE 0)
            = IF limit - balance >= 0 THEN limit - balance ELSE 0
  BY <1>22, <1>28, <1>31
<1> QED
  BY <1>28, <1>29, <1>30, <1>32, Zenon

(* The debt of a card, what its plan leaves to pay and its final debt of this*)
(* month are what its balance lacks, but for the cases named, whatever the   *)
(* cards, limits, banks, rows, calendar and moment                           *)
(* (CreditCalculationService and the plan of summary_statistics_service).    *)
THEOREM CardDebtsAlwaysAgree == Spec => []CardDebtsAgree
<1>1. PagesInv /\ DataShown => CardDebtsAgree
  <2> SUFFICES ASSUME PagesInv, DataShown, AtFirst, NEW c \in CreditCards
               PROVE  CardAgrees(c)
    BY DEF CardDebtsAgree
  <2>1. now \in Shown /\ FiniteRows(rows)
    BY DEF AtFirst, DataShown, FiniteRows, PagesInv, PagesTypeOK, DataOK
  <2> QED
    BY <2>1, DebtsOfCard, PlanOfCard, GraceOfCard DEF CardAgrees
<1> QED
  BY <1>1, PagesInvariant, DataAlwaysShown, PTL

-----------------------------------------------------------------------------
(* Rounding.                                                                 *)
LEMMA FloorIs ==
    ASSUME NEW n \in Int, NEW d \in Nat \ {0}
    PROVE  /\ n \div d \in Int
           /\ 0 <= n - d * (n \div d) /\ n - d * (n \div d) < d
           /\ n % d = n - d * (n \div d)
OBVIOUS

(* A multiple of a number is as large as what it is a multiple of.           *)
LEMMA MultiplesInOrder ==
    ASSUME NEW a \in Int, NEW b \in Int, NEW d \in Nat \ {0}
    PROVE  a * d < b * d <=> a < b
OBVIOUS

(* What is rounded is half of the divisor away at most, ...                  *)
Nearest(n, d, r) == 2 * (n - d * r) <= d /\ 2 * (d * r - n) <= d
RoundedOf(n, d, r) ==
    \E floor \in Int :
        LET twice == 2 * (n - d * floor)
        IN  /\ 0 <= n - d * floor /\ n - d * floor < d
            /\ r = IF twice > d \/ (twice = d /\ floor % 2 = 1) THEN floor + 1 ELSE floor

LEMMA RoundedIs ==
    ASSUME NEW n \in Int, NEW d \in Nat \ {0}
    PROVE  /\ Rounded(n, d) \in Int /\ RoundedOf(n, d, Rounded(n, d))
           /\ Nearest(n, d, Rounded(n, d))
<1>1. PICK floor \in Int : floor = n \div d
  BY FloorIs
<1>2. PICK rest \in Int : rest = n - d * floor
  OBVIOUS
<1>3. 0 <= rest /\ rest < d
  BY <1>1, <1>2, FloorIs
<1>4. PICK r : r = Rounded(n, d)
  OBVIOUS
<1>5. r = IF 2 * rest > d \/ (2 * rest = d /\ floor % 2 = 1) THEN floor + 1 ELSE floor
  BY <1>1, <1>2, <1>4 DEF Rounded
<1>6. RoundedOf(n, d, r)
  BY <1>2, <1>3, <1>5 DEF RoundedOf
<1>7. CASE r = floor
  <2>1. 2 * rest <= d
    BY <1>3, <1>5, <1>7
  <2> QED
    BY <1>2, <1>3, <1>4, <1>6, <1>7, <2>1 DEF Nearest
<1>8. CASE r = floor + 1
  <2>1. 2 * rest >= d
    BY <1>3, <1>5, <1>8
  <2>2. d * r = d * floor + d
    BY <1>8
  <2> QED
    BY <1>2, <1>3, <1>4, <1>6, <1>8, <2>1, <2>2 DEF Nearest
<1> QED
  BY <1>5, <1>7, <1>8

(* ... a multiple of the divisor is not changed, and order is kept.          *)
LEMMA RoundedMultiple ==
    ASSUME NEW k \in Int, NEW d \in Nat \ {0} PROVE Rounded(d * k, d) = k
<1>1. PICK r \in Int : r = Rounded(d * k, d)
  BY RoundedIs
<1>2. 2 * (d * k - d * r) <= d /\ 2 * (d * r - d * k) <= d
  BY <1>1, RoundedIs DEF Nearest
<1>3. d * k - d * r = (k - r) * d /\ d * r - d * k = (r - k) * d
  OBVIOUS
<1>4. ~(k - r >= 1)
  <2> SUFFICES ASSUME k - r >= 1 PROVE FALSE
    OBVIOUS
  <2>1. (k - r) * d >= d
    OBVIOUS
  <2> QED
    BY <1>2, <1>3, <2>1
<1>5. ~(r - k >= 1)
  <2> SUFFICES ASSUME r - k >= 1 PROVE FALSE
    OBVIOUS
  <2>1. (r - k) * d >= d
    OBVIOUS
  <2> QED
    BY <1>2, <1>3, <2>1
<1> QED
  BY <1>1, <1>4, <1>5

LEMMA RoundedInOrder ==
    ASSUME NEW n \in Int, NEW d \in Nat \ {0}, NEW m \in Int, NEW e \in Nat \ {0},
           n * e <= m * d
    PROVE  Rounded(n, d) <= Rounded(m, e)
<1>1. PICK r \in Int : r = Rounded(n, d) /\ RoundedOf(n, d, r)
  BY RoundedIs
<1>2. PICK s \in Int : s = Rounded(m, e) /\ RoundedOf(m, e, s)
  BY RoundedIs
<1>3. PICK p \in Int, a \in Int :
        /\ a = n - d * p /\ 0 <= a /\ a < d
        /\ r = IF 2 * a > d \/ (2 * a = d /\ p % 2 = 1) THEN p + 1 ELSE p
  BY <1>1 DEF RoundedOf
<1>4. PICK q \in Int, b \in Int :
        /\ b = m - e * q /\ 0 <= b /\ b < e
        /\ s = IF 2 * b > e \/ (2 * b = e /\ q % 2 = 1) THEN q + 1 ELSE q
  BY <1>2 DEF RoundedOf
<1>5. PICK D \in Nat \ {0} : D = d * e
  OBVIOUS
<1>6. PICK x \in Int : x = a * e
  OBVIOUS
<1>7. PICK y \in Int : y = b * d
  OBVIOUS
<1>8. n * e = p * D + x
  <2>1. n = d * p + a
    BY <1>3
  <2>2. n * e = d * p * e + a * e
    BY <2>1
  <2> QED
    BY <1>5, <1>6, <2>2
<1>9. m * d = q * D + y
  <2>1. m = e * q + b
    BY <1>4
  <2>2. m * d = e * q * d + b * d
    BY <2>1
  <2> QED
    BY <1>5, <1>7, <2>2
<1>10. 0 <= x /\ y < D
  <2>1. 0 <= a * e
    BY <1>3
  <2>2. b * d < e * d
    BY <1>4, MultiplesInOrder
  <2> QED
    BY <1>5, <1>6, <1>7, <2>1, <2>2
<1>11. p * D < (q + 1) * D
  <2>1. p * D + x <= q * D + y
    BY <1>8, <1>9
  <2>2. (q + 1) * D = q * D + D
    OBVIOUS
  <2> QED
    BY <1>10, <2>1, <2>2
<1>12. p <= q
  <2>1. q + 1 \in Int
    OBVIOUS
  <2>2. p < q + 1
    BY <1>11, <2>1, MultiplesInOrder
  <2> QED
    BY <2>2
<1>13. CASE p < q
  BY <1>1, <1>2, <1>3, <1>4, <1>13
<1>14. CASE p = q
  <2>1. x <= y
    BY <1>8, <1>9, <1>14
  <2>2. CASE 2 * a > d
    <3>1. D < (2 * a) * e
      <4>1. d * e < (2 * a) * e
        BY <2>2, MultiplesInOrder
      <4> QED
        BY <1>5, <4>1
    <3>2. (2 * a) * e = 2 * x /\ (2 * b) * d = 2 * y
      BY <1>6, <1>7
    <3>3. e * d < (2 * b) * d
      BY <1>5, <2>1, <3>1, <3>2
    <3>4. e < 2 * b
      BY <3>3, MultiplesInOrder
    <3> QED
      BY <1>1, <1>2, <1>3, <1>4, <1>14, <3>4
  <2>3. CASE 2 * a = d
    <3>1. D = (2 * a) * e
      BY <1>5, <2>3
    <3>2. (2 * a) * e = 2 * x /\ (2 * b) * d = 2 * y
      BY <1>6, <1>7
    <3>3. ~((2 * b) * d < e * d)
      BY <1>5, <2>1, <3>1, <3>2
    <3>4. ~(2 * b < e)
      BY <3>3, MultiplesInOrder
    <3> QED
      BY <1>1, <1>2, <1>3, <1>4, <1>14, <2>3, <3>4
  <2>4. CASE 2 * a < d
    BY <1>1, <1>2, <1>3, <1>4, <1>14, <2>4
  <2> QED
    BY <2>2, <2>3, <2>4
<1> QED
  BY <1>12, <1>13, <1>14

(* The parts of a number, rounded, differ by one from it rounded at most.    *)
LEMMA RoundedParts ==
    ASSUME NEW d \in Nat \ {0}, NEW x \in Int, NEW y \in Int,
           NEW a \in Int, NEW b \in Int, NEW c \in Int,
           Nearest(x + y, d, a), Nearest(x, d, b), Nearest(y, d, c)
    PROVE  a - b - c \in -1 .. 1
<1>1. PICK k \in Int : k = a - b - c
  OBVIOUS
<1>2. k * d = d * a - d * b - d * c
  BY <1>1
<1>3. 2 * (k * d) <= 3 * d /\ -(3 * d) <= 2 * (k * d)
  BY <1>2 DEF Nearest
<1>4. ~(k >= 2)
  <2> SUFFICES ASSUME k >= 2 PROVE FALSE
    OBVIOUS
  <2>1. k * d >= 2 * d
    OBVIOUS
  <2> QED
    BY <1>3, <2>1
<1>5. ~(k <= -2)
  <2> SUFFICES ASSUME k <= -2 PROVE FALSE
    OBVIOUS
  <2>1. k * d <= -2 * d
    OBVIOUS
  <2> QED
    BY <1>3, <2>1
<1> QED
  BY <1>1, <1>4, <1>5

-----------------------------------------------------------------------------
(* The schedules of the loans.                                               *)
IsPower(p, base, n) ==
    p = [i \in 0 .. n |-> IF i = 0 THEN 1 ELSE base * p[i - 1]]

LEMMA PowerIs ==
    ASSUME NEW base \in Nat, NEW n \in Nat
    PROVE  \E p : IsPower(p, base, n) /\ Power(base, n) = p[n]
<1>1. PICK do : do = [x \in Nat |-> base * x]
  OBVIOUS
<1>2. do \in [Nat -> Nat] /\ 1 \in Nat
  BY <1>1
<1>3. PICK f \in [0 .. n -> Nat] : IsIterated(f, 1, do, n)
  BY <1>2, IteratesIn
<1>4. ASSUME NEW i \in 0 .. n PROVE f[i] = IF i = 0 THEN 1 ELSE base * f[i - 1]
  <2>1. CASE i = 0
    BY <1>3, <2>1 DEF IsIterated
  <2>2. CASE i # 0
    <3>1. i - 1 \in 0 .. n
      BY <2>2
    <3>2. f[i - 1] \in Nat
      BY <1>3, <3>1
    <3>3. f[i] = do[f[i - 1]]
      BY <1>3, <2>2 DEF IsIterated
    <3> QED
      BY <1>1, <2>2, <3>2, <3>3
  <2> QED
    BY <2>1, <2>2
<1>5. f = [i \in 0 .. n |-> IF i = 0 THEN 1 ELSE base * f[i - 1]]
  <2>1. f = [i \in 0 .. n |-> f[i]]
    BY <1>3
  <2> QED
    BY <1>4, <2>1
<1>6. IsPower(f, base, n)
  BY <1>5 DEF IsPower
<1>7. PICK p : p = (CHOOSE q : IsPower(q, base, n))
  OBVIOUS
<1>8. IsPower(p, base, n)
  BY <1>6, <1>7
<1>9. Power(base, n) = p[n]
  BY <1>7 DEF Power, IsPower
<1> QED
  BY <1>8, <1>9

LEMMA PowersInOrder ==
    ASSUME NEW n \in Nat \ {0}
    PROVE  /\ Power(RateWhole, n) \in Nat \ {0} /\ Power(RateWhole + RatePart, n) \in Nat
           /\ Power(RateWhole, n) < Power(RateWhole + RatePart, n)
<1>1. PICK W \in Nat \ {0} : W = RateWhole
  BY LoansAssumption
<1>2. PICK B \in Nat : B = RateWhole + RatePart /\ W < B
  BY <1>1, LoansAssumption
<1>3. PICK p : IsPower(p, W, n) /\ Power(W, n) = p[n]
  BY PowerIs
<1>4. PICK q : IsPower(q, B, n) /\ Power(B, n) = q[n]
  BY PowerIs
<1>5. PICK G : G = {i \in Nat : i <= n =>
                        /\ p[i] \in Nat \ {0} /\ q[i] \in Nat \ {0}
                        /\ p[i] <= q[i] /\ (i # 0 => p[i] < q[i])}
  OBVIOUS
<1>6. ASSUME NEW i \in Nat, \A k \in Nat : k < i => k \in G PROVE i \in G
  <2>1. CASE i = 0
    BY <1>3, <1>4, <1>5, <2>1 DEF IsPower
  <2>2. CASE i \in 1 .. n
    <3>1. i - 1 \in Nat /\ i - 1 < i /\ i - 1 <= n /\ i \in 0 .. n /\ i # 0
      BY <2>2
    <3>2. PICK x \in Nat \ {0} : x = p[i - 1]
      BY <1>5, <1>6, <3>1
    <3>3. PICK y \in Nat \ {0} : y = q[i - 1] /\ x <= y
      BY <1>5, <1>6, <3>1, <3>2
    <3>4. p[i] = W * x /\ q[i] = B * y
      BY <1>3, <1>4, <3>1, <3>2, <3>3 DEF IsPower
    <3>5. W * x > 0 /\ B * y > 0 /\ W * x <= W * y /\ W * y < B * y
      <4>1. W * x > 0 /\ W * x <= W * y
        BY <3>3
      <4>2. W * y < B * y
        BY <1>2, MultiplesInOrder
      <4> QED
        BY <4>1, <4>2
    <3> QED
      BY <1>5, <3>4, <3>5
  <2>3. CASE i > n
    BY <1>5, <2>3
  <2> QED
    BY <2>1, <2>2, <2>3
<1>7. Nat \subseteq G
  BY <1>6, NumberInduction
<1>8. n \in G
  BY <1>7
<1> QED
  BY <1>1, <1>2, <1>3, <1>4, <1>5, <1>8

LEMMA InterestIs ==
    ASSUME NEW owed \in Int, NEW over \in Nat \ {0}
    PROVE  /\ owed * RatePart \in Int /\ RateWhole * over \in Nat \ {0}
           /\ Interest(owed, over) \in Int
<1>1. PICK x \in Int : x = owed * RatePart
  BY LoansAssumption
<1>2. PICK d \in Nat \ {0} : d = RateWhole * over
  <2>1. PICK W \in Nat \ {0} : W = RateWhole
    BY LoansAssumption
  <2>2. W * over \in Nat \ {0}
    OBVIOUS
  <2> QED
    BY <2>1, <2>2
<1>3. Rounded(x, d) \in Int
  BY RoundedIs
<1> QED
  BY <1>1, <1>2, <1>3 DEF Interest

LEMMA InterestInOrder ==
    ASSUME NEW a \in Int, NEW b \in Int, a <= b PROVE Interest(a, 1) <= Interest(b, 1)
<1>1. PICK P \in Nat \ {0} : P = RatePart
  BY LoansAssumption
<1>2. PICK d \in Nat \ {0} : d = RateWhole * 1
  BY InterestIs
<1>3. a * P <= b * P
  OBVIOUS
<1>4. PICK x \in Int : x = a * P
  OBVIOUS
<1>5. PICK y \in Int : y = b * P
  OBVIOUS
<1>6. x * d <= y * d
  BY <1>3, <1>4, <1>5
<1>7. Rounded(x, d) <= Rounded(y, d)
  BY <1>6, RoundedInOrder
<1> QED
  BY <1>1, <1>2, <1>4, <1>5, <1>7 DEF Interest

(* The equal payment covers the interest of the whole amount.                *)
LEMMA PaymentIs ==
    ASSUME NEW l \in Loan
    PROVE  AnnuityPayment(l) \in Int /\ Interest(l.amount, 1) <= AnnuityPayment(l)
<1>1. PICK P \in Nat \ {0} : P = RatePart
  BY LoansAssumption
<1>2. PICK W \in Nat \ {0} : W = RateWhole
  BY LoansAssumption
<1>3. PICK a \in Nat \ {0} : a = l.amount
  BY DEF Loan
<1>4. PICK n \in Nat \ {0} : n = l.months
  BY DEF Loan
<1>5. PICK F \in Nat \ {0} : F = Power(RateWhole, n)
  BY PowersInOrder
<1>6. PICK G \in Nat : G = Power(RateWhole + RatePart, n) /\ F < G
  BY <1>5, PowersInOrder
<1>7. PICK x \in Nat : x = a * P
  OBVIOUS
<1>8. PICK y \in Nat : y = x * G
  OBVIOUS
<1>9. PICK e \in Nat \ {0} : e = W * (G - F)
  <2>1. G - F \in Nat \ {0}
    BY <1>6
  <2>2. W * (G - F) \in Nat \ {0}
    BY <2>1
  <2> QED
    BY <2>2
<1>10. x * e <= y * W
  <2>1. PICK z \in Nat : z = x * W
    OBVIOUS
  <2>2. x * e = z * (G - F)
    BY <1>9, <2>1
  <2>3. y * W = z * G
    BY <1>8, <2>1
  <2>4. z * (G - F) <= z * G
    <3>1. z * (G - F) = z * G - z * F
      OBVIOUS
    <3>2. z * F >= 0
      OBVIOUS
    <3> QED
      BY <3>1, <3>2
  <2> QED
    BY <2>2, <2>3, <2>4
<1>11. Rounded(x, W) <= Rounded(y, e) /\ Rounded(y, e) \in Int
  BY <1>10, RoundedInOrder, RoundedIs
<1>12. AnnuityPayment(l) = Rounded(y, e)
  BY <1>1, <1>2, <1>3, <1>4, <1>5, <1>6, <1>7, <1>8, <1>9 DEF AnnuityPayment
<1>13. Interest(l.amount, 1) = Rounded(x, W)
  <2>1. W * 1 = W
    OBVIOUS
  <2> QED
    BY <1>1, <1>2, <1>3, <1>7, <2>1 DEF Interest
<1> QED
  BY <1>11, <1>12, <1>13

IsOwed(f, l) ==
    f = [i \in 0 .. l.months - 1 |->
            IF i = 0 THEN l.amount
            ELSE f[i - 1] - (AnnuityPayment(l) - Interest(f[i - 1], 1))]

LEMMA OwedIs ==
    ASSUME NEW l \in Loan
    PROVE  IsOwed(Owed(l), l) /\ \A i \in 0 .. l.months - 1 : Owed(l)[i] \in Int
<1>1. PICK n \in Nat : n = l.months - 1
  BY DEF Loan
<1>2. PICK pay \in Int : pay = AnnuityPayment(l)
  BY PaymentIs
<1>3. PICK a \in Int : a = l.amount
  BY DEF Loan
<1>4. PICK do : do = [x \in Int |-> x - (pay - Interest(x, 1))]
  OBVIOUS
<1>5. do \in [Int -> Int]
  <2>1. \A x \in Int : x - (pay - Interest(x, 1)) \in Int
    BY InterestIs
  <2> QED
    BY <1>4, <2>1
<1>6. PICK f \in [0 .. n -> Int] : IsIterated(f, a, do, n)
  BY <1>5, IteratesIn
<1>7. ASSUME NEW i \in 0 .. n
      PROVE  f[i] = IF i = 0 THEN a ELSE f[i - 1] - (pay - Interest(f[i - 1], 1))
  <2>1. CASE i = 0
    BY <1>6, <2>1 DEF IsIterated
  <2>2. CASE i # 0
    <3>1. i - 1 \in 0 .. n
      BY <2>2
    <3>2. f[i - 1] \in Int
      BY <1>6, <3>1
    <3>3. f[i] = do[f[i - 1]]
      BY <1>6, <2>2 DEF IsIterated
    <3> QED
      BY <1>4, <2>2, <3>2, <3>3
  <2> QED
    BY <2>1, <2>2
<1>8. f = [i \in 0 .. n |-> IF i = 0 THEN a ELSE f[i - 1] - (pay - Interest(f[i - 1], 1))]
  <2>1. f = [i \in 0 .. n |-> f[i]]
    BY <1>6
  <2> QED
    BY <1>7, <2>1
<1>9. IsOwed(f, l)
  BY <1>1, <1>2, <1>3, <1>8 DEF IsOwed
<1>10. PICK o : o = (CHOOSE g : IsOwed(g, l))
  OBVIOUS
<1>11. IsOwed(o, l) /\ o = Owed(l)
  BY <1>9, <1>10 DEF Owed, IsOwed
<1>12. o = [i \in 0 .. n |-> IF i = 0 THEN a ELSE o[i - 1] - (pay - Interest(o[i - 1], 1))]
  BY <1>1, <1>2, <1>3, <1>11 DEF IsOwed
<1>13. PICK G : G = {i \in Nat : i <= n => o[i] \in Int}
  OBVIOUS
<1>14. ASSUME NEW i \in Nat, \A k \in Nat : k < i => k \in G PROVE i \in G
  <2>1. CASE i = 0
    BY <1>12, <1>13, <2>1
  <2>2. CASE i \in 1 .. n
    <3>1. i - 1 \in Nat /\ i - 1 < i /\ i - 1 <= n /\ i \in 0 .. n /\ i # 0
      BY <2>2
    <3>2. PICK x \in Int : x = o[i - 1]
      BY <1>13, <1>14, <3>1
    <3>3. Interest(x, 1) \in Int
      BY InterestIs
    <3>4. o[i] = x - (pay - Interest(x, 1))
      BY <1>12, <3>1, <3>2
    <3> QED
      BY <1>13, <3>3, <3>4
  <2>3. CASE i > n
    BY <1>13, <2>3
  <2> QED
    BY <2>1, <2>2, <2>3
<1>15. Nat \subseteq G
  BY <1>14, NumberInduction
<1>16. \A i \in 0 .. n : o[i] \in Int
  BY <1>13, <1>15
<1> QED
  BY <1>1, <1>11, <1>16

(* What is owed falls, as every payment covers the interest.                 *)
Falls(l) ==
    /\ \A i \in 1 .. l.months - 1 :
            Owed(l)[i] = Owed(l)[i - 1]
                            - (AnnuityPayment(l) - Interest(Owed(l)[i - 1], 1))
    /\ Owed(l)[0] = l.amount
    /\ \A i \in 0 .. l.months - 1 :
            /\ Owed(l)[i] \in Int /\ Owed(l)[l.months - 1] <= Owed(l)[i]
            /\ Interest(Owed(l)[i], 1) \in Int
            /\ Interest(Owed(l)[i], 1) <= AnnuityPayment(l)

LEMMA OwedFalls == ASSUME NEW l \in Loan PROVE Falls(l)
<1>1. PICK n \in Nat : n = l.months - 1
  BY DEF Loan
<1>2. PICK pay \in Int : pay = AnnuityPayment(l)
  BY PaymentIs
<1>3. PICK a \in Int : a = l.amount
  BY DEF Loan
<1>4. PICK o : o = Owed(l)
  OBVIOUS
<1>5. o = [i \in 0 .. n |-> IF i = 0 THEN a ELSE o[i - 1] - (pay - Interest(o[i - 1], 1))]
  BY <1>1, <1>2, <1>3, <1>4, OwedIs DEF IsOwed
<1>6. \A i \in 0 .. n : o[i] \in Int
  BY <1>1, <1>4, OwedIs
<1>7. o[0] = a /\ \A i \in 1 .. n : o[i] = o[i - 1] - (pay - Interest(o[i - 1], 1))
  <2>1. ASSUME NEW i \in 1 .. n PROVE o[i] = o[i - 1] - (pay - Interest(o[i - 1], 1))
    <3>1. i \in 0 .. n /\ i # 0
      OBVIOUS
    <3> QED
      BY <1>5, <3>1
  <2>2. 0 \in 0 .. n
    OBVIOUS
  <2> QED
    BY <1>5, <2>1, <2>2
<1>8. Interest(a, 1) <= pay
  BY <1>2, <1>3, PaymentIs
<1>9. ASSUME NEW x \in Int, x <= a
      PROVE  Interest(x, 1) \in Int /\ Interest(x, 1) <= pay
  <2>1. Interest(x, 1) <= Interest(a, 1) /\ Interest(x, 1) \in Int /\ Interest(a, 1) \in Int
    BY <1>9, InterestInOrder, InterestIs
  <2> QED
    BY <1>8, <2>1
<1>10. PICK G : G = {i \in Nat : i <= n => o[i] <= a /\ \A k \in 0 .. i : o[i] <= o[k]}
  OBVIOUS
<1>11. ASSUME NEW i \in Nat, \A k \in Nat : k < i => k \in G PROVE i \in G
  <2>1. CASE i = 0
    <3>1. 0 \in 0 .. n /\ o[0] \in Int /\ \A k \in 0 .. i : k = 0
      BY <1>6, <2>1
    <3> QED
      BY <1>7, <1>10, <2>1, <3>1
  <2>2. CASE i \in 1 .. n
    <3>1. i - 1 \in Nat /\ i - 1 < i /\ i - 1 <= n /\ i - 1 \in 0 .. n
      BY <2>2
    <3>2. PICK x \in Int : x = o[i - 1]
      BY <1>6, <3>1
    <3>3. x <= a /\ \A k \in 0 .. i - 1 : x <= o[k]
      BY <1>10, <1>11, <3>1, <3>2
    <3>4. PICK part \in Int : part = Interest(x, 1) /\ part <= pay
      BY <1>9, <3>3
    <3>5. PICK y \in Int : y = o[i] /\ y = x - (pay - part)
      BY <1>7, <2>2, <3>2, <3>4
    <3>6. y <= x
      BY <3>4, <3>5
    <3>7. ASSUME NEW k \in 0 .. i PROVE y <= o[k]
      <4>1. CASE k = i
        <5>1. o[k] = y
          BY <3>5, <4>1, Zenon
        <5> QED
          BY <5>1
      <4>2. CASE k \in 0 .. i - 1
        <5>1. o[k] \in Int /\ x <= o[k]
          BY <1>6, <2>2, <3>3, <4>2
        <5> QED
          BY <3>6, <5>1
      <4> QED
        BY <4>1, <4>2
    <3>8. y <= a
      BY <3>3, <3>6
    <3>9. o[i] <= a /\ \A k \in 0 .. i : o[i] <= o[k]
      BY <3>5, <3>7, <3>8, Zenon
    <3> QED
      BY <1>10, <3>9, Zenon
  <2>3. CASE i > n
    BY <1>10, <2>3
  <2> QED
    BY <2>1, <2>2, <2>3
<1>12. Nat \subseteq G
  BY <1>11, NumberInduction
<1>13. ASSUME NEW i \in 0 .. n
       PROVE  /\ o[i] \in Int /\ o[n] <= o[i]
              /\ Interest(o[i], 1) \in Int /\ Interest(o[i], 1) <= pay
  <2>1. i \in G /\ n \in G
    BY <1>12
  <2>2. o[i] \in Int /\ o[i] <= a /\ o[n] <= o[i]
    BY <1>6, <1>10, <2>1
  <2> QED
    BY <1>9, <2>2
<1>14. /\ l.months - 1 = n /\ Owed(l) = o /\ AnnuityPayment(l) = pay /\ l.amount = a
  BY <1>1, <1>2, <1>3, <1>4
<1> QED
  BY <1>7, <1>13, <1>14 DEF Falls

(* A line holds its interest to a kopeck, and its part of the loan is not    *)
(* negative but in a last line that gives money back.                        *)
LineHolds(line, last) ==
    /\ line.payment \in Int /\ line.principal \in Int
    /\ line.payment - line.interest - line.principal \in -1 .. 1
    /\ \/ line.principal >= 0
       \/ last /\ line.payment <= 0

LEMMA LastPaymentIs ==
    ASSUME NEW owed \in Int, NEW payment, NEW interest,
           payment = Rounded(owed * (RateWhole + RatePart), RateWhole),
           interest = Interest(owed, 1)
    PROVE  /\ payment \in Int /\ interest \in Int
           /\ payment - interest - owed \in -1 .. 1
           /\ owed < 0 => payment <= 0
           /\ owed >= 0 => payment >= owed
<1>1. PICK P \in Nat \ {0} : P = RatePart
  BY LoansAssumption
<1>2. PICK W \in Nat \ {0} : W = RateWhole
  BY LoansAssumption
<1>3. PICK x \in Int : x = owed * P
  OBVIOUS
<1>4. PICK y \in Int : y = W * owed
  OBVIOUS
<1>5. owed * (W + P) = x + y /\ x + y \in Int
  BY <1>3, <1>4
<1>6. payment = Rounded(x + y, W)
  BY <1>1, <1>2, <1>5
<1>7. interest = Rounded(x, W)
  <2>1. W * 1 = W
    OBVIOUS
  <2> QED
    BY <1>1, <1>2, <1>3, <2>1 DEF Interest
<1>8. PICK a \in Int : a = payment /\ Nearest(x + y, W, a)
  BY <1>5, <1>6, RoundedIs
<1>9. PICK b \in Int : b = interest /\ Nearest(x, W, b)
  BY <1>7, RoundedIs
<1>10. Nearest(y, W, owed)
  BY <1>4 DEF Nearest
<1>11. a - b - owed \in -1 .. 1
  BY <1>8, <1>9, <1>10, RoundedParts
<1>12. ASSUME owed < 0 PROVE a <= 0
  <2>1. x + y <= 0
    <3>1. owed * P <= 0 /\ W * owed <= 0
      BY <1>12
    <3> QED
      BY <1>3, <1>4, <3>1
  <2>2. (x + y) * 1 <= 0 * W
    BY <2>1
  <2>3. Rounded(x + y, W) <= Rounded(0, 1)
    BY <1>5, <2>2, RoundedInOrder
  <2>4. Rounded(1 * 0, 1) = 0 /\ 1 * 0 = 0
    BY RoundedMultiple
  <2> QED
    BY <1>6, <1>8, <2>3, <2>4
<1>13. ASSUME owed >= 0 PROVE a >= owed
  <2>1. x >= 0
    BY <1>3, <1>13
  <2>2. y * W <= (x + y) * W
    BY <2>1
  <2>3. Rounded(y, W) <= Rounded(x + y, W)
    BY <1>5, <2>2, RoundedInOrder
  <2>4. Rounded(W * owed, W) = owed
    BY RoundedMultiple
  <2> QED
    BY <1>4, <1>6, <1>8, <2>3, <2>4
<1> QED
  BY <1>8, <1>9, <1>11, <1>12, <1>13

LEMMA AnnuityLines ==
    ASSUME NEW l \in Loan, l.kind = "Annuity", NEW i \in 1 .. l.months,
           NEW line, line = Schedule(l)[i]
    PROVE  /\ LineHolds(line, i = l.months)
           /\ line.principal = Owed(l)[i - 1] -
                                    (IF i < l.months THEN Owed(l)[i] ELSE 0)
           /\ i = l.months => line.balance = 0
           /\ Owed(l)[l.months - 1] >= 0 => line.payment >= line.principal
<1>1. PICK n \in Nat \ {0} : n = l.months
  BY DEF Loan
<1>2. PICK pay \in Int : pay = AnnuityPayment(l)
  BY PaymentIs
<1>3. i - 1 \in 0 .. n - 1 /\ (i < n => i \in 1 .. n - 1 /\ i \in 0 .. n - 1)
  BY <1>1
<1>4. PICK owed \in Int : owed = Owed(l)[i - 1]
  BY <1>1, <1>3, OwedFalls DEF Falls
<1>5. PICK part \in Int : part = Interest(owed, 1) /\ part <= pay
  BY <1>1, <1>2, <1>3, <1>4, OwedFalls DEF Falls
<1>6. line = AnnuityLine(l, i)
  BY DEF Schedule
<1>7. ASSUME Owed(l)[n - 1] >= 0 PROVE owed >= 0 /\ part >= 0
  <2>1. Owed(l)[n - 1] \in Int /\ Owed(l)[n - 1] <= owed
    <3>1. n - 1 \in 0 .. n - 1
      OBVIOUS
    <3> QED
      BY <1>1, <1>3, <1>4, <3>1, OwedFalls DEF Falls
  <2>2. owed >= 0
    BY <1>7, <2>1
  <2>3. Interest(0, 1) = 0
    <3>1. PICK P \in Nat \ {0} : P = RatePart
      BY LoansAssumption
    <3>2. PICK W \in Nat \ {0} : W = RateWhole
      BY LoansAssumption
    <3>3. 0 * P = W * 0 /\ W * 1 = W
      OBVIOUS
    <3>4. Rounded(W * 0, W) = 0
      BY RoundedMultiple
    <3> QED
      BY <3>1, <3>2, <3>3, <3>4 DEF Interest
  <2>4. Interest(0, 1) <= Interest(owed, 1)
    BY <2>2, InterestInOrder
  <2> QED
    BY <1>5, <2>2, <2>3, <2>4
<1>8. CASE i < n
  <2>1. /\ line.payment = pay /\ line.interest = part /\ line.principal = pay - part
    BY <1>1, <1>2, <1>4, <1>5, <1>6, <1>8 DEF AnnuityLine
  <2>2. Owed(l)[i] = owed - (pay - part) /\ Owed(l)[i] \in Int
    BY <1>1, <1>2, <1>3, <1>4, <1>5, <1>8, OwedFalls DEF Falls
  <2>3. pay - part - (pay - part) \in -1 .. 1 /\ pay - part >= 0 /\ pay - part \in Int
    BY <1>5
  <2>4. LineHolds(line, i = l.months)
    BY <2>1, <2>3 DEF LineHolds
  <2>5. line.principal = owed - Owed(l)[i]
    BY <2>1, <2>2
  <2>6. Owed(l)[n - 1] >= 0 => line.payment >= line.principal
    BY <1>7, <2>1
  <2> QED
    BY <1>1, <1>4, <1>8, <2>4, <2>5, <2>6
<1>9. CASE i = n
  <2>1. PICK payment \in Int :
            payment = Rounded(owed * (RateWhole + RatePart), RateWhole)
    BY LastPaymentIs
  <2>2. /\ line.payment = payment /\ line.interest = part /\ line.principal = owed
        /\ line.balance = 0
    BY <1>1, <1>4, <1>5, <1>6, <1>9, <2>1 DEF AnnuityLine
  <2>3. /\ payment - part - owed \in -1 .. 1
        /\ owed < 0 => payment <= 0
        /\ owed >= 0 => payment >= owed
    BY <1>5, <2>1, LastPaymentIs
  <2>4. LineHolds(line, i = l.months)
    BY <1>1, <1>9, <2>2, <2>3 DEF LineHolds
  <2>5. owed = owed - 0
    OBVIOUS
  <2> QED
    BY <1>1, <1>4, <1>7, <1>9, <2>2, <2>3, <2>4, <2>5
<1> QED
  BY <1>1, <1>8, <1>9

LEMMA DifferentiatedLines ==
    ASSUME NEW l \in Loan, l.kind = "Differentiated", NEW i \in 1 .. l.months,
           NEW line, line = Schedule(l)[i]
    PROVE  /\ LineHolds(line, i = l.months)
           /\ i = l.months => line.balance = 0
           /\ l.amount % l.months = 0 =>
                /\ l.amount = l.months * line.principal
                /\ line.payment >= line.principal
<1>1. PICK n \in Nat \ {0} : n = l.months
  BY DEF Loan
<1>2. PICK a \in Nat \ {0} : a = l.amount
  BY DEF Loan
<1>3. PICK P \in Nat \ {0} : P = RatePart
  BY LoansAssumption
<1>4. PICK W \in Nat \ {0} : W = RateWhole
  BY LoansAssumption
<1>5. PICK owed \in Nat : owed = a * (n - i + 1)
  <2>1. n - i + 1 \in Nat
    BY <1>1
  <2>2. a * (n - i + 1) \in Nat
    BY <2>1
  <2> QED
    BY <2>2
<1>6. PICK d \in Nat \ {0} : d = W * n
  <2>1. W * n \in Nat \ {0}
    OBVIOUS
  <2> QED
    BY <2>1
<1>7. PICK x \in Nat : x = owed * P
  OBVIOUS
<1>8. PICK y \in Nat : y = a * W
  OBVIOUS
<1>9. x + y \in Int /\ y + x = x + y /\ a \in Int /\ x \in Int
  OBVIOUS
<1>10. PICK payment \in Int :
        payment = Rounded(x + y, d) /\ Nearest(x + y, d, payment)
  BY <1>9, RoundedIs
<1>11. PICK interest \in Int : interest = Rounded(x, d) /\ Nearest(x, d, interest)
  BY <1>9, RoundedIs
<1>12. PICK principal \in Int : principal = Rounded(a, n) /\ Nearest(a, n, principal)
  BY <1>9, RoundedIs
<1>13. line = DifferentiatedLine(l, i)
  BY DEF Schedule
<1>14. /\ line.payment = payment /\ line.interest = interest
       /\ line.principal = principal /\ line.balance = Rounded(owed - a, n)
  BY <1>1, <1>2, <1>3, <1>4, <1>5, <1>6, <1>7, <1>8, <1>9, <1>10, <1>11, <1>12, <1>13
     DEF DifferentiatedLine, Interest
<1>15. Nearest(y, d, principal)
  <2>1. PICK part \in Int : part = n * principal
    OBVIOUS
  <2>2. d * principal = W * part
    BY <1>6, <2>1
  <2>3. W * (2 * (a - part)) <= W * n /\ W * (2 * (part - a)) <= W * n
    BY <1>12, <2>1 DEF Nearest
  <2>4. /\ W * (2 * (a - part)) = 2 * (y - W * part)
        /\ W * (2 * (part - a)) = 2 * (W * part - y)
    BY <1>8
  <2> QED
    BY <1>6, <2>2, <2>3, <2>4 DEF Nearest
<1>16. payment - interest - principal \in -1 .. 1
  BY <1>9, <1>10, <1>11, <1>15, RoundedParts
<1>17. principal >= 0
  <2>1. 0 * n <= a * 1
    OBVIOUS
  <2>2. Rounded(0, 1) <= Rounded(a, n)
    BY <2>1, RoundedInOrder
  <2>3. Rounded(1 * 0, 1) = 0 /\ 1 * 0 = 0
    BY RoundedMultiple
  <2> QED
    BY <1>12, <2>2, <2>3
<1>18. LineHolds(line, i = l.months)
  BY <1>14, <1>16, <1>17 DEF LineHolds
<1>19. ASSUME i = n PROVE line.balance = 0
  <2>1. owed - a = n * 0
    BY <1>5, <1>19
  <2>2. Rounded(n * 0, n) = 0
    BY RoundedMultiple
  <2> QED
    BY <1>14, <2>1, <2>2
<1>20. ASSUME a % n = 0 PROVE a = n * principal /\ payment >= principal
  <2>1. PICK q \in Int : a = n * q
    <3>1. PICK k \in Int : k = a \div n
      BY <1>9, FloorIs
    <3>2. a - n * k = 0
      BY <1>9, <1>20, <3>1, FloorIs
    <3> QED
      BY <3>2
  <2>2. principal = q
    BY <1>12, <2>1, RoundedMultiple
  <2>3. y = d * q
    BY <1>6, <1>8, <2>1
  <2>4. Rounded(d * q, d) = q
    BY RoundedMultiple
  <2>5. y * d <= (x + y) * d
    <3>1. (x + y) * d = x * d + y * d /\ x * d >= 0
      OBVIOUS
    <3> QED
      BY <3>1
  <2>6. Rounded(y, d) <= Rounded(x + y, d)
    BY <1>9, <2>5, RoundedInOrder
  <2> QED
    BY <1>10, <2>1, <2>2, <2>3, <2>4, <2>6
<1> QED
  BY <1>1, <1>2, <1>14, <1>18, <1>19, <1>20

(* The parts of the loan add up to it, and the payments to more.             *)
LEMMA LoanPaysBack == ASSUME NEW l \in Loan PROVE PaysBack(l)
<1>1. PICK n \in Nat \ {0} : n = l.months
  BY DEF Loan
<1>2. PICK a \in Nat \ {0} : a = l.amount
  BY DEF Loan
<1>3. PICK lines : lines = Schedule(l)
  OBVIOUS
<1>4. PICK pr : pr = [i \in 1 .. n |-> lines[i].principal]
  OBVIOUS
<1>5. PICK pay : pay = [i \in 1 .. n |-> lines[i].payment]
  OBVIOUS
<1>6. PICK uneven : uneven = (l.kind = "Differentiated" /\ l.amount % l.months # 0)
  OBVIOUS
<1>7. l.kind = "Annuity" \/ l.kind = "Differentiated"
  BY DEF Loan, LoanKinds
<1>8. ASSUME NEW i \in 1 .. n
      PROVE  LineHolds(lines[i], i = n) /\ (i = n => lines[i].balance = 0)
  BY <1>1, <1>3, <1>7, AnnuityLines, DifferentiatedLines
<1>9. ASSUME NEW i \in 1 .. n PROVE pr[i] \in Int /\ pay[i] \in Int
  BY <1>4, <1>5, <1>8 DEF LineHolds
<1>10. SumFunction(pr) = SumFunctionOnSet(pr, 1 .. n)
  BY <1>4 DEF SumFunction
<1>11. ASSUME l.kind = "Annuity"
       PROVE  /\ SumFunction(pr) = a
              /\ \/ lines[n].principal < 0
                 \/ \A i \in 1 .. n : pr[i] <= pay[i]
  <2>1. PICK g : g = [i \in 0 .. n |-> IF i < n THEN Owed(l)[i] ELSE 0]
    OBVIOUS
  <2>2. ASSUME NEW i \in 0 .. n PROVE g[i] \in Int
    <3>1. i < n => i \in 0 .. n - 1
      OBVIOUS
    <3> QED
      BY <1>1, <2>1, <3>1, OwedFalls DEF Falls
  <2>3. ASSUME NEW i \in 1 .. n PROVE pr[i] = g[i - 1] - g[i]
    <3>1. /\ i - 1 \in 0 .. n /\ i - 1 < n /\ i \in 0 .. n
      OBVIOUS
    <3>2. lines[i].principal = Owed(l)[i - 1] - (IF i < n THEN Owed(l)[i] ELSE 0)
      BY <1>1, <1>3, <1>11, AnnuityLines
    <3> QED
      BY <1>4, <2>1, <3>1, <3>2
  <2>4. Steps(pr, g, n)
    BY <2>2, <2>3 DEF Steps
  <2>5. g[0] = a /\ g[n] = 0
    <3>1. 0 \in 0 .. n /\ n \in 0 .. n /\ 0 < n /\ ~(n < n)
      OBVIOUS
    <3> QED
      BY <1>2, <2>1, <3>1, OwedFalls DEF Falls
  <2>6. SumFunction(pr) = a
    BY <1>10, <2>4, <2>5, SumOfSteps
  <2>7. ASSUME ~(lines[n].principal < 0), NEW i \in 1 .. n PROVE pr[i] <= pay[i]
    <3>1. lines[n].principal = Owed(l)[n - 1] - 0
      BY <1>1, <1>3, <1>11, AnnuityLines
    <3>2. Owed(l)[n - 1] \in Int
      <4>1. n - 1 \in 0 .. n - 1
        OBVIOUS
      <4> QED
        BY <1>1, <4>1, OwedFalls DEF Falls
    <3>3. Owed(l)[n - 1] >= 0
      BY <2>7, <3>1, <3>2
    <3>4. lines[i].payment >= lines[i].principal
      BY <1>1, <1>3, <1>11, <3>3, AnnuityLines
    <3> QED
      BY <1>4, <1>5, <1>9, <3>4
  <2> QED
    BY <2>6, <2>7
<1>12. ASSUME l.kind = "Differentiated" /\ ~uneven
       PROVE  SumFunction(pr) = a /\ \A i \in 1 .. n : pr[i] <= pay[i]
  <2>1. ASSUME NEW i \in 1 .. n PROVE a = n * pr[i] /\ pr[i] <= pay[i]
    <3>1. /\ l.amount = l.months * lines[i].principal
          /\ lines[i].payment >= lines[i].principal
      BY <1>1, <1>3, <1>6, <1>12, DifferentiatedLines
    <3> QED
      BY <1>1, <1>2, <1>4, <1>5, <1>9, <3>1
  <2>2. PICK q \in Int : q = pr[n]
    BY <1>9
  <2>3. ASSUME NEW i \in 1 .. n PROVE pr[i] = q
    <3>1. PICK p \in Int : p = pr[i]
      BY <1>9
    <3>2. n * p = n * q
      BY <2>1, <2>2, <3>1
    <3> QED
      BY <3>1, <3>2
  <2>4. PICK g : g = [i \in 0 .. n |-> (n - i) * q]
    OBVIOUS
  <2>5. ASSUME NEW i \in 1 .. n PROVE pr[i] = g[i - 1] - g[i]
    <3>1. i - 1 \in 0 .. n /\ i \in 0 .. n
      OBVIOUS
    <3>2. g[i - 1] = (n - (i - 1)) * q /\ g[i] = (n - i) * q
      BY <2>4, <3>1
    <3>3. (n - (i - 1)) * q - (n - i) * q = q
      OBVIOUS
    <3> QED
      BY <2>3, <3>2, <3>3
  <2>6. Steps(pr, g, n)
    <3>1. \A i \in 0 .. n : g[i] \in Int
      BY <2>4
    <3> QED
      BY <2>5, <3>1 DEF Steps
  <2>7. g[0] = a /\ g[n] = 0
    <3>1. 0 \in 0 .. n /\ n \in 0 .. n /\ (n - 0) * q = n * q /\ (n - n) * q = 0 /\ n \in 1 .. n
      OBVIOUS
    <3> QED
      BY <2>1, <2>2, <2>4, <3>1
  <2>8. SumFunction(pr) = a
    BY <1>10, <2>6, <2>7, SumOfSteps
  <2> QED
    BY <2>1, <2>8
<1>13. SumFunction(pr) = a \/ uneven
  BY <1>7, <1>11, <1>12
<1>14. ASSUME ~uneven, ~(lines[n].principal < 0), l.status = "scheduled"
       PROVE  Overpayment(l) >= 0
  <2>1. \A i \in 1 .. n : pr[i] <= pay[i]
    BY <1>7, <1>11, <1>12, <1>14
  <2>2. NotLess(pr, pay, 1 .. n)
    BY <1>9, <2>1 DEF NotLess
  <2>3. SumsNotLess(pr, pay, 1 .. n)
    <3>1. 1 \in Int /\ n \in Int
      OBVIOUS
    <3>2. IsFiniteSet(1 .. n)
      BY <3>1, FS_Interval
    <3> QED
      BY <2>2, <3>2, SumsInOrder
  <2>4. SumFunction(pay) = SumFunctionOnSet(pay, 1 .. n)
    BY <1>5 DEF SumFunction
  <2>5. PICK paid \in Int : paid = SumFunction(pay) /\ a <= paid
    BY <1>10, <1>13, <1>14, <2>3, <2>4 DEF SumsNotLess
  <2>6. Overpayment(l) = paid - a
    BY <1>1, <1>2, <1>3, <1>5, <1>14, <2>5 DEF Overpayment
  <2> QED
    BY <2>5, <2>6
<1>15. n \in 1 .. n
  OBVIOUS
<1>16. lines[n].balance = 0
  BY <1>8, <1>15
<1>17. ASSUME NEW i \in 1 .. n
       PROVE  /\ lines[i].payment - lines[i].interest - lines[i].principal \in -1 .. 1
              /\ \/ lines[i].principal >= 0
                 \/ i = n /\ lines[i].payment <= 0
  BY <1>8 DEF LineHolds
<1> QED
  BY <1>1, <1>2, <1>3, <1>4, <1>6, <1>13, <1>14, <1>16, <1>17, Zenon DEF PaysBack

(* The day of a month that a day is.                                         *)
LEMMA DayOfMonth ==
    ASSUME NEW m \in 1 .. Len(MonthLengths), NEW x \in 1 .. MonthLengths[m],
           NEW day, day = MonthStart(m) - 1 + x
    PROVE  /\ day \in Day /\ MonthOf(day) = m
           /\ day - MonthStart(MonthOf(day)) + 1 = x
<1>1. PICK n \in Nat : n = Len(MonthLengths)
  BY CalendarAssumption, LenProperties
<1>2. PICK length \in Nat \ {0} : length = MonthLengths[m]
  BY MonthsInCalendar
<1>3. PICK start \in Nat \ {0} : start = MonthStart(m)
  BY MonthsInOrder DEF MonthsInARow
<1>4. day = start - 1 + x /\ x \in 1 .. length
  BY <1>2, <1>3
<1>5. MonthEnd(m) = start + length - 1
  BY <1>2, <1>3, Zenon DEF MonthEnd
<1>6. PICK end \in Nat : end = MonthEnd(m)
  BY MonthsInOrder DEF MonthsInARow
<1>7. day \in Int /\ start <= day /\ day <= end
  BY <1>4, <1>5, <1>6
<1>8. m \in 1 .. n /\ m \in DOMAIN MonthLengths /\ DOMAIN MonthLengths = 1 .. n
  BY <1>1, CalendarAssumption
<1>9. day \in Day
  <2>1. PICK all \in Nat : all = DaysInAll
    BY MonthsInCalendar
  <2>2. end <= all
    <3>1. /\ end = FirstSum(MonthLengths, m) /\ all = FirstSum(MonthLengths, n)
          /\ Rising(MonthLengths, n)
      BY <1>1, <1>6, <2>1, MonthsInCalendar
    <3>2. m = n \/ m < n
      BY <1>8
    <3> QED
      BY <1>8, <2>1, <3>1, <3>2 DEF Rising
  <2>3. PICK d \in Int : d = day
    BY <1>7
  <2>4. start <= d /\ d <= end
    BY <1>7, <2>3
  <2>5. d \in 1 .. all
    BY <2>2, <2>4
  <2> QED
    BY <2>1, <2>3, <2>5, Zenon DEF Day
<1>10. PICK k : k = MonthOf(day)
  OBVIOUS
<1>11. k \in 1 .. n /\ MonthStart(k) <= day /\ day <= MonthEnd(k)
  BY <1>1, <1>9, <1>10, DaysOfMonths
<1>12. PICK first \in Nat : first = MonthStart(k)
  BY <1>1, <1>11, MonthsInOrder DEF MonthsInARow
<1>13. PICK last \in Nat : last = MonthEnd(k)
  BY <1>1, <1>11, MonthsInOrder DEF MonthsInARow
<1>14. ~(k < m)
  <2>1. k < m => last < start
    BY <1>1, <1>3, <1>8, <1>11, <1>13, MonthsInOrder DEF MonthsInARow
  <2> QED
    BY <1>3, <1>7, <1>11, <1>13, <2>1
<1>15. ~(m < k)
  <2>1. m < k => end < first
    BY <1>1, <1>6, <1>8, <1>11, <1>12, MonthsInOrder DEF MonthsInARow
  <2> QED
    BY <1>6, <1>7, <1>11, <1>12, <2>1
<1>16. k = m
  BY <1>8, <1>11, <1>14, <1>15
<1>17. MonthStart(MonthOf(day)) = start
  BY <1>3, <1>10, <1>16
<1>18. start - 1 + x - start + 1 = x
  OBVIOUS
<1> QED
  BY <1>4, <1>9, <1>10, <1>16, <1>17, <1>18

(* A date of a month long enough, a month on.                                *)
LEMMA MonthOn ==
    ASSUME NEW m \in 1 .. Len(MonthLengths), NEW x \in 1 .. MonthLengths[m],
           NEW day, day = ClampToMonth(m, x)
    PROVE  AddMonths(day, 1) = ClampToMonth(m + 1, x)
<1>1. PICK length \in Nat \ {0} : length = MonthLengths[m]
  BY MonthsInCalendar
<1>2. Min({x, length}) = x
  <2>1. PICK y \in Int : y = x /\ y <= length
    BY <1>1
  <2>2. Min({y, length}) = y
    <3>1. length \in Int
      OBVIOUS
    <3>2. Min({y, length}) = (IF y <= length THEN y ELSE length)
      BY Zenon, <3>1, PairHasEnds
    <3> QED
      BY <2>1, <3>2
  <2> QED
    BY <2>1, <2>2
<1>3. day = MonthStart(m) - 1 + x
  BY <1>1, <1>2 DEF ClampToMonth
<1>4. MonthOf(day) = m /\ day - MonthStart(MonthOf(day)) + 1 = x
  BY <1>3, DayOfMonth
<1> QED
  BY <1>4, Zenon DEF AddMonths

IsPaidOn(days, l, i) ==
    days = [n \in 0 .. i |-> IF n = 0 THEN l.day ELSE AddMonths(days[n - 1], 1)]

(* The payments fall on the day of the loan.                                 *)
LEMMA LoanKeepsDay == ASSUME NEW l \in Loan PROVE KeepsDay(l)
<1>1. PICK n \in Nat : n = Len(MonthLengths)
  BY CalendarAssumption, LenProperties
<1>2. PICK day \in Day : day = l.day
  BY DEF Loan
<1>3. PICK month \in 1 .. n : month = MonthOf(day)
  BY <1>1, <1>2, DaysOfMonths
<1>4. PICK start \in Nat \ {0} : start = MonthStart(month)
  BY <1>1, <1>3, MonthsInOrder DEF MonthsInARow
<1>5. PICK x : x = day - start + 1
  OBVIOUS
<1>6. PICK length \in Nat \ {0} : length = MonthLengths[month]
  BY <1>1, <1>3, MonthsInCalendar
<1>7. day \in Int
  BY <1>2, MonthsInCalendar DEF Day
<1>8. day = start - 1 + x /\ x \in 1 .. length
  <2>1. PICK end \in Nat : end = MonthEnd(month)
    BY <1>1, <1>3, MonthsInOrder DEF MonthsInARow
  <2>2. end = start + length - 1
    BY <1>4, <1>6, <2>1, Zenon DEF MonthEnd
  <2>3. start <= day /\ day <= end
    BY <1>1, <1>2, <1>3, <1>4, <2>1, DaysOfMonths
  <2> QED
    BY <1>5, <1>7, <2>1, <2>2, <2>3
<1>9. \A i : AddMonths(day, i) = ClampToMonth(month + i, x)
  BY <1>3, <1>4, <1>5, Zenon DEF AddMonths
<1>10. ASSUME NEW i \in Nat \ {0}, month + i <= n,
              \A k \in 1 .. i - 1 : ~(MonthLengths[month + k] < x)
       PROVE  PaymentDay(l, i) = AddMonths(day, i)
  <2>1. PICK w : w = [j \in 0 .. i |-> IF j = 0 THEN day ELSE AddMonths(day, j)]
    OBVIOUS
  <2>2. ASSUME NEW j \in 0 .. i - 1
        PROVE  w[j] = ClampToMonth(month + j, x) /\ x \in 1 .. MonthLengths[month + j]
    <3>1. CASE j = 0
      <4>1. w[0] = day
        BY <2>1
      <4>2. Min({x, length}) = x
        BY <1>8, PairHasEnds
      <4>3. ClampToMonth(month, x) = start - 1 + x
        BY <1>4, <1>6, <4>2, Zenon DEF ClampToMonth
      <4>4. month + j = month
        BY <3>1
      <4> QED
        BY <1>6, <1>8, <3>1, <4>1, <4>3, <4>4
    <3>2. CASE j # 0
      <4>1. j \in 1 .. i - 1 /\ month + j \in 1 .. n
        BY <1>10, <3>2
      <4>2. PICK of \in Nat \ {0} : of = MonthLengths[month + j]
        BY <1>1, <4>1, MonthsInCalendar
      <4>3. ~(of < x)
        BY <1>10, <4>1, <4>2
      <4>4. x \in 1 .. of
        BY <1>8, <4>2, <4>3
      <4>5. w[j] = AddMonths(day, j)
        BY <2>1, <3>2
      <4> QED
        BY <1>9, <4>2, <4>4, <4>5
    <3> QED
      BY <3>1, <3>2
  <2>3. ASSUME NEW j \in 1 .. i PROVE w[j] = AddMonths(w[j - 1], 1)
    <3>1. j - 1 \in 0 .. i - 1 /\ month + (j - 1) \in 1 .. n /\ month + (j - 1) + 1 = month + j
      BY <1>10
    <3>2. /\ w[j - 1] = ClampToMonth(month + (j - 1), x)
          /\ x \in 1 .. MonthLengths[month + (j - 1)]
      BY <2>2, <3>1
    <3>3. AddMonths(w[j - 1], 1) = ClampToMonth(month + (j - 1) + 1, x)
      BY <1>1, <3>1, <3>2, MonthOn
    <3>4. w[j] = AddMonths(day, j)
      BY <2>1
    <3> QED
      BY <1>9, <3>1, <3>3, <3>4
  <2>4. IsPaidOn(w, l, i)
    <3>1. ASSUME NEW j \in 0 .. i
          PROVE  w[j] = IF j = 0 THEN l.day ELSE AddMonths(w[j - 1], 1)
      <4>1. CASE j = 0
        BY <1>2, <2>1, <4>1
      <4>2. CASE j # 0
        BY <2>3, <4>2
      <4> QED
        BY <4>1, <4>2
    <3>2. w = [j \in 0 .. i |-> w[j]]
      BY <2>1
    <3>3. w = [j \in 0 .. i |-> IF j = 0 THEN l.day ELSE AddMonths(w[j - 1], 1)]
      BY <3>1, <3>2
    <3> QED
      BY <3>3 DEF IsPaidOn
  <2>5. PICK f : f = (CHOOSE days : IsPaidOn(days, l, i))
    OBVIOUS
  <2>6. IsPaidOn(f, l, i)
    BY <2>4, <2>5
  <2>7. PaymentDay(l, i) = f[i]
    BY <2>5 DEF PaymentDay, IsPaidOn
  <2>8. \A j \in 0 .. i : f[j] = IF j = 0 THEN l.day ELSE AddMonths(f[j - 1], 1)
    BY <2>6 DEF IsPaidOn
  <2> DEFINE Met == {j \in Nat : j <= i => f[j] = w[j]}
  <2>9. ASSUME NEW j \in Nat, \A m \in Nat : m < j => m \in Met PROVE j \in Met
    <3> SUFFICES ASSUME j <= i PROVE f[j] = w[j]
      OBVIOUS
    <3>1. CASE j = 0
      BY <1>2, <2>1, <2>8, <3>1
    <3>2. CASE j # 0
      <4>1. j - 1 \in Nat /\ j - 1 < j /\ j - 1 <= i /\ j \in 1 .. i /\ j \in 0 .. i
        BY <3>2
      <4>2. f[j - 1] = w[j - 1]
        BY <2>9, <4>1
      <4>3. f[j] = AddMonths(f[j - 1], 1)
        BY <2>8, <3>2, <4>1
      <4> QED
        BY <2>3, <4>1, <4>2, <4>3
    <3> QED
      BY <3>1, <3>2
  <2>10. Nat \subseteq Met
    <3> HIDE DEF Met
    <3> QED
      BY <2>9, NumberInduction
  <2>11. f[i] = w[i] /\ w[i] = AddMonths(day, i)
    <3>1. i \in Met /\ i \in 0 .. i /\ i # 0 /\ i <= i
      BY <2>10
    <3> QED
      BY <2>1, <3>1
  <2> QED
    BY <2>7, <2>11
<1>11. ASSUME NEW i \in 1 .. l.months
       PROVE  \/ PaymentDay(l, i) = AddMonths(day, i)
              \/ \E k \in 1 .. i - 1 : MonthLengths[month + k] < x
              \/ month + i > n
  <2>1. i \in Nat \ {0}
    BY DEF Loan
  <2>2. month + i <= n \/ month + i > n
    BY <2>1
  <2> QED
    BY <1>10, <2>1, <2>2
<1> QED
  BY <1>1, <1>2, <1>3, <1>4, <1>5, <1>11, Zenon DEF KeepsDay

(* In every state where the schedules are looked at, each pays its loan back *)
(* and keeps its day, as far as PaysBack and KeepsDay say: the parts that    *)
(* calculate_annuity_schedule and calculate_differentiated_schedule round and*)
(* the dates that _persist_schedule steps through, month by month.           *)
THEOREM SchedulesAddUp == Spec => []LoanLinesAddUp
<1>1. PagesInv => LoanLinesAddUp
  <2> SUFFICES ASSUME PagesInv, NEW l \in loans PROVE LinesAddUp(l)
    BY DEF LoanLinesAddUp
  <2>1. l \in Loan
    BY DEF PagesInv, PagesTypeOK, DataOK
  <2> QED
    BY <2>1, LoanPaysBack, LoanKeepsDay DEF LinesAddUp
<1> QED
  BY <1>1, PagesInvariant, PTL
=============================================================================
