---------------------------- MODULE LedgerProofs ----------------------------
(* Proofs about the everyday ledger, for any set of accounts, postings,      *)
(* transfer logs and requests.                                               *)
EXTENDS Ledger, SumProofs

USE BalanceLimitAssumption, NoneAssumption, LedgerAssumption

-----------------------------------------------------------------------------
(* Facts about deltas and the service that applies them.                     *)

LEMMA AmountRange == Amount \subseteq Balance /\ 0 \in Balance /\ Balance \subseteq Int
BY DEF Amount, Balance

LEMMA SumsRange ==
    /\ Signed(Sums) \subseteq Balance
    /\ Signed(Sums) \cup {0} \subseteq Balance
<1>1. \A x \in Sums : x \in Balance /\ -x \in Balance
  BY DEF Amount, Balance
<1> QED
  BY <1>1, AmountRange DEF Signed

LEMMA EffectType ==
    \A row \in Posting \cup {None} : PostingEffect(row) \in Deltas
BY AmountRange DEF PostingEffect, Posting, Deltas, NoDelta, Delta

LEMMA ReplaceType ==
    \A old, new \in Posting \cup {None} : Replace(old, new) \in Deltas
BY EffectType DEF Replace, Minus, Deltas

LEMMA ApplyType ==
    ASSUME NEW d \in Deltas, BalancesTypeOK, ApplyAccountDeltas(d)
    PROVE  balance' \in [Accounts -> Balance]
<1> SUFFICES ASSUME NEW a \in Accounts
             PROVE  balance[a] + d[a] \in Balance
  BY DEF ApplyAccountDeltas, Plus
<1>0. balance[a] \in Balance /\ balance[a] \in Int
  BY AmountRange DEF BalancesTypeOK
<1>1. CASE d[a] = 0
  BY <1>0, <1>1
<1>2. CASE d[a] # 0
  BY <1>2 DEF ApplyAccountDeltas, CanApply
<1> QED
  BY <1>1, <1>2

LEMMA LogsWithoutType ==
    ASSUME BalancesTypeOK, NEW a \in Accounts
    PROVE  LogsWithout(a) \in [LogIds -> TransferLog \cup {None}]
BY DEF BalancesTypeOK, LogsWithout, TransferLog, AccountRef, Forget

-----------------------------------------------------------------------------
(* Type correctness.                                                         *)

RowsTypeOK ==
    /\ BalancesTypeOK
    /\ postings \in [PostingIds -> Posting \cup {None}]
    /\ DOMAIN declared = Accounts

LEMMA TypeParts ==
    LedgerTypeOK <=> RowsTypeOK /\ requests \in [Requests -> Request]
BY DEF LedgerTypeOK, RowsTypeOK

(* Booking a well-formed row keeps the tables well formed.                   *)
LEMMA BookType ==
    ASSUME RowsTypeOK, NEW p \in PostingIds,
           NEW row \in Posting \cup {None}, Book(p, row)
    PROVE  RowsTypeOK'
<1>1. Replace(postings[p], row) \in Deltas
  BY ReplaceType DEF RowsTypeOK
<1>2. balance' \in [Accounts -> Balance]
  BY <1>1, ApplyType DEF RowsTypeOK, Book
<1> QED
  BY <1>2 DEF RowsTypeOK, BalancesTypeOK, Book

LEMMA ReleaseType ==
    ASSUME requests \in [Requests -> Request], NEW q \in Requests, Release(q)
    PROVE  requests' \in [Requests -> Request]
BY DEF Release, Request, Idle

(* What a request holds is well formed, by what it is doing.                 *)
LEMMA HeldType ==
    ASSUME requests \in [Requests -> Request], NEW q \in Requests
    PROVE  /\ requests[q].op \in {"post", "api", "import", "edit"} =>
                 requests[q].account \in Accounts
           /\ Holds(q, "transfer") =>
                 requests[q].from \in Accounts /\ requests[q].to \in Accounts
           /\ Holds(q, "edit") =>
                 requests[q].balance \in Balance /\ requests[q].archived \in BOOLEAN
           /\ Holds(q, "resave") =>
                 requests[q].receipt \in ReceiptIds /\ requests[q].row \in Posting
<1>1. requests[q] \in Request
  OBVIOUS
<1> QED
  BY <1>1 DEF Request, Idle, Holds

LEMMA NewPostingType ==
    ASSUME NEW a \in Accounts, NEW x \in Balance, NEW b \in BOOLEAN
    PROVE  [account |-> a, delta |-> x, imported |-> b] \in Posting
BY DEF Posting

LEMMA ImportType ==
    ASSUME RowsTypeOK, NEW t \in TxIds, NEW a \in Accounts, Import(t, a)
    PROVE  RowsTypeOK' /\ requests' = requests
<1>1. PICK delta \in Signed(Sums) :
         /\ balance[a] + delta \in Balance
         /\ balance' = [balance EXCEPT ![a] = @ + delta]
         /\ postings' = [postings EXCEPT ![t] =
                [account |-> a, delta |-> delta, imported |-> TRUE]]
         /\ UNCHANGED <<kind, archived, transferLogs, requests, declared>>
  BY DEF Import
<1>2. [account |-> a, delta |-> delta, imported |-> TRUE] \in Posting
  BY SumsRange, NewPostingType
<1> QED
  BY <1>1, <1>2 DEF RowsTypeOK, BalancesTypeOK, PostingIds

LEMMA HoldType ==
    ASSUME LedgerTypeOK, NEW q \in Requests, NEW request \in Request,
           Hold(q, request)
    PROVE  LedgerTypeOK'
BY DEF LedgerTypeOK, BalancesTypeOK, Hold, accountVars

LEMMA TypeInit == Init => LedgerTypeOK
<1> SUFFICES ASSUME Init PROVE LedgerTypeOK
  OBVIOUS
<1>1. DeclaredBalances \cup {0} \subseteq Balance
  BY AmountRange
<1>2. balance \in [Accounts -> Balance]
  BY <1>1 DEF Init
<1>3. transferLogs \in [LogIds -> TransferLog \cup {None}]
  BY DEF Init, TransferLog, AccountRef
<1>4. [account : Accounts, delta : Signed(Sums), imported : {FALSE}] \subseteq Posting
  BY SumsRange DEF Posting
<1>5. postings \in [PostingIds -> Posting \cup {None}]
  BY <1>4 DEF Init
<1> QED
  BY <1>2, <1>3, <1>5 DEF Init, LedgerTypeOK, BalancesTypeOK, Request

LEMMA TypeStep == LedgerTypeOK /\ [Next]_vars => LedgerTypeOK'
<1> SUFFICES ASSUME LedgerTypeOK, [Next]_vars
             PROVE  LedgerTypeOK'
  OBVIOUS
<1>0. RowsTypeOK /\ requests \in [Requests -> Request]
  BY TypeParts
<1>a. RowsTypeOK' /\ requests' \in [Requests -> Request] => LedgerTypeOK'
  BY DEF LedgerTypeOK, RowsTypeOK
<1>1. ASSUME NEW q \in Requests, NEW a \in Accounts,
             \/ BeginEdit(q, a)
             \/ BeginPost(q, a)
             \/ BeginReceiptApi(q, a)
             \/ BeginImport(q, a)
             \/ \E to \in Accounts : BeginTransfer(q, a, to)
      PROVE  LedgerTypeOK'
  <2>1. CASE BeginEdit(q, a)
    <3>1. [op |-> "edit", account |-> a, balance |-> balance[a],
           archived |-> archived[a]] \in Request
      BY DEF LedgerTypeOK, BalancesTypeOK, Request
    <3> QED
      BY <2>1, <3>1, HoldType DEF BeginEdit
  <2>2. CASE BeginPost(q, a)
    <3>1. [op |-> "post", account |-> a] \in Request
      BY DEF Request
    <3> QED
      BY <2>2, <3>1, HoldType DEF BeginPost
  <2>3. CASE BeginReceiptApi(q, a)
    <3>1. [op |-> "api", account |-> a] \in Request
      BY DEF Request
    <3> QED
      BY <2>3, <3>1, HoldType DEF BeginReceiptApi
  <2>4. CASE BeginImport(q, a)
    <3>1. [op |-> "import", account |-> a] \in Request
      BY DEF Request
    <3> QED
      BY <2>4, <3>1, HoldType DEF BeginImport
  <2>5. ASSUME NEW to \in Accounts, BeginTransfer(q, a, to)
        PROVE  LedgerTypeOK'
    <3>1. [op |-> "transfer", from |-> a, to |-> to] \in Request
      BY DEF Request
    <3> QED
      BY <2>5, <3>1, HoldType DEF BeginTransfer
  <2> QED
    BY <1>1, <2>1, <2>2, <2>3, <2>4, <2>5
<1>2. ASSUME NEW q \in Requests, CommitEdit(q)
      PROVE  LedgerTypeOK'
  <2>1. requests[q].account \in Accounts /\ requests[q].archived \in BOOLEAN
    BY <1>0, <1>2, HeldType DEF CommitEdit, Holds
  <2>2. PICK value \in DeclaredBalances \cup {requests[q].balance} :
          LET a == requests[q].account IN
          /\ balance' = [balance EXCEPT ![a] = value]
          /\ declared' = [declared EXCEPT ![a] = @ + (value - balance[a])]
          /\ kind' = [kind EXCEPT ![a] = "regular"]
          /\ archived' = [archived EXCEPT ![a] = requests[q].archived]
    BY <1>2 DEF CommitEdit
  <2>3. value \in Balance
    BY <1>0, <1>2, HeldType, AmountRange DEF CommitEdit
  <2>4. BalancesTypeOK'
    BY <1>0, <1>2, <2>1, <2>2, <2>3
       DEF RowsTypeOK, BalancesTypeOK, Kinds, CommitEdit
  <2> QED
    BY <1>0, <1>a, <1>2, <2>4, ReleaseType DEF RowsTypeOK, CommitEdit
<1>3. ASSUME NEW q \in Requests, AddTransaction(q)
      PROVE  LedgerTypeOK'
  <2>1. PICK t \in TxIds, delta \in Signed(Sums) :
          Book(t, [account |-> requests[q].account, delta |-> delta,
                   imported |-> FALSE])
    BY <1>3 DEF AddTransaction
  <2>2. requests[q].account \in Accounts
    BY <1>0, <1>3, HeldType DEF AddTransaction, Holds
  <2>3. [account |-> requests[q].account, delta |-> delta,
         imported |-> FALSE] \in Posting
    BY <2>2, SumsRange, NewPostingType
  <2> QED
    BY <1>0, <1>a, <1>3, <2>1, <2>3, BookType, ReleaseType
       DEF AddTransaction, PostingIds
<1>4. ASSUME NEW q \in Requests, UpdateTransaction(q)
      PROVE  LedgerTypeOK'
  <2>1. PICK t \in TxIds, delta \in Signed(Sums) :
          /\ postings[t] # None
          /\ Book(t, [postings[t] EXCEPT !.account = requests[q].account,
                                         !.delta = delta])
    BY <1>4 DEF UpdateTransaction
  <2>2. requests[q].account \in Accounts
    BY <1>0, <1>4, HeldType DEF UpdateTransaction, Holds
  <2>3. postings[t] \in Posting
    BY <1>0, <2>1 DEF RowsTypeOK, PostingIds
  <2>4. [postings[t] EXCEPT !.account = requests[q].account,
                            !.delta = delta] \in Posting
    BY <2>2, <2>3, SumsRange DEF Posting
  <2> QED
    BY <1>0, <1>a, <1>4, <2>1, <2>4, BookType, ReleaseType
       DEF UpdateTransaction, PostingIds
<1>5. ASSUME NEW q \in Requests, TransferMoney(q)
      PROVE  LedgerTypeOK'
  <2>1. requests[q].from \in Accounts /\ requests[q].to \in Accounts
    BY <1>0, <1>5, HeldType DEF TransferMoney
  <2>2. PICK l \in LogIds, amount \in Sums :
          /\ ApplyAccountDeltas(PairDelta(requests[q].from, -amount,
                                          requests[q].to, amount))
          /\ transferLogs' = [transferLogs EXCEPT ![l] =
                 [from |-> requests[q].from, to |-> requests[q].to,
                  amount |-> amount]]
    BY <1>5 DEF TransferMoney, LogTransfer
  <2>3. amount \in Amount /\ amount \in Int
    BY DEF Amount
  <2>4. PairDelta(requests[q].from, -amount, requests[q].to, amount) \in Deltas
    BY <2>3 DEF PairDelta, Deltas
  <2>5. [from |-> requests[q].from, to |-> requests[q].to,
         amount |-> amount] \in TransferLog
    BY <2>1, <2>3 DEF TransferLog, AccountRef
  <2>6. balance' \in [Accounts -> Balance]
    BY <1>0, <2>2, <2>4, ApplyType DEF RowsTypeOK
  <2> QED
    BY <1>0, <1>a, <1>5, <2>2, <2>5, <2>6, ReleaseType
       DEF RowsTypeOK, BalancesTypeOK, TransferMoney, LogTransfer
<1>6. ASSUME NEW q \in Requests, CreateReceipt(q)
      PROVE  LedgerTypeOK'
  <2>1. PICK r \in ReceiptIds, delta \in Signed(Sums) :
          Book(r, [account |-> requests[q].account, delta |-> delta,
                   imported |-> FALSE])
    BY <1>6 DEF CreateReceipt
  <2>2. requests[q].account \in Accounts
    BY <1>0, <1>6, HeldType DEF CreateReceipt
  <2>3. [account |-> requests[q].account, delta |-> delta,
         imported |-> FALSE] \in Posting
    BY <2>2, SumsRange, NewPostingType
  <2> QED
    BY <1>0, <1>a, <1>6, <2>1, <2>3, BookType, ReleaseType
       DEF CreateReceipt, PostingIds
<1>7. ASSUME NEW q \in Requests, CreateManualReceipt(q) \/ UpdateReceipt(q)
      PROVE  LedgerTypeOK'
  <2>1. PICK r \in ReceiptIds, delta \in Signed(Sums) \cup {0} :
          LET row == [account |-> requests[q].account, delta |-> delta,
                      imported |-> FALSE]
          IN Book(r, row) /\ SaveAgain(q, r, row)
    BY <1>7 DEF CreateManualReceipt, UpdateReceipt
  <2> DEFINE row == [account |-> requests[q].account, delta |-> delta,
                     imported |-> FALSE]
  <2>2. requests[q].account \in Accounts
    BY <1>0, <1>7, HeldType DEF CreateManualReceipt, UpdateReceipt, Holds
  <2>3. row \in Posting
    BY <2>2, SumsRange, NewPostingType
  <2>4. [op |-> "resave", receipt |-> r, row |-> row] \in Request
    BY <2>3 DEF Request
  <2>5. requests' \in [Requests -> Request]
    BY <1>0, <2>1, <2>4 DEF SaveAgain
  <2> QED
    BY <1>0, <1>a, <2>1, <2>3, <2>5, BookType DEF PostingIds
<1>8. ASSUME NEW q \in Requests, ResaveReceipt(q)
      PROVE  LedgerTypeOK'
  <2> DEFINE r == requests[q].receipt
             row == requests[q].row
  <2>1. r \in PostingIds /\ row \in Posting
    BY <1>0, <1>8, HeldType DEF ResaveReceipt, PostingIds
  <2> QED
    BY <1>0, <1>a, <1>8, <2>1, ReleaseType
       DEF RowsTypeOK, BalancesTypeOK, ResaveReceipt, accountVars, Minus
<1>9. ASSUME NEW q \in Requests, ImportRow(q)
      PROVE  LedgerTypeOK'
  <2>1. requests[q].account \in Accounts
    BY <1>0, <1>9, HeldType DEF ImportRow, Holds
  <2> QED
    BY <1>0, <1>a, <1>9, <2>1, ImportType DEF ImportRow
<1>10. ASSUME NEW q \in Requests, Reject(q)
       PROVE  LedgerTypeOK'
  BY <1>0, <1>a, <1>10, ReleaseType
     DEF RowsTypeOK, BalancesTypeOK, Reject, accountVars
<1>11. ASSUME NEW a \in Accounts, CreateAccount(a)
       PROVE  LedgerTypeOK'
  <2>1. DeclaredBalances \subseteq Balance /\ DeclaredBalances \subseteq Int
    BY AmountRange
  <2> QED
    BY <1>11, <2>1 DEF LedgerTypeOK, BalancesTypeOK, Kinds, CreateAccount
<1>12. ASSUME NEW a \in Accounts, DeleteAccount(a)
       PROVE  LedgerTypeOK'
  <2>1. LogsWithout(a) \in [LogIds -> TransferLog \cup {None}]
    BY LogsWithoutType DEF LedgerTypeOK
  <2> QED
    BY <1>12, <2>1, AmountRange
       DEF LedgerTypeOK, BalancesTypeOK, Kinds, DeleteAccount
<1>13. ASSUME NEW a \in Accounts, DecideNew(a)
       PROVE  LedgerTypeOK'
  BY <1>0, <1>a, <1>13, ImportType DEF DecideNew
<1>14. ASSUME NEW t \in TxIds, DeleteTransaction(t) \/ CopyTransaction(t)
       PROVE  LedgerTypeOK'
  <2>1. CASE DeleteTransaction(t)
    BY <1>0, <1>a, <2>1, BookType DEF DeleteTransaction, PostingIds
  <2>2. CASE CopyTransaction(t)
    <3>1. [postings[t] EXCEPT !.imported = FALSE] \in Posting
      BY <1>0, <2>2 DEF RowsTypeOK, PostingIds, CopyTransaction, Posting
    <3>2. PICK copy \in TxIds : Book(copy, [postings[t] EXCEPT !.imported = FALSE])
      BY <2>2 DEF CopyTransaction
    <3> QED
      BY <1>0, <1>a, <2>2, <3>1, <3>2, BookType DEF CopyTransaction, PostingIds
  <2> QED
    BY <1>14, <2>1, <2>2
<1>15. ASSUME NEW r \in ReceiptIds, DeleteReceipt(r)
       PROVE  LedgerTypeOK'
  BY <1>0, <1>a, <1>15, BookType DEF DeleteReceipt, PostingIds
<1>16. ASSUME NEW l \in LogIds, DeleteTransfer(l)
       PROVE  LedgerTypeOK'
  <2> DEFINE log == transferLogs[l]
             d == PairDelta(log.from, log.amount, log.to, -log.amount)
  <2>1. log \in TransferLog
    BY <1>0, <1>16 DEF RowsTypeOK, BalancesTypeOK, DeleteTransfer
  <2>2. log.amount \in Int
    BY <2>1 DEF TransferLog, Amount
  <2>3. d \in Deltas
    BY <2>2 DEF PairDelta, Deltas
  <2>4. ApplyAccountDeltas(d)
    BY <1>16 DEF DeleteTransfer
  <2>5. balance' \in [Accounts -> Balance]
    BY <1>0, <2>3, <2>4, ApplyType DEF RowsTypeOK
  <2> QED
    BY <1>0, <1>a, <1>16, <2>5
       DEF RowsTypeOK, BalancesTypeOK, DeleteTransfer
<1>17. CASE UNCHANGED vars
  BY <1>17 DEF LedgerTypeOK, BalancesTypeOK, vars, accountVars, ledgerVars
<1> QED
  BY <1>1, <1>2, <1>3, <1>4, <1>5, <1>6, <1>7, <1>8, <1>9, <1>10, <1>11,
     <1>12, <1>13, <1>14, <1>15, <1>16, <1>17 DEF Next

(* Every reachable state of the ledger is well formed: balances stay within  *)
(* the column, rows and requests within their types.                         *)
THEOREM LedgerTypeCorrect == Spec => []LedgerTypeOK
BY TypeInit, TypeStep, PTL DEF Spec

-----------------------------------------------------------------------------
(* The inductive invariant.                                                  *)

RowsInv ==
    /\ ReferencesLive
    /\ LogsJoinTwo
    /\ BlankWithoutRow

LEMMA InvParts == LedgerInv <=> LedgerTypeOK /\ RowsInv /\ RequestsApart
BY DEF LedgerInv, RowsInv

(* Booking moves nothing on a missing account and refers to an existing one. *)
LEMMA BookInv ==
    ASSUME LedgerTypeOK, RowsInv, NEW p \in PostingIds,
           NEW row \in Posting \cup {None}, Book(p, row)
    PROVE  RowsInv' /\ kind' = kind
<1>1. Replace(postings[p], row) \in Deltas
  BY ReplaceType DEF LedgerTypeOK
<1>2. ASSUME NEW a \in Accounts, ~Exists(a)
      PROVE  balance'[a] = 0 /\ declared'[a] = 0
  <2>1. Replace(postings[p], row)[a] = 0
    BY <1>2 DEF Book, ApplyAccountDeltas, CanApply, AvailableForOperations
  <2> QED
    BY <1>2, <2>1 DEF Book, ApplyAccountDeltas, Plus, RowsInv, BlankWithoutRow
<1>3. BlankWithoutRow'
  BY <1>2 DEF BlankWithoutRow, Book, Exists
<1>4. \A x \in PostingIds : postings'[x] = IF x = p THEN row ELSE postings[x]
  BY DEF Book, LedgerTypeOK
<1>5. ReferencesLive'
  BY <1>4 DEF RowsInv, ReferencesLive, Exists, Book, AccountExists
<1>6. LogsJoinTwo'
  BY DEF RowsInv, LogsJoinTwo, Book
<1> QED
  BY <1>3, <1>5, <1>6 DEF RowsInv, Book

LEMMA ImportInv ==
    ASSUME LedgerTypeOK, RowsInv, NEW t \in TxIds, NEW a \in Accounts,
           Import(t, a)
    PROVE  RowsInv' /\ kind' = kind
<1>1. PICK delta \in Signed(Sums) :
         /\ Exists(a)
         /\ balance' = [balance EXCEPT ![a] = @ + delta]
         /\ postings' = [postings EXCEPT ![t] =
                [account |-> a, delta |-> delta, imported |-> TRUE]]
         /\ UNCHANGED <<kind, archived, transferLogs, requests, declared>>
  BY DEF Import
<1>2. \A x \in PostingIds :
        postings'[x] = IF x = t
                       THEN [account |-> a, delta |-> delta, imported |-> TRUE]
                       ELSE postings[x]
  BY <1>1 DEF LedgerTypeOK
<1>3. ReferencesLive'
  BY <1>1, <1>2 DEF RowsInv, ReferencesLive, Exists
<1>4. LogsJoinTwo'
  BY <1>1 DEF RowsInv, LogsJoinTwo
<1>5. BlankWithoutRow'
  BY <1>1 DEF RowsInv, BlankWithoutRow, Exists, LedgerTypeOK, BalancesTypeOK
<1> QED
  BY <1>1, <1>3, <1>4, <1>5 DEF RowsInv

(* A step that ends a request or arms its second save, on accounts none of   *)
(* which becomes a deposit, leaves every request off the deposits.           *)
LEMMA ApartKept ==
    ASSUME LedgerTypeOK, RequestsApart,
           NEW q \in Requests, NEW request \in Request,
           request.op \in {"idle", "resave", "api"},
           requests' = [requests EXCEPT ![q] = request],
           \A a \in Accounts : OnDeposit(a)' => OnDeposit(a)
    PROVE  RequestsApart'
<1> SUFFICES ASSUME NEW p \in Requests PROVE RequestApart(p)'
  BY DEF RequestsApart
<1>1. CASE p = q
  BY <1>1 DEF RequestApart, Holds, LedgerTypeOK
<1>2. CASE p # q
  <2>1. requests'[p] = requests[p]
    BY <1>2 DEF LedgerTypeOK
  <2>2. RequestApart(p)
    BY DEF RequestsApart
  <2> QED
    BY <2>1, <2>2, HeldType DEF RequestApart, Holds, LedgerTypeOK
<1> QED
  BY <1>1, <1>2

LEMMA ReleaseApart ==
    ASSUME LedgerTypeOK, RequestsApart, NEW q \in Requests, Release(q),
           \A a \in Accounts : OnDeposit(a)' => OnDeposit(a)
    PROVE  RequestsApart'
<1>1. Idle \in Request /\ Idle.op = "idle"
  BY DEF Request, Idle
<1> QED
  BY <1>1, ApartKept DEF Release

LEMMA SameRequestsApart ==
    ASSUME LedgerTypeOK, RequestsApart, requests' = requests,
           \A a \in Accounts : OnDeposit(a)' => OnDeposit(a)
    PROVE  RequestsApart'
<1> SUFFICES ASSUME NEW p \in Requests PROVE RequestApart(p)'
  BY DEF RequestsApart
<1>1. RequestApart(p)
  BY DEF RequestsApart
<1> QED
  BY <1>1, HeldType DEF RequestApart, Holds, LedgerTypeOK

LEMMA HoldInv ==
    ASSUME LedgerTypeOK, RowsInv, RequestsApart,
           NEW q \in Requests, NEW request \in Request, Hold(q, request),
           request.op \in {"post", "import", "edit"} =>
              ~OnDeposit(request.account),
           request.op = "transfer" =>
              ~OnDeposit(request.from) /\ ~OnDeposit(request.to)
    PROVE  RowsInv' /\ RequestsApart'
<1>1. RowsInv'
  BY DEF Hold, accountVars, RowsInv, ReferencesLive,
         LogsJoinTwo, BlankWithoutRow, Exists
<1>2. ASSUME NEW p \in Requests PROVE RequestApart(p)'
  <2>1. requests'[p] = IF p = q THEN request ELSE requests[p]
    BY DEF Hold, LedgerTypeOK
  <2>2. RequestApart(p) /\ kind' = kind
    BY DEF RequestsApart, Hold, accountVars
  <2> QED
    BY <2>1, <2>2 DEF RequestApart, Holds, OnDeposit
<1> QED
  BY <1>1, <1>2 DEF RequestsApart

LEMMA InvInit == Init => LedgerInv
<1> SUFFICES ASSUME Init PROVE LedgerInv
  OBVIOUS
<1>1. RowsInv
  <2>1. ReferencesLive
    <3>1. \A p \in PostingIds :
            postings[p] # None => Exists(postings[p].account)
      BY DEF Init, OnDeposit, Exists
    <3>2. \A l \in LogIds : transferLogs[l] # None =>
            Exists(transferLogs[l].from) /\ Exists(transferLogs[l].to)
      BY DEF Init
    <3> QED
      BY <3>1, <3>2 DEF ReferencesLive
  <2>2. LogsJoinTwo
    BY DEF Init, LogsJoinTwo
  <2>3. BlankWithoutRow
    BY DEF Init, BlankWithoutRow, Exists
  <2> QED
    BY <2>1, <2>2, <2>3 DEF RowsInv
<1>2. RequestsApart
  BY DEF Init, RequestsApart, RequestApart, Holds, Idle
<1> QED
  BY <1>1, <1>2, TypeInit, InvParts

(* Steps that only take a request's first half.                              *)
LEMMA BeginKeepsInv ==
    ASSUME LedgerTypeOK, RowsInv, RequestsApart,
           NEW q \in Requests, NEW a \in Accounts,
           \/ BeginEdit(q, a)
           \/ BeginPost(q, a)
           \/ BeginReceiptApi(q, a)
           \/ BeginImport(q, a)
           \/ \E to \in Accounts : BeginTransfer(q, a, to)
    PROVE  RowsInv' /\ RequestsApart'
<1>1. CASE BeginEdit(q, a)
  <2> DEFINE request == [op |-> "edit", account |-> a, balance |-> balance[a],
                         archived |-> archived[a]]
  <2>1. request \in Request
    BY DEF LedgerTypeOK, BalancesTypeOK, Request
  <2>2. Hold(q, request) /\ ~OnDeposit(a)
    BY <1>1 DEF BeginEdit, OnDeposit
  <2> QED
    BY <2>1, <2>2, HoldInv
<1>2. CASE BeginPost(q, a)
  <2>1. [op |-> "post", account |-> a] \in Request
    BY DEF Request
  <2>2. Hold(q, [op |-> "post", account |-> a]) /\ ~OnDeposit(a)
    BY <1>2 DEF BeginPost, AvailableForRegularOperations, OnDeposit
  <2> QED
    BY <2>1, <2>2, HoldInv
<1>3. CASE BeginReceiptApi(q, a)
  <2>1. [op |-> "api", account |-> a] \in Request
    BY DEF Request
  <2>2. Hold(q, [op |-> "api", account |-> a])
    BY <1>3 DEF BeginReceiptApi
  <2> QED
    BY <2>1, <2>2, HoldInv
<1>4. CASE BeginImport(q, a)
  <2>1. [op |-> "import", account |-> a] \in Request
    BY DEF Request
  <2>2. Hold(q, [op |-> "import", account |-> a]) /\ ~OnDeposit(a)
    BY <1>4 DEF BeginImport, AvailableForRegularOperations, OnDeposit
  <2> QED
    BY <2>1, <2>2, HoldInv
<1>5. ASSUME NEW to \in Accounts, BeginTransfer(q, a, to)
      PROVE  RowsInv' /\ RequestsApart'
  <2>1. [op |-> "transfer", from |-> a, to |-> to] \in Request
    BY DEF Request
  <2>2. /\ Hold(q, [op |-> "transfer", from |-> a, to |-> to])
        /\ ~OnDeposit(a) /\ ~OnDeposit(to)
    BY <1>5 DEF BeginTransfer, AvailableForRegularOperations, OnDeposit
  <2> QED
    BY <2>1, <2>2, HoldInv
<1> QED
  BY <1>1, <1>2, <1>3, <1>4, <1>5

(* Deltas that move no missing account leave the missing ones at zero.       *)
LEMMA AppliedBlank ==
    ASSUME LedgerTypeOK, BlankWithoutRow, NEW d \in Deltas,
           ApplyAccountDeltas(d), UNCHANGED <<kind, declared>>
    PROVE  BlankWithoutRow'
<1> SUFFICES ASSUME NEW a \in Accounts, ~Exists(a)
             PROVE  balance'[a] = 0 /\ declared'[a] = 0
  BY DEF BlankWithoutRow, Exists
<1>1. d[a] = 0
  BY DEF ApplyAccountDeltas, CanApply, AvailableForOperations
<1> QED
  BY <1>1 DEF ApplyAccountDeltas, Plus, BlankWithoutRow

(* A transfer between two accounts moves, and so finds, both.                *)
LEMMA PairExists ==
    ASSUME NEW a \in Accounts, NEW b \in Accounts, a # b,
           NEW x \in Int \ {0}, ApplyAccountDeltas(PairDelta(a, -x, b, x))
    PROVE  Exists(a) /\ Exists(b)
BY DEF ApplyAccountDeltas, CanApply, AvailableForOperations, PairDelta

(* What a request may post to is off the deposits; the receipts API posts    *)
(* receipts only.                                                            *)
LEMMA InvStep == LedgerInv /\ [Next]_vars => LedgerInv'
<1> SUFFICES ASSUME LedgerInv, [Next]_vars
             PROVE  RowsInv' /\ RequestsApart'
  BY InvParts, TypeStep DEF LedgerInv, RowsInv
<1>0. LedgerTypeOK /\ RowsInv /\ RequestsApart
  BY InvParts
<1>t. /\ RowsTypeOK
      /\ requests \in [Requests -> Request]
      /\ \A p \in PostingIds : postings[p] # None => postings[p] \in Posting
  BY <1>0, TypeParts DEF RowsTypeOK
<1>a. ASSUME kind' = kind
      PROVE  \A a \in Accounts : OnDeposit(a)' => OnDeposit(a)
  BY <1>a DEF OnDeposit
<1>1. ASSUME NEW q \in Requests, NEW a \in Accounts,
             \/ BeginEdit(q, a)
             \/ BeginPost(q, a)
             \/ BeginReceiptApi(q, a)
             \/ BeginImport(q, a)
             \/ \E to \in Accounts : BeginTransfer(q, a, to)
      PROVE  RowsInv' /\ RequestsApart'
  BY <1>0, <1>1, BeginKeepsInv
<1>2. ASSUME NEW q \in Requests, CommitEdit(q)
      PROVE  RowsInv' /\ RequestsApart'
  <2>1. PICK a \in Accounts :
          a = requests[q].account /\ kind' = [kind EXCEPT ![a] = "regular"]
    BY <1>t, <1>2, HeldType DEF CommitEdit, Holds
  <2>2. \A b \in Accounts :
          /\ Exists(b) => Exists(b)'
          /\ OnDeposit(b)' => OnDeposit(b)
          /\ b # a => balance'[b] = balance[b] /\ declared'[b] = declared[b]
    BY <1>t, <1>2, <2>1 DEF CommitEdit, Exists, OnDeposit, RowsTypeOK, BalancesTypeOK
  <2>3. Exists(a)'
    BY <1>t, <2>1 DEF Exists, RowsTypeOK, BalancesTypeOK
  <2>4. ReferencesLive'
    BY <1>0, <1>t, <1>2, <2>2
       DEF CommitEdit, RowsInv, ReferencesLive, Posting, RowsTypeOK,
           BalancesTypeOK, TransferLog, AccountRef
  <2>5. LogsJoinTwo' /\ BlankWithoutRow'
    BY <1>0, <1>2, <2>2, <2>3
       DEF CommitEdit, RowsInv, LogsJoinTwo, BlankWithoutRow
  <2> QED
    BY <1>0, <1>a, <1>2, <2>2, <2>4, <2>5, ReleaseApart
       DEF CommitEdit, RowsInv
<1>3. ASSUME NEW q \in Requests, AddTransaction(q)
      PROVE  RowsInv' /\ RequestsApart'
  <2>1. PICK t \in TxIds, delta \in Signed(Sums) :
          Book(t, [account |-> requests[q].account, delta |-> delta,
                   imported |-> FALSE])
    BY <1>3 DEF AddTransaction
  <2>2. requests[q].account \in Accounts
    BY <1>t, <1>3, HeldType DEF AddTransaction, Holds
  <2>3. [account |-> requests[q].account, delta |-> delta,
         imported |-> FALSE] \in Posting
    BY <2>2, SumsRange, NewPostingType
  <2>4. RowsInv' /\ kind' = kind
    BY <1>0, <2>1, <2>2, <2>3, BookInv DEF PostingIds
  <2> QED
    BY <1>0, <1>a, <1>3, <2>4, ReleaseApart DEF AddTransaction
<1>4. ASSUME NEW q \in Requests, UpdateTransaction(q)
      PROVE  RowsInv' /\ RequestsApart'
  <2>1. PICK t \in TxIds, delta \in Signed(Sums) :
          /\ postings[t] # None
          /\ Book(t, [postings[t] EXCEPT !.account = requests[q].account,
                                         !.delta = delta])
    BY <1>4 DEF UpdateTransaction
  <2> DEFINE row == [postings[t] EXCEPT !.account = requests[q].account,
                                        !.delta = delta]
  <2>2. requests[q].account \in Accounts
    BY <1>t, <1>4, HeldType DEF UpdateTransaction, Holds
  <2>3. row \in Posting /\ row.account = requests[q].account
    BY <1>t, <2>1, <2>2, SumsRange DEF Posting, PostingIds
  <2>4. RowsInv' /\ kind' = kind
    BY <1>0, <2>1, <2>2, <2>3, BookInv DEF PostingIds
  <2> QED
    BY <1>0, <1>a, <1>4, <2>4, ReleaseApart DEF UpdateTransaction
<1>5. ASSUME NEW q \in Requests, TransferMoney(q)
      PROVE  RowsInv' /\ RequestsApart'
  <2> DEFINE from == requests[q].from
             to == requests[q].to
  <2>1. from \in Accounts /\ to \in Accounts /\ from # to
    BY <1>t, <1>5, HeldType DEF TransferMoney
  <2>2. PICK l \in LogIds, amount \in Sums :
          /\ ApplyAccountDeltas(PairDelta(from, -amount, to, amount))
          /\ transferLogs' = [transferLogs EXCEPT ![l] =
                 [from |-> from, to |-> to, amount |-> amount]]
    BY <1>5 DEF TransferMoney, LogTransfer
  <2>3. amount \in Int \ {0}
    BY DEF Amount
  <2>4. Exists(from) /\ Exists(to)
    BY <2>1, <2>2, <2>3, PairExists
  <2>5. UNCHANGED <<kind, archived, postings, declared>>
    BY <1>5 DEF TransferMoney, LogTransfer
  <2>6. \A k \in LogIds :
          transferLogs'[k] = IF k = l THEN [from |-> from, to |-> to,
                                            amount |-> amount]
                             ELSE transferLogs[k]
    BY <1>t, <2>2 DEF RowsTypeOK, BalancesTypeOK
  <2>7. ReferencesLive' /\ LogsJoinTwo'
    BY <1>0, <2>1, <2>4, <2>5, <2>6
       DEF RowsInv, ReferencesLive, LogsJoinTwo, Exists
  <2>8. PairDelta(from, -amount, to, amount) \in Deltas
    BY <2>3 DEF PairDelta, Deltas
  <2>9. BlankWithoutRow'
    BY <1>0, <2>2, <2>5, <2>8, AppliedBlank DEF RowsInv
  <2> QED
    BY <1>0, <1>a, <1>5, <2>5, <2>7, <2>9, ReleaseApart
       DEF RowsInv, TransferMoney, LogTransfer
<1>6. ASSUME NEW q \in Requests, CreateReceipt(q)
      PROVE  RowsInv' /\ RequestsApart'
  <2>1. PICK r \in ReceiptIds, delta \in Signed(Sums) :
          Book(r, [account |-> requests[q].account, delta |-> delta,
                   imported |-> FALSE])
    BY <1>6 DEF CreateReceipt
  <2>2. requests[q].account \in Accounts
    BY <1>t, <1>6, HeldType DEF CreateReceipt
  <2>3. [account |-> requests[q].account, delta |-> delta,
         imported |-> FALSE] \in Posting
    BY <2>2, SumsRange, NewPostingType
  <2>4. RowsInv' /\ kind' = kind
    BY <1>0, <2>1, <2>3, BookInv DEF PostingIds
  <2> QED
    BY <1>0, <1>a, <1>6, <2>4, ReleaseApart DEF CreateReceipt
<1>7. ASSUME NEW q \in Requests, CreateManualReceipt(q) \/ UpdateReceipt(q)
      PROVE  RowsInv' /\ RequestsApart'
  <2>1. PICK r \in ReceiptIds, delta \in Signed(Sums) \cup {0} :
          LET row == [account |-> requests[q].account, delta |-> delta,
                      imported |-> FALSE]
          IN Book(r, row) /\ SaveAgain(q, r, row)
    BY <1>7 DEF CreateManualReceipt, UpdateReceipt
  <2> DEFINE row == [account |-> requests[q].account, delta |-> delta,
                     imported |-> FALSE]
  <2>2. requests[q].account \in Accounts
    BY <1>t, <1>7, HeldType DEF CreateManualReceipt, UpdateReceipt, Holds
  <2>3. row \in Posting
    BY <2>2, SumsRange, NewPostingType
  <2>4. RowsInv' /\ kind' = kind
    BY <1>0, <2>1, <2>3, BookInv DEF PostingIds
  <2>5. [op |-> "resave", receipt |-> r, row |-> row] \in Request
    BY <2>3 DEF Request
  <2>6. RequestsApart'
    BY <1>0, <1>a, <2>1, <2>4, <2>5, ApartKept DEF SaveAgain
  <2> QED
    BY <2>4, <2>6
<1>8. ASSUME NEW q \in Requests, ResaveReceipt(q)
      PROVE  RowsInv' /\ RequestsApart'
  <2> DEFINE r == requests[q].receipt
             row == requests[q].row
  <2>1. r \in ReceiptIds /\ row \in Posting
    BY <1>t, <1>8, HeldType DEF ResaveReceipt
  <2>2. /\ AccountExists(row)
        /\ postings' = [postings EXCEPT ![r] = row]
        /\ declared' = Minus(declared, Replace(postings[r], row))
        /\ UNCHANGED accountVars
    BY <1>8 DEF ResaveReceipt
  <2>3. \A p \in PostingIds : postings'[p] = IF p = r THEN row ELSE postings[p]
    BY <1>t, <2>2 DEF RowsTypeOK
  <2>4. ReferencesLive' /\ LogsJoinTwo'
    BY <1>0, <2>1, <2>2, <2>3
       DEF RowsInv, ReferencesLive, LogsJoinTwo, Exists,
           AccountExists, accountVars, PostingIds
  <2>5. ASSUME NEW a \in Accounts, ~Exists(a)
        PROVE  balance'[a] = 0 /\ declared'[a] = 0
    <3>1. PostingEffect(row)[a] = 0
      BY <2>2, <2>5 DEF PostingEffect, Delta, NoDelta, AccountExists
    <3>2. PostingEffect(postings[r])[a] = 0
      BY <1>0, <2>1, <2>5
         DEF PostingEffect, Delta, NoDelta, RowsInv, ReferencesLive, PostingIds
    <3>3. Replace(postings[r], row)[a] = 0
      BY <3>1, <3>2 DEF Replace, Minus
    <3> QED
      BY <1>0, <2>2, <2>5, <3>3 DEF Minus, RowsInv, BlankWithoutRow, accountVars
  <2>6. BlankWithoutRow'
    BY <2>2, <2>5 DEF BlankWithoutRow, Exists, accountVars
  <2>7. kind' = kind
    BY <2>2 DEF accountVars
  <2> QED
    BY <1>0, <1>a, <1>8, <2>4, <2>6, <2>7, ReleaseApart DEF RowsInv, ResaveReceipt
<1>9. ASSUME NEW q \in Requests, ImportRow(q)
      PROVE  RowsInv' /\ RequestsApart'
  <2>1. requests[q].account \in Accounts
    BY <1>t, <1>9, HeldType DEF ImportRow, Holds
  <2>2. PICK t \in TxIds : Import(t, requests[q].account)
    BY <1>9 DEF ImportRow
  <2>3. RowsInv' /\ kind' = kind
    BY <1>0, <2>1, <2>2, ImportInv
  <2>4. requests' = requests
    BY <2>2 DEF Import
  <2> QED
    BY <1>0, <1>a, <2>3, <2>4, SameRequestsApart
<1>10. ASSUME NEW q \in Requests, Reject(q)
       PROVE  RowsInv' /\ RequestsApart'
  <2>1. RowsInv' /\ kind' = kind
    BY <1>0, <1>10 DEF Reject, accountVars, RowsInv, ReferencesLive,
       LogsJoinTwo, BlankWithoutRow, Exists
  <2> QED
    BY <1>0, <1>a, <1>10, <2>1, ReleaseApart DEF Reject
<1>11. ASSUME NEW a \in Accounts, CreateAccount(a)
       PROVE  RowsInv' /\ RequestsApart'
  <2>1. kind' = [kind EXCEPT ![a] = "regular"]
    BY <1>11 DEF CreateAccount
  <2>2. \A b \in Accounts :
          /\ Exists(b) => Exists(b)'
          /\ OnDeposit(b)' => OnDeposit(b)
          /\ b # a => balance'[b] = balance[b] /\ declared'[b] = declared[b]
    BY <1>t, <1>11, <2>1 DEF CreateAccount, Exists, OnDeposit, RowsTypeOK,
       BalancesTypeOK
  <2>3. Exists(a)'
    BY <1>t, <2>1 DEF Exists, RowsTypeOK, BalancesTypeOK
  <2>4. UNCHANGED <<transferLogs, postings, requests>>
    BY <1>11 DEF CreateAccount
  <2>5. ReferencesLive'
    BY <1>0, <1>t, <2>2, <2>4
       DEF RowsInv, ReferencesLive, Posting, RowsTypeOK,
           BalancesTypeOK, TransferLog, AccountRef
  <2>6. LogsJoinTwo' /\ BlankWithoutRow'
    BY <1>0, <2>2, <2>3, <2>4
       DEF RowsInv, LogsJoinTwo, BlankWithoutRow
  <2> QED
    BY <1>0, <1>a, <2>2, <2>4, <2>5, <2>6, SameRequestsApart DEF RowsInv
<1>12. ASSUME NEW a \in Accounts, DeleteAccount(a)
       PROVE  RowsInv' /\ RequestsApart'
  <2>1. /\ kind' = [kind EXCEPT ![a] = "none"]
        /\ transferLogs' = LogsWithout(a)
        /\ UNCHANGED <<postings, requests>>
        /\ \A p \in PostingIds : postings[p] # None => postings[p].account # a
    BY <1>12 DEF DeleteAccount
  <2>2. \A b \in Accounts :
          /\ b # a => kind'[b] = kind[b]
          /\ b = a => kind'[b] = "none" /\ balance'[b] = 0 /\ declared'[b] = 0
          /\ b # a => balance'[b] = balance[b] /\ declared'[b] = declared[b]
    BY <1>t, <1>12 DEF DeleteAccount, RowsTypeOK, BalancesTypeOK
  <2>3. \A l \in LogIds :
          /\ transferLogs'[l] # None => transferLogs[l] # None
          /\ transferLogs'[l] # None =>
                /\ transferLogs'[l].from = Forget(a, transferLogs[l].from)
                /\ transferLogs'[l].to = Forget(a, transferLogs[l].to)
    BY <1>t, <2>1 DEF LogsWithout, RowsTypeOK, BalancesTypeOK, TransferLog
  <2>4. \A l \in LogIds : transferLogs[l] # None =>
          transferLogs[l].from \in AccountRef /\ transferLogs[l].to \in AccountRef
    BY <1>t DEF RowsTypeOK, BalancesTypeOK, TransferLog
  <2>5. ReferencesLive'
    BY <1>0, <1>t, <2>1, <2>2, <2>3, <2>4
       DEF RowsInv, ReferencesLive, Exists, Forget, AccountRef, Posting
  <2>6. LogsJoinTwo'
    BY <1>0, <2>3, <2>4 DEF RowsInv, LogsJoinTwo, Forget, AccountRef
  <2>7. BlankWithoutRow'
    BY <1>0, <2>2 DEF RowsInv, BlankWithoutRow, Exists
  <2>8. \A b \in Accounts : OnDeposit(b)' => OnDeposit(b)
    BY <2>2 DEF OnDeposit
  <2> QED
    BY <1>0, <1>a, <2>1, <2>5, <2>6, <2>7, <2>8, SameRequestsApart DEF RowsInv
<1>13. ASSUME NEW a \in Accounts, DecideNew(a)
       PROVE  RowsInv' /\ RequestsApart'
  <2>1. PICK t \in TxIds : Import(t, a)
    BY <1>13 DEF DecideNew
  <2>2. RowsInv' /\ kind' = kind
    BY <1>0, <2>1, ImportInv
  <2>3. requests' = requests
    BY <2>1 DEF Import
  <2> QED
    BY <1>0, <1>a, <2>2, <2>3, SameRequestsApart
<1>14. ASSUME NEW t \in TxIds, DeleteTransaction(t) \/ CopyTransaction(t)
       PROVE  RowsInv' /\ RequestsApart'
  <2>1. PICK p \in TxIds, row \in Posting \cup {None} :
          Book(p, row) /\ requests' = requests
    <3>1. CASE DeleteTransaction(t)
      BY <3>1 DEF DeleteTransaction
    <3>2. CASE CopyTransaction(t)
      <4>1. [postings[t] EXCEPT !.imported = FALSE] \in Posting
        BY <1>t, <3>2 DEF CopyTransaction, Posting, PostingIds
      <4> QED
        BY <3>2, <4>1 DEF CopyTransaction
    <3> QED
      BY <1>14, <3>1, <3>2
  <2>2. RowsInv' /\ kind' = kind
    BY <1>0, <2>1, BookInv DEF PostingIds
  <2> QED
    BY <1>0, <1>a, <2>1, <2>2, SameRequestsApart
<1>15. ASSUME NEW r \in ReceiptIds, DeleteReceipt(r)
       PROVE  RowsInv' /\ RequestsApart'
  <2>1. Book(r, None) /\ requests' = requests
    BY <1>15 DEF DeleteReceipt
  <2>2. RowsInv' /\ kind' = kind
    BY <1>0, <2>1, BookInv DEF PostingIds
  <2> QED
    BY <1>0, <1>a, <2>1, <2>2, SameRequestsApart
<1>16. ASSUME NEW l \in LogIds, DeleteTransfer(l)
       PROVE  RowsInv' /\ RequestsApart'
  <2> DEFINE log == transferLogs[l]
             d == PairDelta(log.from, log.amount, log.to, -log.amount)
  <2>1. /\ ApplyAccountDeltas(d)
        /\ transferLogs' = [transferLogs EXCEPT ![l] = None]
        /\ UNCHANGED <<kind, archived, postings, requests, declared>>
    BY <1>16 DEF DeleteTransfer
  <2>2. log \in TransferLog
    BY <1>t, <1>16 DEF RowsTypeOK, BalancesTypeOK, DeleteTransfer
  <2>3. d \in Deltas
    BY <2>2 DEF TransferLog, Amount, PairDelta, Deltas
  <2>4. BlankWithoutRow'
    BY <1>0, <2>1, <2>3, AppliedBlank DEF RowsInv
  <2>5. \A k \in LogIds : transferLogs'[k] # None =>
          transferLogs'[k] = transferLogs[k] /\ transferLogs[k] # None
    BY <1>t, <2>1 DEF RowsTypeOK, BalancesTypeOK
  <2>6. ReferencesLive' /\ LogsJoinTwo'
    BY <1>0, <2>1, <2>5
       DEF RowsInv, ReferencesLive, LogsJoinTwo, Exists
  <2> QED
    BY <1>0, <1>a, <2>1, <2>4, <2>6, SameRequestsApart DEF RowsInv
<1>17. CASE UNCHANGED vars
  <2>1. RowsInv' /\ UNCHANGED <<kind, requests>>
    BY <1>0, <1>17 DEF vars, accountVars, ledgerVars, RowsInv, ReferencesLive,
       LogsJoinTwo, BlankWithoutRow, Exists
  <2> QED
    BY <1>0, <1>a, <2>1, SameRequestsApart
<1> QED
  BY <1>1, <1>2, <1>3, <1>4, <1>5, <1>6, <1>7, <1>8, <1>9, <1>10, <1>11,
     <1>12, <1>13, <1>14, <1>15, <1>16, <1>17 DEF Next

(* The inductive invariant holds in every reachable state: rows refer to     *)
(* rows, no pending request but the receipts API's is on a deposit,          *)
(* transfers join two accounts and what is not there is zero.                *)
THEOREM LedgerInvariant == Spec => []LedgerInv
BY InvInit, InvStep, PTL DEF Spec

(* No posting and no transfer log outlives its account (PROTECT, SET_NULL).  *)
THEOREM ReferencesStayLive == Spec => []ReferencesLive
<1>1. LedgerInv => ReferencesLive
  BY DEF LedgerInv
<1> QED
  BY <1>1, LedgerInvariant, PTL

-----------------------------------------------------------------------------
(* What a step may do to a balance.                                          *)

(* Booking moves only the accounts of the old and the new row, and a row     *)
(* that moves a balance is not the row that was there.                       *)
LEMMA BookMoves ==
    ASSUME LedgerTypeOK, NEW p \in PostingIds,
           NEW row \in Posting \cup {None}, Book(p, row),
           NEW a \in Accounts, balance'[a] # balance[a]
    PROVE  /\ postings'[p] # postings[p]
           /\ \/ row # None /\ row.account = a
              \/ postings[p] # None /\ postings[p].account = a
<1> DEFINE d == Replace(postings[p], row)
<1>1. d \in Deltas /\ postings'[p] = row
  BY ReplaceType DEF LedgerTypeOK, Book
<1>2. d[a] # 0
  <2>1. balance[a] \in Int /\ d[a] \in Int
    BY <1>1, AmountRange DEF LedgerTypeOK, BalancesTypeOK, Deltas
  <2>2. balance'[a] = balance[a] + d[a]
    BY DEF Book, ApplyAccountDeltas, Plus
  <2> QED
    BY <2>1, <2>2
<1>3. PostingEffect(row) \in Deltas /\ PostingEffect(postings[p]) \in Deltas
  BY EffectType DEF LedgerTypeOK
<1>4. PostingEffect(row)[a] # PostingEffect(postings[p])[a]
  BY <1>2, <1>3 DEF Replace, Minus, Deltas
<1>5. \/ row # None /\ row.account = a
      \/ postings[p] # None /\ postings[p].account = a
  <2>1. PostingEffect(row)[a] # 0 \/ PostingEffect(postings[p])[a] # 0
    BY <1>4
  <2> QED
    BY <2>1 DEF PostingEffect, Delta, NoDelta
<1> QED
  BY <1>1, <1>4, <1>5

(* The funds check: a service never leaves below zero what it takes from.    *)
LEMMA AppliedSolvent ==
    ASSUME LedgerTypeOK, NEW d \in Deltas, ApplyAccountDeltas(d),
           NEW a \in Accounts, balance'[a] < balance[a]
    PROVE  balance'[a] >= 0
<1>1. balance[a] \in Int /\ d[a] \in Int /\ balance'[a] = balance[a] + d[a]
  BY AmountRange
     DEF LedgerTypeOK, BalancesTypeOK, Deltas, ApplyAccountDeltas, Plus
<1> QED
  BY <1>1 DEF ApplyAccountDeltas, CanApply, HasFunds

(* Where a transaction may be booked: off the deposits, or on a deposit that *)
(* already has one.                                                          *)
OnOldRowOrApart(p, row) ==
    p \in TxIds /\ row # None =>
       \/ ~OnDeposit(row.account)
       \/ \E t \in TxIds :
             postings[t] # None /\ postings[t].account = row.account

(* Every step books one posting, makes or deletes a transfer, imports a row, *)
(* declares a balance, or moves no balance at all.                           *)
LEMMA StepKinds ==
    ASSUME LedgerInv, Next
    PROVE  \/ \E p \in PostingIds, row \in Posting \cup {None} :
                Book(p, row) /\ OnOldRowOrApart(p, row)
           \/ \E q \in Requests : TransferMoney(q)
           \/ \E l \in LogIds : DeleteTransfer(l)
           \/ \E t \in TxIds, a \in Accounts :
                postings[t] = None /\ ~OnDeposit(a) /\ Import(t, a)
           \/ \E q \in Requests : CommitEdit(q)
           \/ \E a \in Accounts : CreateAccount(a) \/ DeleteAccount(a)
           \/ \E q \in Requests : ResaveReceipt(q)
           \/ UNCHANGED <<accountVars, postings, declared>>
<1> DEFINE Goal == \E p \in PostingIds, row \in Posting \cup {None} :
                      Book(p, row) /\ OnOldRowOrApart(p, row)
<1>0. /\ RowsTypeOK /\ RowsInv /\ RequestsApart
      /\ requests \in [Requests -> Request]
      /\ \A p \in PostingIds : postings[p] # None => postings[p] \in Posting
  BY InvParts, TypeParts DEF RowsTypeOK
<1>1. ASSUME NEW q \in Requests, NEW a \in Accounts,
             \/ BeginEdit(q, a)
             \/ BeginPost(q, a)
             \/ BeginReceiptApi(q, a)
             \/ BeginImport(q, a)
             \/ \E to \in Accounts : BeginTransfer(q, a, to)
      PROVE  UNCHANGED <<accountVars, postings, declared>>
  BY <1>1 DEF BeginEdit, BeginPost, BeginReceiptApi, BeginImport,
     BeginTransfer, Hold
<1>2. ASSUME NEW q \in Requests, AddTransaction(q)
      PROVE  Goal
  <2>1. PICK t \in TxIds, delta \in Signed(Sums) :
          Book(t, [account |-> requests[q].account, delta |-> delta,
                   imported |-> FALSE])
    BY <1>2 DEF AddTransaction
  <2>2. requests[q].account \in Accounts /\ ~OnDeposit(requests[q].account)
    BY <1>0, <1>2, HeldType
       DEF AddTransaction, Holds, RequestsApart, RequestApart
  <2>3. [account |-> requests[q].account, delta |-> delta,
         imported |-> FALSE] \in Posting
    BY <2>2, SumsRange, NewPostingType
  <2> QED
    BY <2>1, <2>2, <2>3 DEF PostingIds, OnOldRowOrApart
<1>3. ASSUME NEW q \in Requests, UpdateTransaction(q)
      PROVE  Goal
  <2>1. PICK t \in TxIds, delta \in Signed(Sums) :
          /\ postings[t] # None
          /\ Book(t, [postings[t] EXCEPT !.account = requests[q].account,
                                         !.delta = delta])
    BY <1>3 DEF UpdateTransaction
  <2> DEFINE row == [postings[t] EXCEPT !.account = requests[q].account,
                                        !.delta = delta]
  <2>2. requests[q].account \in Accounts /\ ~OnDeposit(requests[q].account)
    BY <1>0, <1>3, HeldType
       DEF UpdateTransaction, Holds, RequestsApart, RequestApart
  <2>3. row \in Posting /\ row.account = requests[q].account
    BY <1>0, <2>1, <2>2, SumsRange DEF Posting, PostingIds
  <2> QED
    BY <2>1, <2>2, <2>3 DEF PostingIds, OnOldRowOrApart
<1>4. ASSUME NEW q \in Requests,
             CreateReceipt(q) \/ CreateManualReceipt(q) \/ UpdateReceipt(q)
      PROVE  Goal
  <2>1. PICK r \in ReceiptIds, delta \in Signed(Sums) \cup {0} :
          Book(r, [account |-> requests[q].account, delta |-> delta,
                   imported |-> FALSE])
    BY <1>4 DEF CreateReceipt, CreateManualReceipt, UpdateReceipt
  <2>2. requests[q].account \in Accounts
    BY <1>0, <1>4, HeldType
       DEF CreateReceipt, CreateManualReceipt, UpdateReceipt, Holds
  <2>3. [account |-> requests[q].account, delta |-> delta,
         imported |-> FALSE] \in Posting
    BY <2>2, SumsRange, NewPostingType
  <2> QED
    BY <2>1, <2>3 DEF PostingIds, OnOldRowOrApart
<1>5. ASSUME NEW t \in TxIds, DeleteTransaction(t)
      PROVE  Goal
  BY <1>5 DEF DeleteTransaction, PostingIds, OnOldRowOrApart
<1>6. ASSUME NEW t \in TxIds, CopyTransaction(t)
      PROVE  Goal
  <2>1. PICK copy \in TxIds : Book(copy, [postings[t] EXCEPT !.imported = FALSE])
    BY <1>6 DEF CopyTransaction
  <2>2. /\ [postings[t] EXCEPT !.imported = FALSE] \in Posting
        /\ [postings[t] EXCEPT !.imported = FALSE].account = postings[t].account
    BY <1>0, <1>6 DEF CopyTransaction, Posting, PostingIds
  <2>3. \A c \in TxIds : OnOldRowOrApart(
             c, [postings[t] EXCEPT !.imported = FALSE])
    BY <1>6, <2>2 DEF CopyTransaction, OnOldRowOrApart
  <2> QED
    BY <2>1, <2>2, <2>3 DEF PostingIds
<1>7. ASSUME NEW r \in ReceiptIds, DeleteReceipt(r)
      PROVE  Goal
  BY <1>7 DEF DeleteReceipt, PostingIds, OnOldRowOrApart
<1>8. ASSUME NEW q \in Requests, ImportRow(q)
      PROVE  \E t \in TxIds, a \in Accounts :
                postings[t] = None /\ ~OnDeposit(a) /\ Import(t, a)
  <2>1. requests[q].account \in Accounts /\ ~OnDeposit(requests[q].account)
    BY <1>0, <1>8, HeldType
       DEF ImportRow, Holds, RequestsApart, RequestApart
  <2> QED
    BY <1>8, <2>1 DEF ImportRow, Fresh
<1>9. ASSUME NEW a \in Accounts, DecideNew(a)
      PROVE  \E t \in TxIds, b \in Accounts :
                postings[t] = None /\ ~OnDeposit(b) /\ Import(t, b)
  BY <1>9 DEF DecideNew, Fresh, AvailableForRegularOperations, OnDeposit
<1>10. ASSUME NEW q \in Requests, Reject(q)
       PROVE  UNCHANGED <<accountVars, postings, declared>>
  BY <1>10 DEF Reject
<1> HIDE DEF Goal
<1>11. \/ Goal
       \/ \E q \in Requests : TransferMoney(q)
       \/ \E l \in LogIds : DeleteTransfer(l)
       \/ \E t \in TxIds, a \in Accounts :
                postings[t] = None /\ ~OnDeposit(a) /\ Import(t, a)
       \/ \E q \in Requests : CommitEdit(q)
       \/ \E a \in Accounts : CreateAccount(a) \/ DeleteAccount(a)
       \/ \E q \in Requests : ResaveReceipt(q)
       \/ UNCHANGED <<accountVars, postings, declared>>
  BY <1>1, <1>2, <1>3, <1>4, <1>5, <1>6, <1>7, <1>8, <1>9, <1>10 DEF Next
<1> QED
  BY <1>11 DEF Goal

(* The deltas of a transfer, made or deleted.                                *)
LEMMA TransferDeltas ==
    ASSUME LedgerInv, NEW q \in Requests, TransferMoney(q)
    PROVE  \E l \in LogIds, log \in TransferLog :
             /\ transferLogs[l] = None
             /\ transferLogs' = [transferLogs EXCEPT ![l] = log]
             /\ log.from \in Accounts /\ log.to \in Accounts
             /\ log.from # log.to
             /\ ~OnDeposit(log.from) /\ ~OnDeposit(log.to)
             /\ LogEffect(log) \in Deltas
             /\ ApplyAccountDeltas(LogEffect(log))
             /\ UNCHANGED <<kind, archived, postings, declared>>
<1> DEFINE from == requests[q].from
           to == requests[q].to
<1>1. /\ from \in Accounts /\ to \in Accounts /\ from # to
      /\ ~OnDeposit(from) /\ ~OnDeposit(to)
  BY HeldType, InvParts
     DEF TransferMoney, RequestsApart, RequestApart, LedgerTypeOK
<1>2. PICK l \in LogIds, amount \in Sums :
        /\ transferLogs[l] = None
        /\ ApplyAccountDeltas(PairDelta(from, -amount, to, amount))
        /\ transferLogs' = [transferLogs EXCEPT ![l] =
               [from |-> from, to |-> to, amount |-> amount]]
        /\ UNCHANGED <<kind, archived, postings, declared>>
  BY DEF TransferMoney, LogTransfer
<1> DEFINE log == [from |-> from, to |-> to, amount |-> amount]
<1>3. amount \in Amount /\ amount \in Int
  BY DEF Amount
<1>4. log \in TransferLog
  BY <1>1, <1>3 DEF TransferLog, AccountRef
<1>5. /\ LogEffect(log) = PairDelta(from, -amount, to, amount)
      /\ LogEffect(log) \in Deltas
  <2>1. log # None
    BY <1>4
  <2> QED
    BY <1>1, <1>3, <2>1 DEF LogEffect, Minus, Delta, PairDelta, Deltas
<1> QED
  BY <1>1, <1>2, <1>4, <1>5

LEMMA DeleteDeltas ==
    ASSUME LedgerInv, NEW l \in LogIds, DeleteTransfer(l)
    PROVE  LET log == transferLogs[l]
               d == PairDelta(log.from, log.amount, log.to, -log.amount)
           IN /\ log \in TransferLog
              /\ log.from \in Accounts /\ log.to \in Accounts
              /\ d \in Deltas
              /\ d = Minus(NoDelta, LogEffect(log))
              /\ ApplyAccountDeltas(d)
              /\ transferLogs' = [transferLogs EXCEPT ![l] = None]
              /\ UNCHANGED <<kind, archived, postings, requests, declared>>
<1> DEFINE log == transferLogs[l]
           d == PairDelta(log.from, log.amount, log.to, -log.amount)
<1>1. /\ ApplyAccountDeltas(d)
      /\ transferLogs' = [transferLogs EXCEPT ![l] = None]
      /\ UNCHANGED <<kind, archived, postings, requests, declared>>
      /\ log # None /\ log.from # None /\ log.to # None
  BY DEF DeleteTransfer
<1>2. log \in TransferLog
  BY <1>1 DEF LedgerInv, LedgerTypeOK, BalancesTypeOK
<1>3. log.from \in Accounts /\ log.to \in Accounts /\ log.amount \in Int
  BY <1>1, <1>2 DEF TransferLog, AccountRef, Amount
<1>4. log.from # log.to
  BY <1>1 DEF LedgerInv, LogsJoinTwo
<1>5. d \in Deltas
  BY <1>3 DEF PairDelta, Deltas
<1>6. d = Minus(NoDelta, LogEffect(log))
  BY <1>1, <1>3, <1>4 DEF PairDelta, Minus, NoDelta, LogEffect, Delta
<1> QED
  BY <1>1, <1>2, <1>3, <1>4, <1>5, <1>6

(* Deltas that are zero on an account leave its balance alone.               *)
LEMMA AppliedElsewhere ==
    ASSUME LedgerTypeOK, NEW d \in Deltas, ApplyAccountDeltas(d),
           NEW a \in Accounts, d[a] = 0
    PROVE  balance'[a] = balance[a]
<1>1. balance[a] \in Int
  BY AmountRange DEF LedgerTypeOK, BalancesTypeOK
<1>2. balance'[a] = balance[a] + d[a]
  BY DEF ApplyAccountDeltas, Plus
<1> QED
  BY <1>1, <1>2

MovedByOldRow(a) ==
    \/ \E r \in ReceiptIds : postings'[r] # postings[r]
    \/ \E t \in TxIds : postings[t] # None /\ postings[t].account = a
    \/ \E l \in LogIds :
          /\ transferLogs[l] # None /\ transferLogs'[l] = None
          /\ a \in {transferLogs[l].from, transferLogs[l].to}

(* Outside the deposit service a deposit is moved by receipts and by what is *)
(* already booked on it: no new transaction, transfer or statement row.      *)
THEOREM OldRowsMoveDeposits == Spec => DepositsMovedByOldRows
<1> DEFINE Step ==
        \A a \in Accounts :
          OnDeposit(a) /\ balance'[a] # balance[a] => MovedByOldRow(a)
<1>1. LedgerInv /\ [Next]_vars => [Step]_vars
  <2> SUFFICES ASSUME LedgerInv, Next, NEW a \in Accounts,
                      OnDeposit(a), balance'[a] # balance[a]
               PROVE  MovedByOldRow(a)
    OBVIOUS
  <2>0. LedgerTypeOK /\ RowsInv
    BY InvParts
  <2>1. ASSUME NEW p \in PostingIds, NEW row \in Posting \cup {None},
               Book(p, row), OnOldRowOrApart(p, row)
        PROVE  MovedByOldRow(a)
    <3>1. /\ postings'[p] # postings[p]
          /\ \/ row # None /\ row.account = a
             \/ postings[p] # None /\ postings[p].account = a
      BY <2>0, <2>1, BookMoves
    <3>2. p \in TxIds => \E t \in TxIds :
             postings[t] # None /\ postings[t].account = a
      BY <2>1, <3>1 DEF OnOldRowOrApart
    <3> QED
      BY <3>1, <3>2 DEF PostingIds, MovedByOldRow
  <2>2. ASSUME NEW q \in Requests, TransferMoney(q)
        PROVE  FALSE
    <3>1. PICK log \in TransferLog :
            /\ ~OnDeposit(log.from) /\ ~OnDeposit(log.to)
            /\ log.from \in Accounts /\ log.to \in Accounts
            /\ LogEffect(log) \in Deltas
            /\ ApplyAccountDeltas(LogEffect(log))
      BY <2>2, TransferDeltas
    <3>2. LogEffect(log)[a] = 0
      BY <3>1 DEF LogEffect, Minus, Delta, NoDelta
    <3> QED
      BY <2>0, <3>1, <3>2, AppliedElsewhere
  <2>3. ASSUME NEW l \in LogIds, DeleteTransfer(l)
        PROVE  MovedByOldRow(a)
    <3> DEFINE log == transferLogs[l]
               d == PairDelta(log.from, log.amount, log.to, -log.amount)
    <3>1. /\ d \in Deltas /\ ApplyAccountDeltas(d)
          /\ log # None /\ transferLogs'[l] = None
      BY <2>0, <2>3, DeleteDeltas
         DEF DeleteTransfer, LedgerTypeOK, BalancesTypeOK
    <3>2. a \notin {log.from, log.to} => d[a] = 0
      BY DEF PairDelta
    <3> HIDE DEF d
    <3>3. a \in {log.from, log.to}
      BY <2>0, <3>1, <3>2, AppliedElsewhere
    <3> QED
      BY <3>1, <3>3 DEF MovedByOldRow
  <2>4. ASSUME NEW t \in TxIds, NEW b \in Accounts,
               ~OnDeposit(b), Import(t, b)
        PROVE  FALSE
    BY <2>0, <2>4 DEF Import, LedgerTypeOK, BalancesTypeOK
  <2>5. ASSUME NEW q \in Requests, CommitEdit(q)
        PROVE  FALSE
    <3>1. requests[q].account \in Accounts /\ ~OnDeposit(requests[q].account)
      BY <2>0, <2>5, InvParts, HeldType
         DEF CommitEdit, Holds, LedgerTypeOK, RequestsApart, RequestApart
    <3> QED
      BY <2>0, <2>5, <3>1 DEF CommitEdit, LedgerTypeOK, BalancesTypeOK
  <2>6. ASSUME NEW b \in Accounts, CreateAccount(b) \/ DeleteAccount(b)
        PROVE  FALSE
    BY <2>0, <2>6
       DEF CreateAccount, DeleteAccount, OnDeposit, LedgerTypeOK,
           BalancesTypeOK
  <2>7. ASSUME NEW q \in Requests, ResaveReceipt(q)
        PROVE  FALSE
    BY <2>7 DEF ResaveReceipt, accountVars
  <2>8. CASE UNCHANGED <<accountVars, postings, declared>>
    BY <2>8 DEF accountVars
  <2> QED
    BY <2>1, <2>2, <2>3, <2>4, <2>5, <2>6, <2>7, <2>8, StepKinds
<1> QED
  BY <1>1, LedgerInvariant, PTL DEF Spec, DepositsMovedByOldRows, MovedByOldRow

(* Nobody but a bank statement spends money that is not there.               *)
THEOREM OverdraftsAreImported == Spec => OverdraftIsImported
<1> DEFINE Step ==
        \A a \in Accounts :
          balance'[a] < balance[a] /\ balance'[a] < 0 =>
             \/ kind'[a] # kind[a]
             \/ \E q \in Requests :
                   Ends(q) /\ Holds(q, "edit") /\ requests[q].account = a
             \/ \E t \in TxIds :
                   /\ postings[t] = None
                   /\ postings'[t] # None
                   /\ postings'[t].imported /\ postings'[t].account = a
<1>1. LedgerInv /\ [Next]_vars => [Step]_vars
  <2> SUFFICES ASSUME LedgerInv, Next, NEW a \in Accounts,
                      balance'[a] < balance[a], balance'[a] < 0
               PROVE  \/ kind'[a] # kind[a]
                      \/ \E q \in Requests :
                            /\ Ends(q) /\ Holds(q, "edit")
                            /\ requests[q].account = a
                      \/ \E t \in TxIds :
                            /\ postings[t] = None
                            /\ postings'[t] # None
                            /\ postings'[t].imported
                            /\ postings'[t].account = a
    OBVIOUS
  <2>0. LedgerTypeOK /\ RowsInv /\ balance[a] \in Int
    BY InvParts, AmountRange DEF LedgerTypeOK, BalancesTypeOK
  <2>1. \A d \in Deltas : ~ApplyAccountDeltas(d)
    <3> SUFFICES ASSUME NEW d \in Deltas, ApplyAccountDeltas(d) PROVE FALSE
      OBVIOUS
    <3>1. balance'[a] >= 0
      BY <2>0, AppliedSolvent
    <3>2. balance'[a] \in Int
      BY <2>0 DEF ApplyAccountDeltas, Plus, Deltas
    <3> QED
      BY <3>1, <3>2
  <2>2. ASSUME NEW p \in PostingIds, NEW row \in Posting \cup {None},
               Book(p, row)
        PROVE  FALSE
    BY <2>0, <2>1, <2>2, ReplaceType DEF Book, LedgerTypeOK
  <2>3. ASSUME NEW q \in Requests, TransferMoney(q)
        PROVE  FALSE
    BY <2>1, <2>3, TransferDeltas
  <2>4. ASSUME NEW l \in LogIds, DeleteTransfer(l)
        PROVE  FALSE
    BY <2>1, <2>4, DeleteDeltas
  <2>5. ASSUME NEW t \in TxIds, NEW b \in Accounts,
               postings[t] = None, Import(t, b)
        PROVE  /\ postings[t] = None
               /\ postings'[t] # None
               /\ postings'[t].imported /\ postings'[t].account = a
    <3>1. PICK delta \in Signed(Sums) :
            /\ balance' = [balance EXCEPT ![b] = @ + delta]
            /\ postings' = [postings EXCEPT ![t] =
                   [account |-> b, delta |-> delta, imported |-> TRUE]]
      BY <2>5 DEF Import
    <3>2. b = a
      BY <2>0, <3>1 DEF LedgerTypeOK, BalancesTypeOK
    <3>3. postings'[t] = [account |-> b, delta |-> delta, imported |-> TRUE]
      BY <2>0, <3>1 DEF LedgerTypeOK, PostingIds
    <3>4. postings'[t] # None
      BY <3>3, SumsRange, NewPostingType
    <3>5. postings'[t].imported /\ postings'[t].account = a
      BY <3>2, <3>3
    <3> QED
      BY <2>5, <3>4, <3>5
  <2>6. ASSUME NEW q \in Requests, CommitEdit(q)
        PROVE  Ends(q) /\ Holds(q, "edit") /\ requests[q].account = a
    <3>1. Holds(q, "edit") /\ requests'[q] = Idle
      BY <2>0, <2>6 DEF CommitEdit, Release, LedgerTypeOK
    <3>2. Ends(q)
      BY <3>1 DEF Ends, Holds, Idle
    <3>3. PICK value :
            balance' = [balance EXCEPT ![requests[q].account] = value]
      BY <2>6 DEF CommitEdit
    <3>4. requests[q].account = a
      BY <2>0, <3>3 DEF LedgerTypeOK, BalancesTypeOK
    <3> QED
      BY <3>1, <3>2, <3>4
  <2>7. ASSUME NEW b \in Accounts, CreateAccount(b) \/ DeleteAccount(b)
        PROVE  kind'[a] # kind[a]
    <3>1. b = a
      BY <2>0, <2>7
         DEF CreateAccount, DeleteAccount, LedgerTypeOK, BalancesTypeOK
    <3> QED
      BY <2>0, <2>7, <3>1
         DEF CreateAccount, DeleteAccount, LedgerTypeOK, BalancesTypeOK
  <2>8. ASSUME NEW q \in Requests, ResaveReceipt(q)
        PROVE  FALSE
    BY <2>0, <2>8 DEF ResaveReceipt, accountVars
  <2>9. CASE UNCHANGED <<accountVars, postings, declared>>
    BY <2>0, <2>9 DEF accountVars
  <2> QED
    BY <2>2, <2>3, <2>4, <2>5, <2>6, <2>7, <2>8, <2>9, StepKinds
<1> QED
  BY <1>1, LedgerInvariant, PTL DEF Spec, OverdraftIsImported

-----------------------------------------------------------------------------
(* The ledger implements the book of movements.                              *)

LEMMA LogEffectType ==
    \A log \in TransferLog \cup {None} : LogEffect(log) \in Deltas
BY DEF LogEffect, TransferLog, Amount, NoDelta, Minus, Delta, Deltas

LEMMA EffectsType == LedgerTypeOK => Effects \in [Movements -> Deltas]
BY EffectType, LogEffectType
   DEF LedgerTypeOK, BalancesTypeOK, Effects, Movements

LEMMA NextEffectsType == LedgerTypeOK' => Effects' \in [Movements -> Deltas]
BY EffectType, LogEffectType
   DEF LedgerTypeOK, BalancesTypeOK, Effects, Movements, PostingEffect, LogEffect

(* One movement m takes the effect e, the others keep theirs.                *)
LEMMA EffectChange ==
    ASSUME LedgerTypeOK, LedgerTypeOK', NEW m \in Movements,
           \A n \in Movements \ {m} : Effects'[n] = Effects[n]
    PROVE  /\ Effects' = [Effects EXCEPT ![m] = Effects'[m]]
           /\ Effects'[m] \in [Accounts -> Int]
<1>1. Effects' \in [Movements -> Deltas] /\ Effects \in [Movements -> Deltas]
  BY EffectsType, NextEffectsType
<1> QED
  BY <1>1 DEF Deltas

LEMMA PostingChange ==
    ASSUME LedgerTypeOK, LedgerTypeOK', NEW p \in PostingIds,
           NEW row \in Posting \cup {None},
           postings' = [postings EXCEPT ![p] = row],
           transferLogs' = transferLogs
    PROVE  /\ p \in Movements
           /\ Effects[p] = PostingEffect(postings[p])
           /\ Effects'[p] = PostingEffect(row)
           /\ Effects' = [Effects EXCEPT ![p] = Effects'[p]]
           /\ Effects'[p] \in [Accounts -> Int]
<1>1. p \in Movements /\ p \notin LogIds
  BY DEF Movements, PostingIds
<1>2. Effects[p] = PostingEffect(postings[p]) /\ Effects'[p] = PostingEffect(row)
  BY <1>1 DEF Effects, LedgerTypeOK, PostingEffect
<1>3. \A n \in Movements \ {p} : Effects'[n] = Effects[n]
  BY <1>1 DEF Effects, LedgerTypeOK, Movements, PostingEffect, LogEffect
<1> QED
  BY <1>1, <1>2, <1>3, EffectChange

LEMMA LogChange ==
    ASSUME LedgerTypeOK, LedgerTypeOK', NEW l \in LogIds,
           NEW log \in TransferLog \cup {None},
           transferLogs' = [transferLogs EXCEPT ![l] = log],
           postings' = postings
    PROVE  /\ l \in Movements
           /\ Effects[l] = LogEffect(transferLogs[l])
           /\ Effects'[l] = LogEffect(log)
           /\ Effects' = [Effects EXCEPT ![l] = Effects'[l]]
           /\ Effects'[l] \in [Accounts -> Int]
<1>1. l \in Movements
  BY DEF Movements
<1>2. Effects[l] = LogEffect(transferLogs[l]) /\ Effects'[l] = LogEffect(log)
  BY <1>1 DEF Effects, LedgerTypeOK, BalancesTypeOK, LogEffect
<1>3. \A n \in Movements \ {l} : Effects'[n] = Effects[n]
  BY <1>1 DEF Effects, LedgerTypeOK, BalancesTypeOK, Movements, PostingEffect,
              LogEffect
<1> QED
  BY <1>1, <1>2, <1>3, EffectChange

LEMMA NoChange ==
    ASSUME UNCHANGED <<accountVars, postings, declared>>
    PROVE  UNCHANGED Books!bookVars
BY DEF accountVars, Books!bookVars, Effects, PostingEffect, LogEffect

LEMMA BookReposts ==
    ASSUME LedgerTypeOK, LedgerTypeOK', NEW p \in PostingIds,
           NEW row \in Posting \cup {None}, Book(p, row)
    PROVE  p \in Movements /\ Books!Repost(p)
<1>1. /\ postings' = [postings EXCEPT ![p] = row]
      /\ UNCHANGED <<kind, archived, transferLogs, declared>>
      /\ balance' = Plus(balance, Replace(postings[p], row))
  BY DEF Book, ApplyAccountDeltas
<1>2. /\ p \in Movements
      /\ Effects[p] = PostingEffect(postings[p])
      /\ Effects'[p] = PostingEffect(row)
      /\ Effects' = [Effects EXCEPT ![p] = Effects'[p]]
      /\ Effects'[p] \in [Accounts -> Int]
  BY <1>1, PostingChange
<1>3. balance' = [a \in Accounts |->
                    balance[a] + (Effects'[p][a] - Effects[p][a])]
  BY <1>1, <1>2 DEF Plus, Replace, Minus
<1> QED
  BY <1>1, <1>2, <1>3 DEF Books!Repost

(* Every step of the ledger is a step of the book, or leaves it alone.       *)
LEMMA BookStep ==
    ASSUME LedgerInv, LedgerInv', [Next]_vars
    PROVE  [Books!Next]_Books!bookVars
<1>0. /\ LedgerTypeOK /\ LedgerTypeOK' /\ RowsInv /\ BlankWithoutRow
      /\ requests \in [Requests -> Request]
  BY InvParts DEF LedgerInv, LedgerTypeOK
<1>b. balance \in [Accounts -> Int] /\ balance' \in [Accounts -> Int]
  <2>1. balance \in [Accounts -> Balance] /\ balance' \in [Accounts -> Balance]
    BY <1>0 DEF LedgerTypeOK, BalancesTypeOK
  <2> QED
    BY <1>0, <2>1, AmountRange DEF LedgerTypeOK
<1>1. ASSUME NEW p \in PostingIds, NEW row \in Posting \cup {None}, Book(p, row)
      PROVE  Books!Next
  BY <1>0, <1>1, BookReposts DEF Books!Next
<1>2. ASSUME NEW q \in Requests, TransferMoney(q)
      PROVE  Books!Next
  <2>1. PICK l \in LogIds, log \in TransferLog :
          /\ transferLogs[l] = None
          /\ transferLogs' = [transferLogs EXCEPT ![l] = log]
          /\ ApplyAccountDeltas(LogEffect(log))
          /\ UNCHANGED <<kind, archived, postings, declared>>
    BY <1>2, TransferDeltas
  <2>2. /\ l \in Movements
        /\ Effects[l] = NoDelta
        /\ Effects'[l] = LogEffect(log)
        /\ Effects' = [Effects EXCEPT ![l] = Effects'[l]]
        /\ Effects'[l] \in [Accounts -> Int]
    BY <1>0, <2>1, LogChange DEF LogEffect
  <2>3. balance' = [a \in Accounts |->
                      balance[a] + (Effects'[l][a] - Effects[l][a])]
    BY <2>1, <2>2, <1>b DEF ApplyAccountDeltas, Plus, NoDelta
  <2> QED
    BY <2>1, <2>2, <2>3 DEF Books!Next, Books!Repost
<1>3. ASSUME NEW l \in LogIds, DeleteTransfer(l)
      PROVE  Books!Next
  <2> DEFINE log == transferLogs[l]
             d == PairDelta(log.from, log.amount, log.to, -log.amount)
  <2>1. /\ log \in TransferLog
        /\ d \in Deltas
        /\ d = Minus(NoDelta, LogEffect(log))
        /\ ApplyAccountDeltas(d)
        /\ transferLogs' = [transferLogs EXCEPT ![l] = None]
        /\ UNCHANGED <<kind, archived, postings, requests, declared>>
    BY <1>3, DeleteDeltas
  <2>2. /\ l \in Movements
        /\ Effects[l] = LogEffect(log)
        /\ Effects'[l] = NoDelta
        /\ Effects' = [Effects EXCEPT ![l] = Effects'[l]]
        /\ Effects'[l] \in [Accounts -> Int]
    <3>1. LogEffect(None) = NoDelta
      BY DEF LogEffect
    <3> QED
      BY <1>0, <2>1, <3>1, LogChange
  <2> HIDE DEF d
  <2>d. \A a \in Accounts : d[a] = Effects'[l][a] - Effects[l][a]
    BY <2>1, <2>2 DEF Minus
  <2>3. balance' = [a \in Accounts |->
                      balance[a] + (Effects'[l][a] - Effects[l][a])]
    BY <2>1, <2>d DEF ApplyAccountDeltas, Plus
  <2> QED
    BY <2>1, <2>2, <2>3 DEF Books!Next, Books!Repost
<1>4. ASSUME NEW t \in TxIds, NEW a \in Accounts,
             postings[t] = None, Import(t, a)
      PROVE  Books!Next
  <2>1. PICK delta \in Signed(Sums) :
          /\ balance' = [balance EXCEPT ![a] = @ + delta]
          /\ postings' = [postings EXCEPT ![t] =
                 [account |-> a, delta |-> delta, imported |-> TRUE]]
          /\ UNCHANGED <<kind, archived, transferLogs, requests, declared>>
    BY <1>4 DEF Import
  <2> DEFINE row == [account |-> a, delta |-> delta, imported |-> TRUE]
  <2>2. row \in Posting /\ delta \in Int /\ t \in PostingIds
    BY SumsRange, AmountRange, NewPostingType DEF PostingIds
  <2>3. /\ t \in Movements
        /\ Effects[t] = PostingEffect(postings[t])
        /\ Effects'[t] = PostingEffect(row)
        /\ Effects' = [Effects EXCEPT ![t] = Effects'[t]]
        /\ Effects'[t] \in [Accounts -> Int]
    BY <1>0, <2>1, <2>2, PostingChange
  <2>4. Effects[t] = NoDelta /\ Effects'[t] = Delta(a, delta)
    BY <1>4, <2>2, <2>3 DEF PostingEffect
  <2>5. balance' = [b \in Accounts |->
                      balance[b] + (Effects'[t][b] - Effects[t][b])]
    <3>1. \A b \in Accounts : Effects'[t][b] - Effects[t][b] =
                                  IF b = a THEN delta ELSE 0
      BY <2>2, <2>4 DEF Delta, NoDelta
    <3>2. \A b \in Accounts :
             balance'[b] = balance[b] + (IF b = a THEN delta ELSE 0)
      BY <1>b, <2>1, <2>2
    <3> QED
      BY <1>b, <3>1, <3>2
  <2> QED
    BY <2>1, <2>3, <2>5 DEF Books!Next, Books!Repost
<1>5. ASSUME NEW q \in Requests, CommitEdit(q)
      PROVE  Books!Next
  <2>1. PICK a \in Accounts, value \in Int :
          /\ balance' = [balance EXCEPT ![a] = value]
          /\ declared' = [declared EXCEPT ![a] = @ + (value - balance[a])]
          /\ UNCHANGED <<transferLogs, postings>>
    <3>1. requests[q].account \in Accounts /\ requests[q].balance \in Int
      BY <1>0, <1>5, HeldType, AmountRange DEF CommitEdit, Holds
    <3> QED
      BY <1>5, <3>1, AmountRange DEF CommitEdit
  <2>2. balance'[a] = value
    BY <1>b, <2>1
  <2>3. Effects' = Effects
    BY <2>1 DEF Effects, PostingEffect, LogEffect
  <2> QED
    BY <1>b, <2>1, <2>2, <2>3 DEF Books!Next, Books!Redeclare
<1>6. ASSUME NEW a \in Accounts, CreateAccount(a)
      PROVE  Books!Next
  <2>1. PICK value \in DeclaredBalances :
          /\ kind[a] = "none"
          /\ balance' = [balance EXCEPT ![a] = value]
          /\ declared' = [declared EXCEPT ![a] = value]
          /\ UNCHANGED <<transferLogs, postings>>
    BY <1>6 DEF CreateAccount
  <2>2. value \in Int /\ balance'[a] = value
    BY <1>b, <2>1, AmountRange
  <2>3. balance[a] = 0 /\ declared[a] = 0
    BY <1>0, <2>1 DEF BlankWithoutRow, Exists
  <2>4. declared' = [declared EXCEPT ![a] = @ + (balance'[a] - balance[a])]
    BY <1>b, <2>1, <2>2, <2>3
  <2>5. Effects' = Effects
    BY <2>1 DEF Effects, PostingEffect, LogEffect
  <2> QED
    BY <1>b, <2>1, <2>2, <2>4, <2>5 DEF Books!Next, Books!Redeclare
<1>7. ASSUME NEW a \in Accounts, DeleteAccount(a)
      PROVE  Books!Next
  <2>1. /\ \A p \in PostingIds : postings[p] # None => postings[p].account # a
        /\ balance' = [balance EXCEPT ![a] = 0]
        /\ declared' = [declared EXCEPT ![a] = 0]
        /\ transferLogs' = LogsWithout(a)
        /\ postings' = postings
    BY <1>7 DEF DeleteAccount
  <2>2. \A p \in PostingIds : PostingEffect(postings[p]) =
                               [PostingEffect(postings[p]) EXCEPT ![a] = 0]
    BY <2>1 DEF PostingEffect, NoDelta, Delta
  <2>3. ASSUME NEW l \in LogIds
        PROVE  LogEffect(transferLogs'[l]) =
                   [LogEffect(transferLogs[l]) EXCEPT ![a] = 0]
    <3>1. CASE transferLogs[l] = None
      BY <2>1, <3>1 DEF LogsWithout, LogEffect, NoDelta
    <3>2. CASE transferLogs[l] # None
      <4>1. transferLogs[l] \in TransferLog
        BY <1>0, <3>2 DEF LedgerTypeOK, BalancesTypeOK
      <4>2. /\ transferLogs'[l] \in TransferLog
            /\ transferLogs'[l].from = Forget(a, transferLogs[l].from)
            /\ transferLogs'[l].to = Forget(a, transferLogs[l].to)
            /\ transferLogs'[l].amount = transferLogs[l].amount
        BY <2>1, <3>2, <4>1 DEF LogsWithout, TransferLog, Forget, AccountRef
      <4>3. transferLogs'[l] # None /\ transferLogs[l].amount \in Int
        BY <4>1, <4>2 DEF TransferLog, Amount
      <4>4. \A b \in Accounts : LogEffect(transferLogs'[l])[b] =
                IF b = a THEN 0 ELSE LogEffect(transferLogs[l])[b]
        BY <3>2, <4>2, <4>3 DEF LogEffect, Minus, Delta, Forget
      <4>5. /\ LogEffect(transferLogs'[l]) \in Deltas
            /\ LogEffect(transferLogs[l]) \in Deltas
        BY <4>1, <4>2, LogEffectType
      <4> QED
        BY <4>4, <4>5 DEF Deltas
    <3> QED
      BY <3>1, <3>2
  <2>4. Effects' = [m \in Movements |-> [Effects[m] EXCEPT ![a] = 0]]
    <3>1. \A m \in Movements : Effects'[m] = [Effects[m] EXCEPT ![a] = 0]
      <4> SUFFICES ASSUME NEW m \in Movements
                   PROVE  Effects'[m] = [Effects[m] EXCEPT ![a] = 0]
        OBVIOUS
      <4>1. CASE m \in LogIds
        BY <2>3, <4>1 DEF Effects, LogEffect
      <4>2. CASE m \notin LogIds
        <5>1. m \in PostingIds
          BY <4>2 DEF Movements
        <5>2. Effects'[m] = PostingEffect(postings[m])
          BY <2>1, <4>2 DEF Effects, PostingEffect
        <5>3. Effects[m] = PostingEffect(postings[m])
          BY <4>2 DEF Effects
        <5> QED
          BY <2>2, <5>1, <5>2, <5>3
      <4> QED
        BY <4>1, <4>2
    <3>2. Effects' \in [Movements -> Deltas]
      BY <1>0, NextEffectsType
    <3> QED
      BY <3>1, <3>2
  <2> QED
    BY <2>1, <2>4 DEF Books!Next, Books!Strike
<1>8. ASSUME NEW q \in Requests, ResaveReceipt(q)
      PROVE  Books!Next
  <2> DEFINE r == requests[q].receipt
             row == requests[q].row
  <2>1. /\ postings' = [postings EXCEPT ![r] = row]
        /\ declared' = Minus(declared, Replace(postings[r], row))
        /\ UNCHANGED accountVars
    BY <1>8 DEF ResaveReceipt
  <2>2. r \in PostingIds /\ row \in Posting
    BY <1>0, <1>8, HeldType DEF ResaveReceipt, PostingIds
  <2>3. /\ r \in Movements
        /\ Effects[r] = PostingEffect(postings[r])
        /\ Effects'[r] = PostingEffect(row)
        /\ Effects' = [Effects EXCEPT ![r] = Effects'[r]]
        /\ Effects'[r] \in [Accounts -> Int]
    BY <1>0, <2>1, <2>2, PostingChange DEF accountVars
  <2>4. declared' = [a \in Accounts |->
                       declared[a] - (Effects'[r][a] - Effects[r][a])]
    BY <2>1, <2>3 DEF Minus, Replace
  <2> QED
    BY <2>1, <2>3, <2>4 DEF Books!Next, Books!Misstate, accountVars
<1>9. CASE UNCHANGED <<accountVars, postings, declared>>
  BY <1>9, NoChange
<1>10. CASE UNCHANGED vars
  BY <1>9, <1>10 DEF vars, ledgerVars
<1>11. CASE Next
  BY <1>1, <1>2, <1>3, <1>4, <1>5, <1>6, <1>7, <1>8, <1>9, <1>11, StepKinds
<1> QED
  BY <1>10, <1>11

LEMMA BookInit == Init => Books!Init
<1> SUFFICES ASSUME Init PROVE Books!Init
  OBVIOUS
<1>1. LedgerTypeOK
  BY TypeInit
<1>2. balance \in [Accounts -> Int]
  BY <1>1, AmountRange DEF LedgerTypeOK, BalancesTypeOK
<1>3. Effects \in [Movements -> [Accounts -> Int]]
  BY <1>1, EffectsType DEF Deltas
<1> QED
  BY <1>2, <1>3 DEF Books!Init

(* The ledger implements the book: whatever the interleaving of requests,    *)
(* each step posts, changes or strikes out one movement with its exact       *)
(* effect on the balances, declares a balance or is a receipt form's second  *)
(* save.                                                                     *)
THEOREM LedgerImplementsBook == Spec => BookSpec
<1>1. LedgerInv /\ LedgerInv' /\ [Next]_vars => [Books!Next]_Books!bookVars
  BY BookStep
<1> QED
  BY <1>1, BookInit, LedgerInvariant, PTL DEF Spec, BookSpec, Books!Spec

-----------------------------------------------------------------------------
(* The sum of the movements.  It is a sum over finitely many, and a step     *)
(* changes one of them, or all of one account.                               *)
Column(E, a) == [m \in Movements |-> E[m][a]]
SumOf(E, a) == SumFunction(Column(E, a))

OnlyAt(m, E, F) == \A n \in Movements \ {m} : F[n] = E[n]

LEMMA FinitelyMany == IsFiniteSet(Movements)
BY FS_Union DEF Movements, PostingIds

LEMMA ColumnFacts ==
    ASSUME NEW E \in [Movements -> [Accounts -> Int]], NEW a \in Accounts
    PROVE  /\ DOMAIN Column(E, a) = Movements
           /\ \A m \in Movements : Column(E, a)[m] = E[m][a]
           /\ \A m \in Movements : Column(E, a)[m] \in Int
           /\ SumOf(E, a) = SumFunctionOnSet(Column(E, a), Movements)
           /\ SumOf(E, a) \in Int
<1>1. /\ DOMAIN Column(E, a) = Movements
      /\ \A m \in Movements : Column(E, a)[m] = E[m][a]
      /\ \A m \in Movements : Column(E, a)[m] \in Int
  BY DEF Column
<1>2. SumOf(E, a) = SumFunctionOnSet(Column(E, a), Movements)
  BY <1>1 DEF SumOf, SumFunction
<1>3. SumFunctionOnSet(Column(E, a), Movements) \in Int
  <2> HIDE DEF Column
  <2> QED BY <1>1, FinitelyMany, SumIsInt
<1> QED BY <1>1, <1>2, <1>3

LEMMA OneMoves ==
    ASSUME NEW E \in [Movements -> [Accounts -> Int]], NEW a \in Accounts,
           NEW F \in [Movements -> [Accounts -> Int]], NEW m \in Movements,
           OnlyAt(m, E, F)
    PROVE  SumOf(F, a) = SumOf(E, a) + (F[m][a] - E[m][a])
<1> DEFINE f == Column(E, a)
           g == Column(F, a)
<1>1. \A n \in Movements : f[n] \in Int /\ g[n] \in Int
  BY ColumnFacts
<1>2. \A n \in Movements \ {m} : f[n] = g[n]
  BY ColumnFacts DEF OnlyAt
<1>3. SumFunctionOnSet(g, Movements) = SumFunctionOnSet(f, Movements) - f[m] + g[m]
  <2> HIDE DEF f, g
  <2> QED BY <1>1, <1>2, FinitelyMany, SumOfChanged
<1> QED BY <1>3, ColumnFacts

LEMMA NoneMoves ==
    ASSUME NEW E \in [Movements -> [Accounts -> Int]], NEW a \in Accounts,
           NEW F \in [Movements -> [Accounts -> Int]],
           \A n \in Movements : F[n][a] = E[n][a]
    PROVE  SumOf(F, a) = SumOf(E, a)
BY DEF SumOf, Column

LEMMA NothingThere ==
    ASSUME NEW E \in [Movements -> [Accounts -> Int]], NEW a \in Accounts,
           \A n \in Movements : E[n][a] = 0
    PROVE  SumOf(E, a) = 0
<1>1. \A n \in Movements : Column(E, a)[n] = 0
  BY ColumnFacts
<1> QED
  BY <1>1, ColumnFacts, FinitelyMany, SumOfZeros

-----------------------------------------------------------------------------
(* The book keeps its balances explained, whatever is posted on it.          *)
BookOK ==
    /\ balance \in [Accounts -> Int] /\ declared \in [Accounts -> Int]
    /\ Effects \in [Movements -> [Accounts -> Int]]
    /\ \A a \in Accounts : balance[a] = declared[a] + SumOf(Effects, a)

LEMMA ExplainedSums ==
    BalancesExplained <=>
        \A a \in Accounts : balance[a] = declared[a] + SumOf(Effects, a)
<1>1. ASSUME NEW f PROVE Books!SumFunction(f) = SumFunction(f)
  BY DEF Books!SumFunction, Books!SumFunctionOnSet, Books!FoldFunctionOnSet,
         Books!MapThenFoldSet, SumFunction, SumFunctionOnSet,
         FoldFunctionOnSet, MapThenFoldSet
<1>2. \A a \in Accounts :
          Books!SumFunction([m \in Movements |-> Effects[m][a]]) = SumOf(Effects, a)
  BY <1>1 DEF SumOf, Column
<1> QED BY <1>2 DEF BalancesExplained, Books!Explained

LEMMA BookKeepsExplained ==
    ASSUME BookOK, [Books!Next]_Books!bookVars,
           balance' \in [Accounts -> Int],
           Effects' \in [Movements -> [Accounts -> Int]]
    PROVE  BookOK'
<1> DEFINE E == Effects
           F == Effects'
<1> SUFFICES /\ declared' \in [Accounts -> Int]
             /\ \A a \in Accounts : balance'[a] = declared'[a] + SumOf(F, a)
  BY DEF BookOK, SumOf, Column
<1>0. /\ balance \in [Accounts -> Int] /\ declared \in [Accounts -> Int]
      /\ E \in [Movements -> [Accounts -> Int]]
      /\ F \in [Movements -> [Accounts -> Int]]
      /\ \A a \in Accounts : balance[a] = declared[a] + SumOf(E, a)
  BY DEF BookOK
<1> HIDE DEF E, F
<1>s. \A a \in Accounts : SumOf(E, a) \in Int /\ SumOf(F, a) \in Int
  BY <1>0, ColumnFacts
<1>1. ASSUME NEW m \in Movements, Books!Repost(m)
      PROVE  /\ declared' \in [Accounts -> Int]
             /\ \A a \in Accounts : balance'[a] = declared'[a] + SumOf(F, a)
  <2>1. /\ F = [E EXCEPT ![m] = F[m]] /\ declared' = declared
        /\ \A a \in Accounts : balance'[a] = balance[a] + (F[m][a] - E[m][a])
    BY <1>1 DEF Books!Repost, E, F
  <2>2. OnlyAt(m, E, F)
    BY <1>0, <2>1 DEF OnlyAt
  <2>3. ASSUME NEW a \in Accounts
        PROVE  SumOf(F, a) = SumOf(E, a) + (F[m][a] - E[m][a])
    <3>1. PICK e, f : e = E /\ f = F
      OBVIOUS
    <3>2. /\ e \in [Movements -> [Accounts -> Int]]
          /\ f \in [Movements -> [Accounts -> Int]]
          /\ OnlyAt(m, e, f)
      BY <1>0, <2>2, <3>1
    <3>3. SumOf(f, a) = SumOf(e, a) + (f[m][a] - e[m][a])
      BY <3>2, OneMoves
    <3> QED BY <3>1, <3>3
  <2>4. \A a \in Accounts : F[m][a] \in Int /\ E[m][a] \in Int
    BY <1>0
  <2> QED BY <1>0, <1>s, <2>1, <2>3, <2>4
<1>2. ASSUME NEW m \in Movements, Books!Misstate(m)
      PROVE  /\ declared' \in [Accounts -> Int]
             /\ \A a \in Accounts : balance'[a] = declared'[a] + SumOf(F, a)
  <2>1. /\ F = [E EXCEPT ![m] = F[m]] /\ balance' = balance
        /\ declared' = [a \in Accounts |-> declared[a] - (F[m][a] - E[m][a])]
    BY <1>2 DEF Books!Misstate, E, F
  <2>2. OnlyAt(m, E, F)
    BY <1>0, <2>1 DEF OnlyAt
  <2>3. ASSUME NEW a \in Accounts
        PROVE  SumOf(F, a) = SumOf(E, a) + (F[m][a] - E[m][a])
    <3>1. PICK e, f : e = E /\ f = F
      OBVIOUS
    <3>2. /\ e \in [Movements -> [Accounts -> Int]]
          /\ f \in [Movements -> [Accounts -> Int]]
          /\ OnlyAt(m, e, f)
      BY <1>0, <2>2, <3>1
    <3>3. SumOf(f, a) = SumOf(e, a) + (f[m][a] - e[m][a])
      BY <3>2, OneMoves
    <3> QED BY <3>1, <3>3
  <2>4. \A a \in Accounts : F[m][a] \in Int /\ E[m][a] \in Int
    BY <1>0
  <2> QED BY <1>0, <1>s, <2>1, <2>3, <2>4
<1>3. ASSUME NEW b \in Accounts, Books!Redeclare(b)
      PROVE  /\ declared' \in [Accounts -> Int]
             /\ \A a \in Accounts : balance'[a] = declared'[a] + SumOf(F, a)
  <2>1. /\ balance'[b] \in Int /\ balance' = [balance EXCEPT ![b] = balance'[b]]
        /\ declared' = [declared EXCEPT ![b] = @ + (balance'[b] - balance[b])]
        /\ F = E
    BY <1>3 DEF Books!Redeclare, E, F
  <2> QED BY <1>0, <1>s, <2>1
<1>4. ASSUME NEW b \in Accounts, Books!Strike(b)
      PROVE  /\ declared' \in [Accounts -> Int]
             /\ \A a \in Accounts : balance'[a] = declared'[a] + SumOf(F, a)
  <2>1. /\ balance' = [balance EXCEPT ![b] = 0]
        /\ declared' = [declared EXCEPT ![b] = 0]
        /\ F = [m \in Movements |-> [E[m] EXCEPT ![b] = 0]]
    BY <1>4 DEF Books!Strike, E, F
  <2>2. \A m \in Movements : F[m][b] = 0
    BY <1>0, <2>1
  <2>3. SumOf(F, b) = 0
    BY <1>0, <2>2, NothingThere
  <2>4. ASSUME NEW a \in Accounts, a # b PROVE SumOf(F, a) = SumOf(E, a)
    <3>1. \A m \in Movements : F[m][a] = E[m][a]
      BY <1>0, <2>1, <2>4
    <3> QED BY <1>0, <3>1, NoneMoves
  <2>5. \A a \in Accounts : balance'[a] = declared'[a] + SumOf(F, a)
    <3> SUFFICES ASSUME NEW a \in Accounts
                 PROVE  balance'[a] = declared'[a] + SumOf(F, a)
      OBVIOUS
    <3>1. CASE a = b
      BY <1>0, <2>1, <2>3, <3>1
    <3>2. CASE a # b
      <4>1. balance'[a] = balance[a] /\ declared'[a] = declared[a]
        BY <1>0, <2>1, <3>2
      <4> QED BY <1>0, <2>4, <3>2, <4>1
    <3> QED BY <3>1, <3>2
  <2> QED BY <1>0, <2>1, <2>5
<1>5. CASE UNCHANGED Books!bookVars
  <2>1. balance' = balance /\ declared' = declared /\ F = E
    BY <1>5 DEF Books!bookVars, E, F
  <2> QED BY <1>0, <2>1
<1> QED
  BY <1>1, <1>2, <1>3, <1>4, <1>5 DEF Books!Next

LEMMA ExplainedInit == Init => BookOK
<1> SUFFICES ASSUME Init PROVE BookOK
  OBVIOUS
<1>1. LedgerTypeOK /\ RowsInv
  BY InvInit, InvParts
<1>2. balance \in [Accounts -> Int]
  BY <1>1, AmountRange DEF LedgerTypeOK, BalancesTypeOK
<1>3. Effects \in [Movements -> [Accounts -> Int]]
  BY <1>1, EffectsType DEF Deltas
<1>4. \A a \in Accounts : SumOf(Effects, a) \in Int
  BY <1>3, ColumnFacts
<1>5. \A a \in Accounts : Unexplained(a) = balance[a] - SumOf(Effects, a)
  BY DEF Unexplained, SumOf, Column
<1>6. ASSUME NEW a \in Accounts, ~Exists(a) PROVE SumOf(Effects, a) = 0
  <2>1. \A m \in Movements : Effects[m][a] = 0
    BY <1>1, <1>6 DEF Effects, RowsInv, ReferencesLive, PostingEffect, LogEffect,
       NoDelta, Delta, Minus, Movements
  <2> QED BY <1>3, <2>1, NothingThere
<1>7. /\ declared = [a \in Accounts |-> IF Exists(a) THEN Unexplained(a) ELSE 0]
      /\ \A a \in Accounts : ~Exists(a) => balance[a] = 0
  BY DEF Init, Exists
<1> QED
  BY <1>2, <1>3, <1>4, <1>5, <1>6, <1>7 DEF BookOK

LEMMA ExplainedStep ==
    ASSUME LedgerInv, LedgerInv', BookOK, [Next]_vars PROVE BookOK'
<1>1. [Books!Next]_Books!bookVars
  BY BookStep
<1>2. LedgerTypeOK'
  BY DEF LedgerInv
<1>3. balance' \in [Accounts -> Int]
  BY <1>2, AmountRange DEF LedgerTypeOK, BalancesTypeOK
<1>4. Effects' \in [Movements -> [Accounts -> Int]]
  BY <1>2, NextEffectsType DEF Deltas
<1> QED
  BY <1>1, <1>3, <1>4, BookKeepsExplained

(* Every balance is what its owner declared plus the sum of the transactions,*)
(* receipts and transfers now stored, however requests have crossed.         *)
THEOREM BalancesStayExplained == Spec => []BalancesExplained
<1>1. BookOK => BalancesExplained
  BY ExplainedSums DEF BookOK
<1>2. LedgerInv /\ LedgerInv' /\ BookOK /\ [Next]_vars => BookOK'
  BY ExplainedStep
<1> QED
  BY <1>1, <1>2, ExplainedInit, LedgerInvariant, PTL DEF Spec

LEMMA DeclaredIsRest ==
    ASSUME BookOK, NEW a \in Accounts PROVE Unexplained(a) = declared[a]
<1>1. SumOf(Effects, a) \in Int
  BY ColumnFacts DEF BookOK
<1>2. Unexplained(a) = balance[a] - SumOf(Effects, a)
  BY DEF Unexplained, SumOf, Column
<1>3. balance[a] = declared[a] + SumOf(Effects, a) /\ declared[a] \in Int
  BY DEF BookOK
<1> QED BY <1>1, <1>2, <1>3

LEMMA NextDeclaredIsRest ==
    ASSUME BookOK', NEW a \in Accounts PROVE Unexplained(a)' = declared'[a]
<1>1. SumOf(Effects', a) \in Int
  BY ColumnFacts DEF BookOK
<1>2. Unexplained(a)' = balance'[a] - SumOf(Effects', a)
  BY DEF Unexplained, SumOf, Column
<1>3. balance'[a] = declared'[a] + SumOf(Effects', a) /\ declared'[a] \in Int
  BY DEF BookOK, SumOf, Column
<1> QED BY <1>1, <1>2, <1>3

(* A second save that finds the receipt as its form left it restates nothing.*)
LEMMA ResaveRestatesNothing ==
    ASSUME LedgerInv, BookOK, NEW q \in Requests, ResaveReceipt(q), ~LostRace(q),
           NEW a \in Accounts
    PROVE  declared'[a] = declared[a]
<1> DEFINE r == requests[q].receipt
           row == requests[q].row
<1>1. postings[r] = row /\ Holds(q, "resave")
  BY DEF ResaveReceipt, LostRace
<1>2. row \in Posting
  BY <1>1, HeldType DEF LedgerInv, LedgerTypeOK
<1>3. PostingEffect(row)[a] \in Int
  BY <1>2, EffectType DEF Deltas
<1>4. declared' = Minus(declared, Replace(row, row))
  BY <1>1 DEF ResaveReceipt
<1>5. Replace(row, row)[a] = PostingEffect(row)[a] - PostingEffect(row)[a]
  <2> HIDE DEF row
  <2> QED BY DEF Replace, Minus
<1>6. declared'[a] = declared[a] - Replace(row, row)[a]
  <2> HIDE DEF row
  <2> QED BY <1>4 DEF Minus
<1>7. declared[a] \in Int
  BY DEF BookOK
<1> HIDE DEF row
<1> QED BY <1>3, <1>5, <1>6, <1>7

LEMMA DeclarationStep ==
    ASSUME LedgerInv, LedgerInv', BookOK, BookOK', [Next]_vars,
           NEW a \in Accounts, Unexplained(a)' # Unexplained(a)
    PROVE  \/ kind'[a] # kind[a]
           \/ \E q \in Requests :
                 Ends(q) /\ Holds(q, "edit") /\ requests[q].account = a
           \/ \E q \in Requests : Ends(q) /\ LostRace(q)
<1>1. declared'[a] # declared[a]
  BY DeclaredIsRest, NextDeclaredIsRest
<1>2. requests \in [Requests -> Request] /\ declared \in [Accounts -> Int]
      /\ kind \in [Accounts -> Kinds]
  BY DEF LedgerInv, LedgerTypeOK, BalancesTypeOK, BookOK
<1>3. Next
  BY <1>1 DEF vars, ledgerVars
<1>4. ASSUME NEW q \in Requests, NEW op \in {"edit", "resave"}, Holds(q, op),
             Release(q)
      PROVE  Ends(q)
  BY <1>2, <1>4 DEF Ends, Holds, Release, Idle
<1>5. ASSUME NEW q \in Requests, CommitEdit(q)
      PROVE  Ends(q) /\ Holds(q, "edit") /\ requests[q].account = a
  <2>1. Holds(q, "edit") /\ Release(q)
    BY <1>5 DEF CommitEdit
  <2>2. \E value : declared' = [declared EXCEPT ![requests[q].account] = value]
    BY <1>5 DEF CommitEdit
  <2>3. requests[q].account = a
    BY <1>1, <1>2, <2>2
  <2> QED BY <1>4, <2>1, <2>3
<1>6. ASSUME NEW b \in Accounts, CreateAccount(b) \/ DeleteAccount(b)
      PROVE  kind'[a] # kind[a]
  <2>1. \E value : declared' = [declared EXCEPT ![b] = value]
    BY <1>6 DEF CreateAccount, DeleteAccount
  <2>2. a = b
    BY <1>1, <1>2, <2>1
  <2> QED BY <1>2, <1>6, <2>2 DEF CreateAccount, DeleteAccount
<1>7. ASSUME NEW q \in Requests, ResaveReceipt(q)
      PROVE  Ends(q) /\ LostRace(q)
  <2>1. LostRace(q)
    BY <1>1, <1>7, ResaveRestatesNothing
  <2>2. Holds(q, "resave") /\ Release(q)
    BY <1>7 DEF ResaveReceipt
  <2> QED BY <1>4, <2>1, <2>2
<1>8. ASSUME NEW p \in PostingIds, NEW row \in Posting \cup {None}, Book(p, row)
      PROVE  FALSE
  BY <1>1, <1>8 DEF Book
<1>9. ASSUME NEW q \in Requests, TransferMoney(q) PROVE FALSE
  BY <1>1, <1>9 DEF TransferMoney, LogTransfer
<1>10. ASSUME NEW l \in LogIds, DeleteTransfer(l) PROVE FALSE
  BY <1>1, <1>10 DEF DeleteTransfer
<1>11. ASSUME NEW t \in TxIds, NEW b \in Accounts, Import(t, b) PROVE FALSE
  BY <1>1, <1>11 DEF Import
<1>12. ~ UNCHANGED <<accountVars, postings, declared>>
  BY <1>1
<1> QED
  BY <1>3, <1>5, <1>6, <1>7, <1>8, <1>9, <1>10, <1>11, <1>12, StepKinds

(* No request changes what the movements leave unexplained but a form that   *)
(* creates, deletes or saves the account, and a second save of a receipt     *)
(* another request changed meanwhile.                                        *)
THEOREM FormsAloneDeclare == Spec => OnlyFormsDeclare
<1>1. LedgerInv /\ LedgerInv' /\ BookOK /\ [Next]_vars => BookOK'
  BY ExplainedStep
<1>2. LedgerInv /\ LedgerInv' /\ BookOK /\ BookOK' /\ [Next]_vars =>
        [ \A a \in Accounts : Unexplained(a)' # Unexplained(a) =>
          \/ kind'[a] # kind[a]
          \/ \E q \in Requests :
                Ends(q) /\ Holds(q, "edit") /\ requests[q].account = a
          \/ \E q \in Requests : Ends(q) /\ LostRace(q) ]_vars
  BY DeclarationStep
<1> QED
  BY <1>1, <1>2, ExplainedInit, LedgerInvariant, PTL DEF Spec, OnlyFormsDeclare
=============================================================================
