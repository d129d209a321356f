------------------------------- MODULE Ledger -------------------------------
(* Everyday money: transactions, receipts, transfers between accounts, the   *)
(* account forms and API, and the rows a bank statement import posts.        *)
(*                                                                           *)
(* A request validates its form, or loads its object, without a lock (a      *)
(* Begin action) and commits later in one database transaction; `requests`   *)
(* holds what it read in between.  Operations that read and write under the  *)
(* locks they take are single actions.  One owner and one currency: the      *)
(* services compare owners first and change nothing when they differ.        *)
EXTENDS Balances, FiniteSets, Functions

CONSTANTS
    TxIds,             \* primary keys of transactions
    ReceiptIds,        \* primary keys of receipts
    Requests,          \* concurrent web requests and import tasks
    Sums,              \* the amounts that forms and statements carry
    DeclaredBalances   \* the balances that account forms carry

VARIABLES
    postings,  \* rows of transactions_transaction and receipts_receipt
    requests,  \* what each request holds between its two steps
    declared   \* history: the part of a balance no posting or log explains

ledgerVars == <<postings, requests, declared>>
vars == <<accountVars, ledgerVars>>

PostingIds == TxIds \cup ReceiptIds

(* A transaction or a receipt: the account it is booked on, its signed       *)
(* effect, and whether a bank statement brought it (source_ref,              *)
(* source_file_hash).                                                        *)
Posting == [account : Accounts, delta : Balance, imported : BOOLEAN]

ASSUME LedgerAssumption ==
    /\ Sums \subseteq Amount
    /\ DeclaredBalances \subseteq Balance
    /\ TxIds \cap ReceiptIds = {}
    /\ (TxIds \cup ReceiptIds) \cap LogIds = {}
    /\ IsFiniteSet(TxIds) /\ IsFiniteSet(ReceiptIds) /\ IsFiniteSet(LogIds)
    /\ None \notin TxIds \cup ReceiptIds \cup LogIds
    /\ None \notin Posting

Signed(S) == S \cup {-x : x \in S}

Idle == [op |-> "idle"]

Request ==
    {Idle}
    \cup [op : {"post", "api", "import"}, account : Accounts]
    \cup [op : {"transfer"}, from : Accounts, to : Accounts]
    \cup [op : {"edit"}, account : Accounts, balance : Balance,
          archived : BOOLEAN]
    \cup [op : {"resave"}, receipt : ReceiptIds, row : Posting]

LedgerTypeOK ==
    /\ BalancesTypeOK
    /\ postings \in [PostingIds -> Posting \cup {None}]
    /\ requests \in [Requests -> Request]
    /\ DOMAIN declared = Accounts

PostingEffect(row) ==
    IF row = None THEN NoDelta ELSE Delta(row.account, row.delta)

(* What the database moves to replace row `old` by row `new`.                *)
Replace(old, new) == Minus(PostingEffect(new), PostingEffect(old))

Movements == PostingIds \cup LogIds

(* The ledger as a book of movements.                                        *)
Effects ==
    [m \in Movements |->
        IF m \in LogIds THEN LogEffect(transferLogs[m])
        ELSE PostingEffect(postings[m])]

(* What an account shows beyond the sum of its movements.                    *)
Unexplained(a) ==
    balance[a] - SumFunction([m \in Movements |-> Effects[m][a]])

OnDeposit(a) == kind[a] = "deposit"

(* A database with some accounts, which may be deposits, open or closed, and *)
(* what the rest of the system has left on the deposits: the rows that were  *)
(* on an account converted to a deposit, the logs of the deposit service's   *)
(* own transfers.                                                            *)
Init ==
    /\ kind \in [Accounts -> Kinds]
    /\ balance \in [Accounts -> DeclaredBalances \cup {0}]
    /\ archived \in [Accounts -> BOOLEAN]
    /\ \A a \in Accounts :
           /\ kind[a] = "none" => balance[a] = 0
           /\ kind[a] # "deposit" => ~archived[a]
           /\ archived[a] => balance[a] = 0
    /\ transferLogs \in [LogIds -> {None} \cup
           [from : Accounts, to : Accounts, amount : Sums]]
    /\ \A l \in LogIds : transferLogs[l] # None =>
           LET log == transferLogs[l] IN
           /\ Exists(log.from) /\ Exists(log.to) /\ log.from # log.to
           /\ OnDeposit(log.from) \/ OnDeposit(log.to)
    /\ postings \in [PostingIds -> {None} \cup
           [account : Accounts, delta : Signed(Sums), imported : {FALSE}]]
    /\ \A p \in PostingIds : postings[p] # None =>
           OnDeposit(postings[p].account)
    /\ requests = [q \in Requests |-> Idle]
    /\ declared = [a \in Accounts |->
                      IF Exists(a) THEN Unexplained(a) ELSE 0]

-----------------------------------------------------------------------------
Holds(q, op) == requests[q].op = op

Release(q) == requests' = [requests EXCEPT ![q] = Idle]

Hold(q, request) ==
    /\ Holds(q, "idle")
    /\ requests' = [requests EXCEPT ![q] = request]
    /\ UNCHANGED <<accountVars, postings, declared>>

(* Sequences never hand out a key twice: one that a request still holds, of  *)
(* a row deleted meanwhile, is not given to a new row.                       *)
Fresh(p) ==
    /\ postings[p] = None
    /\ \A q \in Requests : Holds(q, "resave") => requests[q].receipt # p

Refers(q, a) ==
    \/ requests[q].op \in {"post", "api", "import", "edit"}
          /\ requests[q].account = a
    \/ Holds(q, "transfer") /\ a \in {requests[q].from, requests[q].to}
    \/ Holds(q, "resave") /\ requests[q].row.account = a

(* The foreign key of a posting's account (on_delete=PROTECT).               *)
AccountExists(row) == row # None => Exists(row.account)

(* Store a posting, its effect booked under the account locks.               *)
Book(p, row) ==
    /\ AccountExists(row)
    /\ ApplyAccountDeltas(Replace(postings[p], row))
    /\ postings' = [postings EXCEPT ![p] = row]
    /\ UNCHANGED <<kind, archived, transferLogs, declared>>

-----------------------------------------------------------------------------
(* Accounts: AccountCreateView, AccountListCreateAPIView, DeleteAccountView, *)
(* ChangeAccountView and AccountRetrieveUpdateDestroyAPIView.                *)

CreateAccount(a) ==
    /\ kind[a] = "none"
    /\ \A q \in Requests : ~Refers(q, a)
    /\ \E value \in DeclaredBalances :
          /\ balance' = [balance EXCEPT ![a] = value]
          /\ declared' = [declared EXCEPT ![a] = value]
    /\ kind' = [kind EXCEPT ![a] = "regular"]
    /\ archived' = [archived EXCEPT ![a] = FALSE]
    /\ UNCHANGED <<transferLogs, postings, requests>>

DeleteAccount_NotProtected(a) ==
    /\ kind[a] = "regular"
    /\ kind' = [kind EXCEPT ![a] = "none"]
    /\ archived' = [archived EXCEPT ![a] = FALSE]
    /\ balance' = [balance EXCEPT ![a] = 0]
    /\ declared' = [declared EXCEPT ![a] = 0]
    /\ transferLogs' = LogsWithout(a)
    /\ UNCHANGED <<postings, requests>>

(* Postings protect their account; transfer logs forget it.                  *)
DeleteAccount(a) ==
    /\ kind[a] = "regular"
    /\ \A p \in PostingIds : postings[p] # None => postings[p].account # a
    /\ kind' = [kind EXCEPT ![a] = "none"]
    /\ archived' = [archived EXCEPT ![a] = FALSE]
    /\ balance' = [balance EXCEPT ![a] = 0]
    /\ declared' = [declared EXCEPT ![a] = 0]
    /\ transferLogs' = LogsWithout(a)
    /\ UNCHANGED <<postings, requests>>

BeginEdit(q, a) ==
    /\ kind[a] = "regular"
    /\ Hold(q, [op |-> "edit", account |-> a, balance |-> balance[a],
                archived |-> archived[a]])

(* The object loaded without a lock is saved whole: the fields the form or   *)
(* the PATCH leaves out go back to what they were when it was loaded, and a  *)
(* row deleted meanwhile is inserted again.                                  *)
CommitEdit(q) ==
    /\ Holds(q, "edit")
    /\ LET a == requests[q].account IN
       \E value \in DeclaredBalances \cup {requests[q].balance} :
          /\ balance' = [balance EXCEPT ![a] = value]
          /\ declared' = [declared EXCEPT ![a] = @ + (value - balance[a])]
          /\ kind' = [kind EXCEPT ![a] = "regular"]
          /\ archived' = [archived EXCEPT ![a] = requests[q].archived]
    /\ Release(q)
    /\ UNCHANGED <<transferLogs, postings>>

-----------------------------------------------------------------------------
(* Transactions: TransactionService.                                         *)

(* The form's account choices: unarchived and not a deposit, checked before  *)
(* the transaction begins (add_transaction, update_transaction, the receipt  *)
(* forms).                                                                   *)
BeginPost(q, a) ==
    /\ AvailableForRegularOperations(a)
    /\ Hold(q, [op |-> "post", account |-> a])

AddTransaction(q) ==
    /\ Holds(q, "post")
    /\ \E t \in TxIds, delta \in Signed(Sums) :
          /\ Fresh(t)
          /\ Book(t, [account |-> requests[q].account, delta |-> delta,
                      imported |-> FALSE])
    /\ Release(q)

(* Only the new account is moved: the old one keeps the old effect.          *)
UpdateTransaction_ForgetsOldAccount(q) ==
    /\ Holds(q, "post")
    /\ \E t \in TxIds, delta \in Signed(Sums) :
          LET row == [postings[t] EXCEPT !.account = requests[q].account,
                                         !.delta = delta]
          IN /\ postings[t] # None
             /\ ApplyAccountDeltas(
                    Delta(row.account, delta - postings[t].delta))
             /\ postings' = [postings EXCEPT ![t] = row]
             /\ UNCHANGED <<kind, archived, transferLogs, declared>>
    /\ Release(q)

(* The old row is read again under its lock; both accounts move together.    *)
UpdateTransaction(q) ==
    /\ Holds(q, "post")
    /\ \E t \in TxIds, delta \in Signed(Sums) :
          /\ postings[t] # None
          /\ Book(t, [postings[t] EXCEPT !.account = requests[q].account,
                                         !.delta = delta])
    /\ Release(q)

DeleteTransaction(t) ==
    /\ postings[t] # None
    /\ Book(t, None)
    /\ UNCHANGED requests

CopyTransaction(t) ==
    /\ postings[t] # None
    /\ \E copy \in TxIds :
          /\ Fresh(copy)
          /\ Book(copy, [postings[t] EXCEPT !.imported = FALSE])
    /\ UNCHANGED requests

-----------------------------------------------------------------------------
(* Transfers: TransferService.                                               *)

BeginTransfer(q, from, to) ==
    /\ AvailableForRegularOperations(from)
    /\ AvailableForRegularOperations(to)
    /\ Hold(q, [op |-> "transfer", from |-> from, to |-> to])

LogTransfer(q, from, to) ==
    /\ \E l \in LogIds, amount \in Sums :
          /\ transferLogs[l] = None
          /\ ApplyAccountDeltas(PairDelta(from, -amount, to, amount))
          /\ transferLogs' = [transferLogs EXCEPT ![l] =
                 [from |-> from, to |-> to, amount |-> amount]]
    /\ Release(q)
    /\ UNCHANGED <<kind, archived, postings, declared>>

TransferMoney_SameAccount(q) ==
    /\ Holds(q, "transfer")
    /\ LogTransfer(q, requests[q].from, requests[q].to)

(* validate_different_accounts: with equal keys the two-key dict of deltas   *)
(* would keep the credit and drop the debit.                                 *)
TransferMoney(q) ==
    /\ Holds(q, "transfer")
    /\ requests[q].from # requests[q].to
    /\ LogTransfer(q, requests[q].from, requests[q].to)

DeleteTransfer(l) ==
    LET log == transferLogs[l] IN
    /\ log # None
    /\ log.from # None /\ log.to # None
    /\ ApplyAccountDeltas(PairDelta(log.from, log.amount, log.to, -log.amount))
    /\ transferLogs' = [transferLogs EXCEPT ![l] = None]
    /\ UNCHANGED <<kind, archived, postings, requests, declared>>

-----------------------------------------------------------------------------
(* Receipts: ReceiptCreatorService, ReceiptUpdaterService,                   *)
(* ReceiptDeleterService and the views around them.                          *)

(* The receipts API asks only that the account exists and is the caller's.   *)
BeginReceiptApi(q, a) ==
    /\ Exists(a)
    /\ Hold(q, [op |-> "api", account |-> a])

(* create_receipt_with_products, from the API or a reviewed pending receipt. *)
CreateReceipt(q) ==
    /\ requests[q].op \in {"post", "api"}
    /\ \E r \in ReceiptIds, delta \in Signed(Sums) :
          /\ Fresh(r)
          /\ Book(r, [account |-> requests[q].account, delta |-> delta,
                      imported |-> FALSE])
    /\ Release(q)

(* The form views save the receipt once more after the service's transaction *)
(* has committed: ModelFormMixin.form_valid saves form.instance.             *)
SaveAgain(q, r, row) ==
    requests' = [requests EXCEPT
        ![q] = [op |-> "resave", receipt |-> r, row |-> row]]

CreateManualReceipt(q) ==
    /\ Holds(q, "post")
    /\ \E r \in ReceiptIds, delta \in Signed(Sums) :
          LET row == [account |-> requests[q].account, delta |-> delta,
                      imported |-> FALSE]
          IN /\ Fresh(r)
             /\ Book(r, row)
             /\ SaveAgain(q, r, row)

(* The total is the sum of the products the form keeps: it may be 0.         *)
UpdateReceipt(q) ==
    /\ Holds(q, "post")
    /\ \E r \in ReceiptIds, delta \in Signed(Sums) \cup {0} :
          LET row == [account |-> requests[q].account, delta |-> delta,
                      imported |-> FALSE]
          IN /\ postings[r] # None
             /\ Book(r, row)
             /\ SaveAgain(q, r, row)

(* The whole row is written, or inserted again if it was deleted; the        *)
(* foreign key asks for the account, and nothing moves.                      *)
ResaveReceipt(q) ==
    /\ Holds(q, "resave")
    /\ LET r == requests[q].receipt
           row == requests[q].row
       IN /\ AccountExists(row)
          /\ postings' = [postings EXCEPT ![r] = row]
          /\ declared' = Minus(declared, Replace(postings[r], row))
    /\ Release(q)
    /\ UNCHANGED accountVars

DeleteReceipt_NoRefund(r) ==
    /\ postings[r] # None
    /\ postings' = [postings EXCEPT ![r] = None]
    /\ UNCHANGED <<accountVars, requests, declared>>

DeleteReceipt(r) ==
    /\ postings[r] # None
    /\ Book(r, None)
    /\ UNCHANGED requests

-----------------------------------------------------------------------------
(* Bank statements, as the balances see them: process_bank_statement_task    *)
(* and BankStatementReconciliationService._create_transaction.               *)

(* Post without apply_account_deltas: no funds check, the column's range     *)
(* only.                                                                     *)
Import(t, a) ==
    \E delta \in Signed(Sums) :
       /\ Exists(a)
       /\ balance[a] + delta \in Balance
       /\ balance' = [balance EXCEPT ![a] = @ + delta]
       /\ postings' = [postings EXCEPT ![t] =
              [account |-> a, delta |-> delta, imported |-> TRUE]]
       /\ UNCHANGED <<kind, archived, transferLogs, requests, declared>>

(* The task looks at the account's type and archive once, when it starts.    *)
BeginImport(q, a) ==
    /\ AvailableForRegularOperations(a)
    /\ Hold(q, [op |-> "import", account |-> a])

ImportRow(q) ==
    /\ Holds(q, "import")
    /\ \E t \in TxIds : Fresh(t) /\ Import(t, requests[q].account)

(* A row decided as new in the review: the account is locked and checked.    *)
DecideNew(a) ==
    /\ AvailableForRegularOperations(a)
    /\ \E t \in TxIds : Fresh(t) /\ Import(t, a)

-----------------------------------------------------------------------------
(* A request ends without writing: the form is rejected, the service raises, *)
(* the import is over or its worker dies.                                    *)
Reject(q) ==
    /\ ~Holds(q, "idle")
    /\ Release(q)
    /\ UNCHANGED <<accountVars, postings, declared>>

Next ==
    \/ \E q \in Requests, a \in Accounts :
          \/ BeginEdit(q, a)
          \/ BeginPost(q, a)
          \/ BeginReceiptApi(q, a)
          \/ BeginImport(q, a)
          \/ \E to \in Accounts : BeginTransfer(q, a, to)
    \/ \E q \in Requests :
          \/ CommitEdit(q)
          \/ AddTransaction(q)
          \/ UpdateTransaction(q)
          \/ TransferMoney(q)
          \/ CreateReceipt(q)
          \/ CreateManualReceipt(q)
          \/ UpdateReceipt(q)
          \/ ResaveReceipt(q)
          \/ ImportRow(q)
          \/ Reject(q)
    \/ \E a \in Accounts : CreateAccount(a) \/ DeleteAccount(a) \/ DecideNew(a)
    \/ \E t \in TxIds : DeleteTransaction(t) \/ CopyTransaction(t)
    \/ \E r \in ReceiptIds : DeleteReceipt(r)
    \/ \E l \in LogIds : DeleteTransfer(l)

Spec == Init /\ [][Next]_vars

-----------------------------------------------------------------------------
(* Properties.                                                               *)

Books == INSTANCE Book WITH effects <- Effects

(* Whatever the interleaving of requests, each step posts, changes or        *)
(* strikes out one movement with its exact effect on the balances, declares  *)
(* a balance, or is a form's second save.                                    *)
BookSpec == Books!Spec

(* Every balance is what its owner declared plus the transactions, receipts  *)
(* and transfers now stored: no update, delete or copy of one counts twice   *)
(* or not at all.                                                            *)
BalancesExplained == Books!Explained

(* The receipt changed between a form's commit and its second save.          *)
LostRace(q) ==
    /\ Holds(q, "resave")
    /\ postings[requests[q].receipt] # requests[q].row

Ends(q) == ~Holds(q, "idle") /\ Holds(q, "idle")'

(* The part of a balance that no movement explains changes only when its     *)
(* account is created, deleted or saved by the account form or API, and in   *)
(* the second save of a receipt that another request changed or deleted.     *)
OnlyFormsDeclare ==
    [][ \A a \in Accounts : Unexplained(a)' # Unexplained(a) =>
          \/ kind'[a] # kind[a]
          \/ \E q \in Requests :
                Ends(q) /\ Holds(q, "edit") /\ requests[q].account = a
          \/ \E q \in Requests : Ends(q) /\ LostRace(q) ]_vars

(* Money that is not there is spent by a bank statement alone: any other     *)
(* step that takes from an account and leaves it below zero creates the      *)
(* account or is the account form or API declaring its balance.              *)
OverdraftIsImported ==
    [][ \A a \in Accounts :
          balance'[a] < balance[a] /\ balance'[a] < 0 =>
             \/ kind'[a] # kind[a]
             \/ \E q \in Requests :
                   Ends(q) /\ Holds(q, "edit") /\ requests[q].account = a
             \/ \E t \in TxIds :
                   /\ postings[t] = None
                   /\ postings'[t] # None
                   /\ postings'[t].imported /\ postings'[t].account = a ]_vars

(* Rows refer to rows: no posting and no log outlives its account.           *)
ReferencesLive ==
    /\ \A p \in PostingIds :
          postings[p] # None => Exists(postings[p].account)
    /\ \A l \in LogIds : transferLogs[l] # None =>
          \A a \in {transferLogs[l].from, transferLogs[l].to} :
             a # None => Exists(a)

(* Outside the deposit service a deposit account is moved by a receipt, by a *)
(* transaction only if one is already on it, and by a transfer only if its   *)
(* log is already there: no new transaction, transfer or statement row       *)
(* reaches a deposit.                                                        *)
DepositsMovedByOldRows ==
    [][ \A a \in Accounts :
          OnDeposit(a) /\ balance'[a] # balance[a] =>
             \/ \E r \in ReceiptIds : postings'[r] # postings[r]
             \/ \E t \in TxIds :
                   postings[t] # None /\ postings[t].account = a
             \/ \E l \in LogIds :
                   /\ transferLogs[l] # None /\ transferLogs'[l] = None
                   /\ a \in {transferLogs[l].from, transferLogs[l].to} ]_vars

(* Why: no request but the receipts API's is on a deposit account, and no    *)
(* account becomes one here.                                                 *)
RequestApart(q) ==
    /\ requests[q].op \in {"post", "import", "edit"} =>
          ~OnDeposit(requests[q].account)
    /\ Holds(q, "transfer") =>
          ~OnDeposit(requests[q].from) /\ ~OnDeposit(requests[q].to)

RequestsApart == \A q \in Requests : RequestApart(q)

(* A transfer joins two accounts, and a missing row holds no money.          *)
LogsJoinTwo ==
    \A l \in LogIds :
       transferLogs[l] # None /\ transferLogs[l].from # None =>
          transferLogs[l].from # transferLogs[l].to

BlankWithoutRow ==
    \A a \in Accounts : ~Exists(a) => balance[a] = 0 /\ declared[a] = 0

(* The inductive invariant: references are live, no pending request but the  *)
(* receipts API's is on a deposit, and what is not there is zero.            *)
LedgerInv ==
    /\ LedgerTypeOK
    /\ ReferencesLive
    /\ RequestsApart
    /\ LogsJoinTwo
    /\ BlankWithoutRow

(* No receipt is charged to a deposit: its account is one of                 *)
(* available_for_regular_operations (AccountQuerySet).                       *)
ReceiptsSpareDeposits ==
    [][ \A r \in ReceiptIds : postings'[r] # postings[r] /\ postings[r] = None =>
          ~OnDeposit(postings'[r].account) ]_vars

(* The second save of a receipt form leaves the books as the service left    *)
(* them: balances are reconciled when the account or the total changes       *)
(* (ReceiptUpdaterService.update_receipt).                                   *)
SecondSaveKeepsBooks ==
    [][ \A q \in Requests : ResaveReceipt(q) => declared' = declared ]_vars
=============================================================================
