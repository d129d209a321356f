----------------------------- MODULE Statements -----------------------------
(* Bank statements: the upload view, process_bank_statement_task, the owner's *)
(* decisions (BankStatementReconciliationService) and the retention of        *)
(* BankStatementRetentionService.  Every file is about one account and shows  *)
(* the same operations, as the statements of overlapping periods do; the      *)
(* operations are of one type, amount and date, the case in which rows and    *)
(* transactions can be taken for one another.                                 *)
EXTENDS Naturals, Sequences, FiniteSets

CONSTANTS
    Files,       \* files of the account, by their hash
    NoFile,      \* source_file_hash of a transaction without one
    RowCount,    \* rows of each file
    Referenced,  \* rows that carry the bank's identifier of the operation
    BatchSize,   \* rows between two saves of the counters (10 in the code)
    MaxRetries,  \* retries of one import (3 in the code)
    MaxTxs,      \* bound: transactions ever created
    MaxRows      \* bound: statement rows ever created

VARIABLES
    uploads,   \* BankStatementUpload of each file
    rows,      \* BankStatementRow: all that were created, by primary key
    txs,       \* Transaction: all that were created, by primary key
    imports    \* the import task of each file, with how far it is

vars == <<uploads, rows, txs, imports>>

ASSUME StatementsAssumption ==
    /\ RowCount \in Nat /\ Referenced \subseteq 1 .. RowCount
    /\ NoFile \notin Files
    /\ BatchSize \in Nat \ {0}
    /\ MaxRetries \in Nat /\ MaxTxs \in Nat /\ MaxRows \in Nat

Positions == 1 .. RowCount
TxIds == 1 .. MaxTxs
RowIds == 1 .. MaxRows

(* `posted` is income_count + expense_count, `stored` says that the PDF is in *)
(* the storage; pdf_file keeps its name until the upload is cleaned.          *)
Upload == [status : {"absent", "pending", "processing", "awaiting", "completed",
                     "unresolved", "failed"},
           posted : 0 .. RowCount, imported : 0 .. MaxTxs,
           stored : BOOLEAN, expired : BOOLEAN, cleaned : BOOLEAN]

(* `alike`: of the type, amount and date of the operations.                   *)
Tx == [ref : {0} \cup Referenced, file : Files \cup {NoFile},
       pos : {0} \cup Positions, alike : BOOLEAN, live : BOOLEAN]

(* `wiped`: the data of the row, its position included, has been removed.     *)
StatementRow == [file : Files, pos : Positions, wiped : BOOLEAN, tx : {0} \cup TxIds,
        decision : {"pending", "linked", "new", "expired"},
        candidates : SUBSET TxIds]

Import == [step : {"none", "queued", "check", "post", "save", "finish",
                   "awaiting", "completed", "refresh"},
           next : 1 .. RowCount + 1, posted : 0 .. RowCount, retries : 0 .. MaxRetries]

StatementsTypeOK ==
    /\ uploads \in [Files -> Upload]
    /\ rows \in Seq(StatementRow) /\ Len(rows) <= MaxRows
    /\ txs \in Seq(Tx) /\ Len(txs) <= MaxTxs
    /\ imports \in [Files -> Import]
    /\ \A r \in DOMAIN rows :
          /\ rows[r].tx # 0 => txs[rows[r].tx].live
          /\ \A t \in rows[r].candidates : txs[t].live

Fresh == [step |-> "none", next |-> 1, posted |-> 0, retries |-> 0]

Init ==
    /\ uploads = [f \in Files |->
          [status |-> "absent", posted |-> 0, imported |-> 0,
           stored |-> FALSE, expired |-> FALSE, cleaned |-> FALSE]]
    /\ rows = <<>> /\ txs = <<>>
    /\ imports = [f \in Files |-> Fresh]

-----------------------------------------------------------------------------

RowsOf(f) == {r \in DOMAIN rows : rows[r].file = f}
Decided(rs, f, decision) ==
    Cardinality({r \in DOMAIN rs : rs[r].file = f /\ rs[r].decision = decision})

Live(t) == txs[t].live

(* _is_exact_duplicate, and the condition on which one of the two unique      *)
(* constraints of Transaction refuses the row's transaction.                  *)
ExactDuplicate(f, p) ==
    \E t \in DOMAIN txs :
        /\ Live(t)
        /\ IF p \in Referenced THEN txs[t].ref = p
                               ELSE txs[t].file = f /\ txs[t].pos = p

(* A faulty form: other rows of the same file are duplicates too.             *)
ProbableDuplicates_SameFile(f) ==
    {t \in DOMAIN txs : Live(t) /\ txs[t].alike}

(* _find_probable_duplicates: nothing that has this file's hash.              *)
ProbableDuplicates(f) ==
    {t \in DOMAIN txs : Live(t) /\ txs[t].alike /\ txs[t].file # f}

(* The records without source_ref that _is_duplicate falls back to.           *)
Legacy == {t \in DOMAIN txs : Live(t) /\ txs[t].alike /\ txs[t].ref = 0}

NewTx(f, p) ==
    IF p \in Referenced
    THEN [ref |-> p, file |-> NoFile, pos |-> 0, alike |-> TRUE, live |-> TRUE]
    ELSE [ref |-> 0, file |-> f, pos |-> p, alike |-> TRUE, live |-> TRUE]

(* After a row's transaction the loop goes on, by way of the counters after a  *)
(* batch and after the last row.                                              *)
EndRow(f, created) ==
    LET p == imports[f].next
    IN  imports' = [imports EXCEPT ![f].posted = @ + created, ![f].next = p + 1,
            ![f].step = IF p % BatchSize = 0 \/ p = RowCount THEN "save"
                        ELSE "check"]

Step(f, step) == imports' = [imports EXCEPT ![f].step = step]

(* Celery's self.retry: a message with one retry more, or the end.            *)
Retry(f) ==
    imports' = [imports EXCEPT ![f] =
        IF @.retries < MaxRetries
        THEN [Fresh EXCEPT !.step = "queued", !.retries = imports[f].retries + 1]
        ELSE Fresh]

-----------------------------------------------------------------------------
(* The upload view: only the request that creates the upload starts a task,   *)
(* and it may die before it has.  A file that is known is refused.            *)
UploadFile(f) ==
    /\ uploads[f].status = "absent"
    /\ uploads' = [uploads EXCEPT ![f].status = "pending", ![f].stored = TRUE]
    /\ \E step \in {"queued", "none"} : Step(f, step)
    /\ UNCHANGED <<rows, txs>>

(* A faulty form: a retry goes on after the rows the first attempt got through.*)
StartImport_GoesOn(f) ==
    /\ imports[f].step = "queued"
    /\ uploads' = [uploads EXCEPT ![f].status = "processing"]
    /\ imports' = [imports EXCEPT ![f].step =
          IF RowCount = 0 THEN "finish" ELSE "check",
          ![f].next = IF imports[f].retries = 0 THEN 1 ELSE RowCount]
    /\ uploads[f].stored
    /\ UNCHANGED <<rows, txs>>

(* _initialize_upload, and the file is read.                                  *)
StartImport(f) ==
    /\ imports[f].step = "queued"
    /\ uploads' = [uploads EXCEPT ![f].status = "processing"]
    /\ uploads[f].stored
    /\ Step(f, IF RowCount = 0 THEN "finish" ELSE "check")
    /\ UNCHANGED <<rows, txs>>

(* An archived or deposit account, or a file that cannot be parsed or found:  *)
(* the task fails and is not tried again.                                     *)
ParseFails(f) ==
    /\ imports[f].step = "queued"
    /\ uploads' = [uploads EXCEPT ![f].status = "failed"]
    /\ imports' = [imports EXCEPT ![f] = Fresh]
    /\ UNCHANGED <<rows, txs>>

(* A row that was imported is skipped, a row with probable duplicates waits   *)
(* for the owner, a referenced row may adopt a record of the same file;       *)
(* otherwise its category is asked of the classifier while others go on.      *)
SkipRow(f) ==
    /\ imports[f].step = "check"
    /\ ExactDuplicate(f, imports[f].next)
    /\ EndRow(f, 0)
    /\ UNCHANGED <<uploads, rows, txs>>

(* _save_probable_duplicate: get_or_create by upload and position, then the   *)
(* candidates the row does not have yet.                                      *)
SaveRow(f) ==
    /\ imports[f].step = "check"
    /\ ~ExactDuplicate(f, imports[f].next)
    /\ ProbableDuplicates(f) # {}
    /\ LET p == imports[f].next
           known == {r \in RowsOf(f) : rows[r].pos = p /\ ~rows[r].wiped}
       IN  IF known = {}
           THEN /\ Len(rows) < MaxRows
                /\ rows' = Append(rows,
                      [file |-> f, pos |-> p, wiped |-> FALSE, tx |-> 0,
                       decision |-> "pending", candidates |-> ProbableDuplicates(f)])
           ELSE rows' = [r \in DOMAIN rows |->
                   IF r \in known
                   THEN [rows[r] EXCEPT !.candidates = @ \cup ProbableDuplicates(f)]
                   ELSE rows[r]]
    /\ EndRow(f, 0)
    /\ UNCHANGED <<uploads, txs>>

Unmatched(f) ==
    /\ ~ExactDuplicate(f, imports[f].next)
    /\ ProbableDuplicates(f) = {}

AdoptLegacy(f) ==
    /\ imports[f].step = "check"
    /\ Unmatched(f)
    /\ imports[f].next \in Referenced /\ Legacy # {}
    /\ LET first == CHOOSE t \in Legacy : \A o \in Legacy : t <= o
       IN  txs' = [txs EXCEPT ![first].ref = imports[f].next]
    /\ EndRow(f, 0)
    /\ UNCHANGED <<uploads, rows>>

ClassifyRow(f) ==
    /\ imports[f].step = "check"
    /\ Unmatched(f)
    /\ imports[f].next \in Referenced => Legacy = {}
    /\ Step(f, "post")
    /\ UNCHANGED <<uploads, rows, txs>>

(* A faulty form: the database has no unique constraints.                     *)
PostRow_NoConstraint(f) ==
    /\ imports[f].step = "post"
    /\ Len(txs) < MaxTxs
    /\ txs' = Append(txs, NewTx(f, imports[f].next))
    /\ EndRow(f, 1)
    /\ UNCHANGED <<uploads, rows>>

(* Transaction.objects.create and the balance, in one transaction.            *)
PostRow(f) ==
    /\ imports[f].step = "post"
    /\ Len(txs) < MaxTxs
    /\ ~ExactDuplicate(f, imports[f].next)
    /\ txs' = Append(txs, NewTx(f, imports[f].next))
    /\ EndRow(f, 1)
    /\ UNCHANGED <<uploads, rows>>

SaveCounters(f) ==
    /\ imports[f].step = "save"
    /\ uploads' = [uploads EXCEPT ![f].posted = imports[f].posted]
    /\ Step(f, IF imports[f].next > RowCount THEN "finish" ELSE "check")
    /\ UNCHANGED <<rows, txs>>

(* Whether rows wait is read, ...                                             *)
FindWaiting(f) ==
    /\ imports[f].step = "finish"
    /\ Step(f, IF \E r \in RowsOf(f) : rows[r].decision = "pending"
               THEN "awaiting" ELSE "completed")
    /\ UNCHANGED <<uploads, rows, txs>>

(* ... the status is saved, ...                                               *)
SaveStatus(f) ==
    /\ imports[f].step \in {"awaiting", "completed"}
    /\ uploads' = [uploads EXCEPT ![f].status = imports[f].step]
    /\ Step(f, "refresh")
    /\ UNCHANGED <<rows, txs>>

(* ... and refresh_outcome_counts ends the task.                              *)
RefreshCounts(f) ==
    /\ imports[f].step = "refresh"
    /\ uploads' = [uploads EXCEPT ![f].imported =
                      imports[f].posted + Decided(rows, f, "new")]
    /\ imports' = [imports EXCEPT ![f] = Fresh]
    /\ UNCHANGED <<rows, txs>>

(* Any other exception, a file whose name is gone, a refused transaction or   *)
(* the soft time limit: the row's transaction is undone, the task tried again.*)
ImportFails(f) ==
    /\ imports[f].step # "none"
    /\ uploads' = [uploads EXCEPT ![f].status = "failed"]
    /\ Retry(f)
    /\ UNCHANGED <<rows, txs>>

(* The worker dies: the message was acknowledged when the task started.       *)
WorkerDies(f) ==
    /\ imports[f].step # "none"
    /\ imports' = [imports EXCEPT ![f] = Fresh]
    /\ \/ UNCHANGED uploads
       \/ /\ imports[f].step = "queued"
          /\ uploads' = [uploads EXCEPT ![f].status = "processing"]
    /\ UNCHANGED <<rows, txs>>

-----------------------------------------------------------------------------
(* The owner's decisions, each one transaction that holds the upload's lock.  *)

Decide(r, decision, tx) ==
    LET f == rows[r].file
        decided == [rows EXCEPT ![r].decision = decision, ![r].tx = tx]
    IN  /\ rows' = decided
        /\ uploads' = [uploads EXCEPT
              ![f].imported = uploads[f].posted + Decided(decided, f, "new"),
              ![f].status = IF Decided(decided, f, "pending") = 0
                            THEN "completed" ELSE @]

(* The candidates that are still the row's equals.                            *)
Current(r) == {t \in rows[r].candidates : txs[t].alike}

DecideLinked(r, t) ==
    /\ rows[r].decision = "pending" /\ ~uploads[rows[r].file].expired
    /\ t \in Current(r)
    /\ Decide(r, "linked", t)
    /\ UNCHANGED <<txs, imports>>

(* bulk_decide takes each row on its own, and links it only to the one        *)
(* candidate there is.                                                        *)
LinkIfUnique(r) == \E t \in Current(r) : Current(r) = {t} /\ DecideLinked(r, t)

(* _create_transaction                                                        *)
CreateTx(r) ==
    /\ Len(txs) < MaxTxs
    /\ ~ExactDuplicate(rows[r].file, rows[r].pos)
    /\ txs' = Append(txs, NewTx(rows[r].file, rows[r].pos))

DecideNew(r) ==
    /\ rows[r].decision = "pending" /\ ~uploads[rows[r].file].expired
    /\ CreateTx(r)
    /\ Decide(r, "new", Len(txs) + 1)
    /\ UNCHANGED imports

(* A faulty form: a revised row is counted beside the rows decided as new.    *)
ReviseToNew_CountsTwice(r) ==
    /\ rows[r].decision = "linked" /\ ~uploads[rows[r].file].expired
    /\ CreateTx(r)
    /\ rows' = [rows EXCEPT ![r].decision = "new", ![r].tx = Len(txs) + 1]
    /\ uploads' = [uploads EXCEPT ![rows[r].file].imported =
          uploads[rows[r].file].posted + Decided(rows', rows[r].file, "new") + 1]
    /\ UNCHANGED imports

(* revise_linked_to_new                                                       *)
ReviseToNew(r) ==
    /\ rows[r].decision = "linked" /\ ~uploads[rows[r].file].expired
    /\ CreateTx(r)
    /\ rows' = [rows EXCEPT ![r].decision = "new", ![r].tx = Len(txs) + 1]
    /\ uploads' = [uploads EXCEPT ![rows[r].file].imported =
          uploads[rows[r].file].posted + Decided(rows', rows[r].file, "new")]
    /\ UNCHANGED imports

-----------------------------------------------------------------------------
(* The owner keeps transactions by hand.                                      *)

AddTx ==
    /\ Len(txs) < MaxTxs
    /\ txs' = Append(txs, [ref |-> 0, file |-> NoFile, pos |-> 0,
                           alike |-> TRUE, live |-> TRUE])
    /\ UNCHANGED <<uploads, rows, imports>>

EditTx(t) ==
    /\ Live(t)
    /\ txs' = [txs EXCEPT ![t].alike = ~@]
    /\ UNCHANGED <<uploads, rows, imports>>

(* A faulty form: decided rows keep the key of the deleted transaction.       *)
DeleteTx_KeyStays(t) ==
    /\ Live(t)
    /\ txs' = [txs EXCEPT ![t].live = FALSE]
    /\ rows' = [r \in DOMAIN rows |->
          [rows[r] EXCEPT !.candidates = @ \ {t}]]
    /\ UNCHANGED <<uploads, imports>>

(* The rows that name a deleted transaction lose it (SET_NULL).               *)
DeleteTx(t) ==
    /\ Live(t)
    /\ txs' = [txs EXCEPT ![t].live = FALSE]
    /\ rows' = [r \in DOMAIN rows |->
          [rows[r] EXCEPT !.tx = IF @ = t THEN 0 ELSE @,
                          !.candidates = @ \ {t}]]
    /\ UNCHANGED <<uploads, imports>>

-----------------------------------------------------------------------------
(* Thirty days later: cleanup_expired, started every hour.                    *)

ExpireUpload(f) ==
    /\ uploads[f].status # "absent" /\ ~uploads[f].expired
    /\ uploads' = [uploads EXCEPT ![f].expired = TRUE]
    /\ UNCHANGED <<rows, txs, imports>>

(* A faulty form: an import that failed keeps its file.                       *)
Cleanable_NotFailed(f) ==
    uploads[f].expired /\ ~uploads[f].cleaned /\ uploads[f].status # "failed"

Cleanable(f) == uploads[f].expired /\ ~uploads[f].cleaned

(* The PDF is deleted first, outside the transaction ...                      *)
PurgePdf(f) ==
    /\ Cleanable(f) /\ uploads[f].stored
    /\ uploads' = [uploads EXCEPT ![f].stored = FALSE]
    /\ UNCHANGED <<rows, txs, imports>>

(* A faulty form: rows expire whether or not they are decided.                *)
CleanUpload_AllRows(f) ==
    /\ Cleanable(f) /\ ~uploads[f].stored
    /\ rows' = [r \in DOMAIN rows |->
          IF rows[r].file # f THEN rows[r]
          ELSE [rows[r] EXCEPT !.wiped = TRUE, !.candidates = {},
                               !.decision = "expired"]]
    /\ uploads' = [uploads EXCEPT ![f].cleaned = TRUE,
          ![f].status = IF Decided(rows, f, "pending") # 0 THEN "unresolved"
                        ELSE IF @ = "failed" THEN @ ELSE "completed",
          ![f].imported = uploads[f].posted + Decided(rows, f, "new")]
    /\ UNCHANGED <<txs, imports>>

(* ... and then rows that wait expire and every row loses its data.           *)
CleanUpload(f) ==
    /\ Cleanable(f) /\ ~uploads[f].stored
    /\ rows' = [r \in DOMAIN rows |->
          IF rows[r].file # f THEN rows[r]
          ELSE [rows[r] EXCEPT !.wiped = TRUE, !.candidates = {},
                  !.decision = IF @ = "pending" THEN "expired" ELSE @]]
    /\ uploads' = [uploads EXCEPT ![f].cleaned = TRUE,
          ![f].status = IF Decided(rows, f, "pending") # 0 THEN "unresolved"
                        ELSE IF @ = "failed" THEN @ ELSE "completed",
          ![f].imported = uploads[f].posted + Decided(rows, f, "new")]
    /\ UNCHANGED <<txs, imports>>

-----------------------------------------------------------------------------

ImportStep(f) ==
    \/ StartImport(f) \/ ParseFails(f)
    \/ SkipRow(f) \/ SaveRow(f) \/ AdoptLegacy(f) \/ ClassifyRow(f)
    \/ PostRow(f) \/ SaveCounters(f)
    \/ FindWaiting(f) \/ SaveStatus(f) \/ RefreshCounts(f)
    \/ ImportFails(f) \/ WorkerDies(f)

OwnerStep ==
    \/ \E f \in Files : UploadFile(f)
    \/ \E r \in DOMAIN rows :
        \/ \E t \in rows[r].candidates : DecideLinked(r, t)
        \/ LinkIfUnique(r) \/ DecideNew(r) \/ ReviseToNew(r)
    \/ AddTx
    \/ \E t \in DOMAIN txs : EditTx(t) \/ DeleteTx(t)

Next ==
    \/ OwnerStep
    \/ \E f \in Files :
        ImportStep(f) \/ ExpireUpload(f) \/ PurgePdf(f) \/ CleanUpload(f)

(* Beat starts the cleanup every hour.  Nothing is assumed of the owner, of   *)
(* the workers that import or of how long an upload is kept.                  *)
Fairness == \A f \in Files : WF_vars(PurgePdf(f) \/ CleanUpload(f))

Spec == Init /\ [][Next]_vars /\ Fairness

-----------------------------------------------------------------------------
(* Properties                                                                 *)

(* An operation with the bank's identifier has one transaction in the account *)
(* whichever files show it, and a row without one has one for its file, though*)
(* imports overlap, fail half way and run again beside the owner's decisions. *)
PostedOnce ==
    \A s, t \in DOMAIN txs :
        s # t /\ Live(s) /\ Live(t) =>
            /\ txs[s].ref # 0 => txs[s].ref # txs[t].ref
            /\ txs[s].file # NoFile =>
                  <<txs[s].file, txs[s].pos>> # <<txs[t].file, txs[t].pos>>

(* An import that ends has left no row out: each one has its transaction, now *)
(* deleted perhaps, or waits in the reconciliation or was decided there.      *)
FinishedCoversAll ==
    [][\A f \in Files :
        imports[f].step = "finish" /\ imports'[f].step # "finish"
                                   /\ imports'[f].step \in {"awaiting", "completed"}
            => \A p \in Positions :
                \/ \E t \in DOMAIN txs :
                      txs[t].ref = p \/ (txs[t].file = f /\ txs[t].pos = p)
                \/ \E r \in RowsOf(f) : rows[r].pos = p]_vars

(* A decision is never taken back but from linked to new: not by a retried    *)
(* import that meets its row again, nor by the cleanup at the deadline.       *)
DecisionsFinal ==
    [][\A r \in DOMAIN rows :
        rows'[r].decision # rows[r].decision =>
            \/ rows[r].decision = "pending"
            \/ rows[r].decision = "linked" /\ rows'[r].decision = "new"]_vars

(* A row is linked to a transaction that is still its equal then, and, rows   *)
(* without an identifier being told apart by their position, never to one     *)
(* that a row of its own file was imported as.                                *)
LinkedToEqual ==
    [][\A r \in DOMAIN rows :
        rows'[r].decision = "linked" /\ rows[r].decision # "linked" =>
            LET t == rows'[r].tx
            IN  t # 0 /\ Live(t) /\ txs[t].alike /\ txs[t].file # rows[r].file]_vars

(* The history never claims more imported operations than were created,       *)
(* though the counters are saved late and restarted by a retry.               *)
ImportedNotOverstated ==
    \A f \in Files :
        uploads[f].imported <=
            Cardinality({t \in DOMAIN txs :
                txs[t].file = f \/ txs[t].ref # 0})

(* A file past its deadline is removed from the storage and its rows' data    *)
(* from the database, however often the cleanup stops on the way.             *)
DataPurged ==
    \A f \in Files :
        []<>(uploads[f].expired => uploads[f].cleaned /\ ~uploads[f].stored)
=============================================================================
