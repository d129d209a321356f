--------------------------- MODULE PendingReceipts ---------------------------
(* Pending receipts: PendingReceiptService, the views that call it and the   *)
(* receipts tasks.  Every picture here shows the same sale, so there is one  *)
(* fiscal key and a row only says whether it holds it; rows with other keys  *)
(* never meet.  `ready` stands for READY_WITH_WARNING too, which every guard *)
(* treats alike.                                                             *)
EXTENDS Naturals, Sequences, FiniteSets, Functions

CONSTANTS
    Photos,      \* uploaded images, by their hash
    Scans,       \* QR strings read by the browser, by their hash
    Requests,    \* concurrent web requests
    MaxRows,     \* bound: pending rows ever created
    MaxTasks,    \* bound: task ids given to one row
    MaxReceipts, \* bound: receipts ever created from pending rows
    MaxBusy      \* bound: requests and tasks under way at once

VARIABLES
    rows,      \* PendingReceipt: the rows there are, by primary key
    created,   \* how many keys the table has handed out
    stored,    \* the rows whose image is in MEDIA_ROOT
    receipts,  \* every receipt converted so far, oldest first
    hashes,    \* ReceiptImageHash: the receipt of an image; 0 for none
    queue,     \* task messages of the broker, kept until acknowledged
    attempts,  \* the tasks that are running, with how far they are
    requests,  \* what each web request has read or has still to do
    cleanup    \* the run of cleanup_stale_pending_receipts

vars == <<rows, created, stored, receipts, hashes, queue, attempts, requests,
          cleanup>>

Sources == Photos \cup Scans
RowIds == 1 .. MaxRows
TaskIds == 1 .. MaxTasks
ReceiptRef == 0 .. MaxReceipts

(* `late`: processing for longer than the hard limit and its grace period;   *)
(* `file`: image_file has a name, whether or not the image is still there.   *)
Row == [source : Sources, status : {"processing", "ready", "failed", "converted"},
        late : BOOLEAN, expired : BOOLEAN, keyed : BOOLEAN,
        task : {0} \cup TaskIds, file : BOOLEAN, receipt : ReceiptRef]

Message == [row : RowIds, task : TaskIds]

Attempt == [row : RowIds, task : TaskIds,
            step : {"extract", "claim", "lookup", "failing"}]

Idle == [op |-> "idle"]

Request ==
    {Idle}
    \cup [op : {"create"}, source : Sources]
    \cup [op : {"attach", "reset", "review", "convert", "delete"}, row : RowIds]
    \cup [op : {"enqueue"}, row : RowIds, task : TaskIds]

ASSUME PendingAssumption ==
    /\ Photos \cap Scans = {}
    /\ MaxRows \in Nat /\ MaxTasks \in Nat /\ MaxReceipts \in Nat
    /\ MaxBusy \in Nat

PendingTypeOK ==
    /\ created \in 0 .. MaxRows
    /\ DOMAIN rows \subseteq 1 .. created
    /\ \A r \in DOMAIN rows : rows[r] \in Row
    /\ stored \subseteq RowIds
    /\ receipts \in Seq([source : Sources, keyed : BOOLEAN, kept : BOOLEAN])
    /\ Len(receipts) <= MaxReceipts
    /\ \A r \in DOMAIN rows :
          rows[r].receipt # 0 => receipts[rows[r].receipt].kept
    /\ hashes \in [Sources -> ReceiptRef]
    /\ queue \subseteq Message
    /\ attempts \subseteq Attempt
    /\ requests \in [Requests -> Request]
    /\ cleanup \in [phase : {"idle", "recover", "purge"}, left : SUBSET RowIds]

Exists(r) == r \in DOMAIN rows

Room ==
    Cardinality(attempts) + Cardinality({q \in Requests : requests[q] # Idle})
        < MaxBusy

(* The statuses that find_duplicate and the partial unique constraint name.  *)
Active(r) == rows[r].status \in {"processing", "ready"}

(* uniq_active_pending_user_fiscal_key: saving r as an active row that holds *)
(* the key would fail.                                                       *)
KeyClash(r) == \E o \in DOMAIN rows \ {r} : Active(o) /\ rows[o].keyed

(* A Receipt with the fiscal key; uniq_receipt_user_fiscal_key refuses more. *)
SaleRecorded ==
    \E i \in DOMAIN receipts : receipts[i].kept /\ receipts[i].keyed

Init ==
    /\ rows = <<>> /\ created = 0 /\ stored = {}
    /\ receipts = <<>> /\ hashes = [s \in Sources |-> 0]
    /\ queue = {} /\ attempts = {}
    /\ requests = [q \in Requests |-> Idle]
    /\ cleanup = [phase |-> "idle", left |-> {}]

-----------------------------------------------------------------------------
(* Web requests.  Each statement commits on its own, so a request holds what *)
(* it does next between two actions, and may die there.                      *)

Holds(q, op) == requests[q].op = op

GoOn(q, request) == requests' = [requests EXCEPT ![q] = request]

Begin(q, request) ==
    /\ Holds(q, "idle") /\ Room
    /\ GoOn(q, request)
    /\ UNCHANGED <<rows, created, stored, receipts, hashes, queue, attempts,
                   cleanup>>

(* find_duplicate, with the fiscal key only when the browser has read it.    *)
Duplicate(s) ==
    \/ s \in Scans /\ (SaleRecorded \/ KeyClash(0))
    \/ \E r \in DOMAIN rows : Active(r) /\ rows[r].source = s
    \/ hashes[s] # 0

BeginUpload(q, s) ==
    /\ ~Duplicate(s)
    /\ Begin(q, [op |-> "create", source |-> s])

(* create_processing_job and create_processing_job_from_qr: only a photo has *)
(* an image, only a scan has its key from the start.                         *)
CreateRow(q) ==
    /\ Holds(q, "create")
    /\ created < MaxRows
    /\ LET s == requests[q].source
           r == created + 1
       IN  /\ ~(s \in Scans /\ KeyClash(r))
           /\ created' = r
           /\ rows' = [o \in DOMAIN rows \cup {r} |->
                 IF o = r
                 THEN [source |-> s, status |-> "processing", late |-> FALSE,
                       expired |-> FALSE, keyed |-> s \in Scans, task |-> 0,
                       file |-> s \in Photos, receipt |-> 0]
                 ELSE rows[o]]
           /\ stored' = IF s \in Photos THEN stored \cup {r} ELSE stored
           /\ GoOn(q, [op |-> "attach", row |-> r])
    /\ UNCHANGED <<receipts, hashes, queue, attempts, cleanup>>

(* attach_task_id: a fresh id, saved with update_fields, which fails once    *)
(* the row is gone.                                                          *)
AttachTask(q) ==
    /\ Holds(q, "attach")
    /\ LET r == requests[q].row
       IN  /\ Exists(r)
           /\ rows[r].task < MaxTasks
           /\ rows' = [rows EXCEPT ![r].task = @ + 1]
           /\ GoOn(q, [op |-> "enqueue", row |-> r, task |-> rows[r].task + 1])
    /\ UNCHANGED <<created, stored, receipts, hashes, queue, attempts, cleanup>>

(* apply_async                                                               *)
Enqueue(q) ==
    /\ Holds(q, "enqueue")
    /\ queue' = queue \cup
                  {[row |-> requests[q].row, task |-> requests[q].task]}
    /\ GoOn(q, Idle)
    /\ UNCHANGED <<rows, created, stored, receipts, hashes, attempts, cleanup>>

(* The retry view's checks, on the row it loaded.                            *)
BeginRetry(q, r) ==
    /\ rows[r].status = "failed"
    /\ rows[r].file
    /\ Begin(q, [op |-> "reset", row |-> r])

(* reset_for_retry saves the loaded row over whatever it has become.         *)
ResetForRetry(q) ==
    /\ Holds(q, "reset")
    /\ LET r == requests[q].row
       IN  /\ Exists(r)
           /\ ~(rows[r].keyed /\ KeyClash(r))
           /\ rows' = [rows EXCEPT ![r].status = "processing",
                                   ![r].late = FALSE]
           /\ GoOn(q, [op |-> "attach", row |-> r])
    /\ UNCHANGED <<created, stored, receipts, hashes, queue, attempts, cleanup>>

(* ReviewPendingReceiptView.dispatch lets a ready row through ...            *)
BeginReview(q, r) ==
    /\ ~rows[r].expired
    /\ rows[r].status = "ready"
    /\ Begin(q, [op |-> "review", row |-> r])

(* ... and deletes an expired one, without its image.                        *)
ReviewExpired(r) ==
    /\ rows[r].expired
    /\ rows' = Restrict(rows, DOMAIN rows \ {r})
    /\ UNCHANGED <<created, stored, receipts, hashes, queue, attempts, requests,
                   cleanup>>

(* form_valid and update_pending_receipt: the row is ready again, whatever   *)
(* it was; then a draft ends and a final save goes on.                       *)
SaveReview(q) ==
    /\ Holds(q, "review")
    /\ LET r == requests[q].row
       IN  /\ Exists(r)
           /\ ~(rows[r].keyed /\ KeyClash(r))
           /\ rows' = [rows EXCEPT ![r].status = "ready", ![r].late = FALSE]
           /\ \E next \in {Idle, [op |-> "convert", row |-> r]} : GoOn(q, next)
    /\ UNCHANGED <<created, stored, receipts, hashes, queue, attempts, cleanup>>

(* A faulty form: nothing keeps the key of a receipt unique.                 *)
Convertible_AnyKey(r) ==
    /\ rows[r].receipt = 0
    /\ rows[r].status = "ready"

(* What convert_to_receipt refuses under the row's lock: a row that already  *)
(* has its receipt is left alone, a key that has its receipt fails.          *)
Convertible(r) ==
    /\ rows[r].receipt = 0
    /\ rows[r].status = "ready"
    /\ ~(rows[r].keyed /\ SaleRecorded)

(* A faulty form: the image's hash is not recorded.                          *)
ConvertToReceipt_NoHash(q) ==
    /\ Holds(q, "convert")
    /\ Len(receipts) < MaxReceipts
    /\ LET r == requests[q].row
           i == Len(receipts) + 1
       IN  /\ Exists(r) /\ Convertible(r)
           /\ receipts' = Append(receipts,
                 [source |-> rows[r].source, keyed |-> rows[r].keyed,
                  kept |-> TRUE])
           /\ stored' = stored \ {r}
           /\ rows' = [rows EXCEPT ![r].status = "converted",
                                   ![r].file = FALSE, ![r].receipt = i]
    /\ GoOn(q, Idle)
    /\ UNCHANGED <<created, hashes, queue, attempts, cleanup>>

ConvertToReceipt(q) ==
    /\ Holds(q, "convert")
    /\ Len(receipts) < MaxReceipts
    /\ LET r == requests[q].row
           i == Len(receipts) + 1
       IN  /\ Exists(r) /\ Convertible(r)
           /\ receipts' = Append(receipts,
                 [source |-> rows[r].source, keyed |-> rows[r].keyed,
                  kept |-> TRUE])
           /\ hashes' = [hashes EXCEPT ![rows[r].source] = i]
           /\ stored' = stored \ {r}
           /\ rows' = [rows EXCEPT ![r].status = "converted",
                                   ![r].file = FALSE, ![r].receipt = i]
    /\ GoOn(q, Idle)
    /\ UNCHANGED <<created, queue, attempts, cleanup>>

(* The image is deleted inside the transaction: a failure after that rolls   *)
(* back everything but the image.                                            *)
ConvertFailsLate(q) ==
    /\ Holds(q, "convert")
    /\ LET r == requests[q].row
       IN  /\ Exists(r) /\ Convertible(r)
           /\ stored' = stored \ {r}
    /\ GoOn(q, Idle)
    /\ UNCHANGED <<rows, created, receipts, hashes, queue, attempts, cleanup>>

(* A faulty form: the row is deleted and its image stays.                    *)
DeleteFile_KeepsFile(q, r) ==
    /\ Holds(q, "idle") /\ Room
    /\ GoOn(q, [op |-> "delete", row |-> r])
    /\ UNCHANGED <<rows, created, stored, receipts, hashes, queue, attempts,
                   cleanup>>

(* PendingReceiptDeleteView: delete_with_file deletes the image first ...    *)
DeleteFile(q, r) ==
    /\ Holds(q, "idle") /\ Room
    /\ stored' = stored \ {r}
    /\ GoOn(q, [op |-> "delete", row |-> r])
    /\ UNCHANGED <<rows, created, receipts, hashes, queue, attempts, cleanup>>

(* ... and then the row.                                                     *)
DeleteRow(q) ==
    /\ Holds(q, "delete")
    /\ rows' = Restrict(rows, DOMAIN rows \ {requests[q].row})
    /\ GoOn(q, Idle)
    /\ UNCHANGED <<created, stored, receipts, hashes, queue, attempts, cleanup>>

(* A request fails, is refused or its worker dies.                           *)
Abandon(q) ==
    /\ ~Holds(q, "idle")
    /\ GoOn(q, Idle)
    /\ UNCHANGED <<rows, created, stored, receipts, hashes, queue, attempts,
                   cleanup>>

(* A faulty form: converted_receipt keeps the deleted receipt's key.         *)
DeleteReceipt_KeyStays(i) ==
    /\ receipts[i].kept
    /\ receipts' = [receipts EXCEPT ![i].kept = FALSE]
    /\ hashes' = [s \in Sources |-> IF hashes[s] = i THEN 0 ELSE hashes[s]]
    /\ UNCHANGED <<rows, created, stored, queue, attempts, requests, cleanup>>

(* Deleting a receipt deletes its image hash and clears converted_receipt.   *)
DeleteReceipt(i) ==
    /\ receipts[i].kept
    /\ receipts' = [receipts EXCEPT ![i].kept = FALSE]
    /\ hashes' = [s \in Sources |-> IF hashes[s] = i THEN 0 ELSE hashes[s]]
    /\ rows' = [r \in DOMAIN rows |->
          IF rows[r].receipt = i THEN [rows[r] EXCEPT !.receipt = 0] ELSE rows[r]]
    /\ UNCHANGED <<created, stored, queue, attempts, requests, cleanup>>

-----------------------------------------------------------------------------
(* Celery workers.  The tasks acknowledge late, so a message may be          *)
(* delivered again after an attempt has died, and while one still runs.      *)

MessageOf(a) == [row |-> a.row, task |-> a.task]

(* The task loads its row; a row that is gone ends it, a photo row without   *)
(* an image fails, a scan needs no image.                                    *)
Deliver(m) ==
    /\ m \in queue /\ Room
    /\ IF ~Exists(m.row)
       THEN queue' = queue \ {m} /\ UNCHANGED attempts
       ELSE /\ attempts' = attempts \cup
                 {[row |-> m.row, task |-> m.task,
                   step |-> IF rows[m.row].source \in Scans THEN "lookup"
                            ELSE IF rows[m.row].file THEN "extract"
                            ELSE "failing"]}
            /\ UNCHANGED queue
    /\ UNCHANGED <<rows, created, stored, receipts, hashes, requests, cleanup>>

Advance(a, step) ==
    /\ attempts' = (attempts \ {a}) \cup {[a EXCEPT !.step = step]}
    /\ UNCHANGED <<created, stored, receipts, hashes, queue, requests, cleanup>>

(* The QR code is read from the image, then claim_fiscal_key looks for a     *)
(* receipt with its key ...                                                  *)
ExtractKey(a) ==
    /\ a.step = "extract"
    /\ a.row \in stored
    /\ Advance(a, IF SaleRecorded THEN "failing" ELSE "claim")
    /\ UNCHANGED rows

(* A faulty form: the updates do not compare the task's id.                  *)
OnRecord_AnyTask(a) ==
    /\ Exists(a.row)
    /\ rows[a.row].status = "processing"

(* The conditions of the updates a task makes: its row is being processed    *)
(* and has the task's id on record.  The row it loaded always had an id.     *)
OnRecord(a) ==
    /\ Exists(a.row)
    /\ rows[a.row].status = "processing"
    /\ rows[a.row].task = a.task

(* ... and claims the key for the row.                                       *)
ClaimFiscalKey(a) ==
    /\ a.step = "claim"
    /\ IF OnRecord(a) /\ ~KeyClash(a.row)
       THEN /\ rows' = [rows EXCEPT ![a.row].keyed = TRUE]
            /\ Advance(a, "lookup")
       ELSE Advance(a, "failing") /\ UNCHANGED rows

(* Any exception of the pipeline: no image, no QR code, the tax service, the *)
(* validators, the soft time limit.                                          *)
PipelineFails(a) ==
    /\ a.step \in {"extract", "claim", "lookup"}
    /\ Advance(a, "failing")
    /\ UNCHANGED rows

Finish(a) ==
    /\ attempts' = attempts \ {a}
    /\ UNCHANGED <<created, stored, receipts, hashes, requests, cleanup>>

Acknowledge(a) == queue' = queue \ {MessageOf(a)}

Land(a, status) ==
    IF OnRecord(a)
    THEN rows' = [rows EXCEPT ![a.row].status = status, ![a.row].late = FALSE]
    ELSE UNCHANGED rows

MarkReady(a) ==
    a.step = "lookup" /\ Land(a, "ready") /\ Finish(a) /\ Acknowledge(a)

MarkFailed(a) ==
    a.step = "failing" /\ Land(a, "failed") /\ Finish(a) /\ Acknowledge(a)

(* The hard time limit or the death of a worker, before or after the         *)
(* acknowledgement.                                                          *)
WorkerLost(a) ==
    Finish(a) /\ UNCHANGED rows /\ (Acknowledge(a) \/ UNCHANGED queue)

-----------------------------------------------------------------------------
(* Time, and the cleanup that Celery Beat starts.                            *)

ProcessingLate(r) ==
    /\ rows[r].status = "processing" /\ ~rows[r].late
    /\ rows' = [rows EXCEPT ![r].late = TRUE]
    /\ UNCHANGED <<created, stored, receipts, hashes, queue, attempts, requests,
                   cleanup>>

Expire(r) ==
    /\ ~rows[r].expired
    /\ rows' = [rows EXCEPT ![r].expired = TRUE]
    /\ UNCHANGED <<created, stored, receipts, hashes, queue, attempts, requests,
                   cleanup>>

Sweep(phase, left) ==
    /\ cleanup' = [phase |-> phase, left |-> left]
    /\ UNCHANGED <<created, receipts, hashes, queue, attempts, requests>>

FetchStuck ==
    /\ cleanup.phase = "idle"
    /\ Sweep("recover",
             {r \in DOMAIN rows : rows[r].status = "processing" /\ rows[r].late})
    /\ UNCHANGED <<rows, stored>>

(* A faulty form: only rows with a task on record are recovered.             *)
Recover_QueuedOnly(r) ==
    /\ cleanup.phase = "recover" /\ r \in cleanup.left
    /\ rows' = IF Exists(r) /\ rows[r].status = "processing" /\ rows[r].task # 0
               THEN [rows EXCEPT ![r].status = "failed", ![r].late = FALSE]
               ELSE rows
    /\ Sweep("recover", cleanup.left \ {r})
    /\ UNCHANGED stored

(* mark_failed without a task id: the row need only be processing.           *)
Recover(r) ==
    /\ cleanup.phase = "recover" /\ r \in cleanup.left
    /\ rows' = IF Exists(r) /\ rows[r].status = "processing"
               THEN [rows EXCEPT ![r].status = "failed", ![r].late = FALSE]
               ELSE rows
    /\ Sweep("recover", cleanup.left \ {r})
    /\ UNCHANGED stored

(* A faulty form: a row without an image is never purged.                    *)
FetchExpired_ImagesOnly ==
    /\ cleanup.phase = "recover" /\ cleanup.left = {}
    /\ Sweep("purge", {r \in DOMAIN rows : rows[r].expired /\ r \in stored})
    /\ UNCHANGED <<rows, stored>>

FetchExpired ==
    /\ cleanup.phase = "recover" /\ cleanup.left = {}
    /\ Sweep("purge", {r \in DOMAIN rows : rows[r].expired})
    /\ UNCHANGED <<rows, stored>>

(* delete_with_file: the image, then the row.                                *)
PurgeFile(r) ==
    /\ cleanup.phase = "purge" /\ r \in cleanup.left
    /\ r \in stored
    /\ stored' = stored \ {r}
    /\ Sweep("purge", cleanup.left)
    /\ UNCHANGED rows

PurgeRow(r) ==
    /\ cleanup.phase = "purge" /\ r \in cleanup.left
    /\ r \notin stored
    /\ rows' = Restrict(rows, DOMAIN rows \ {r})
    /\ Sweep("purge", cleanup.left \ {r})
    /\ UNCHANGED stored

FinishCleanup ==
    /\ cleanup.phase = "purge" /\ cleanup.left = {}
    /\ Sweep("idle", {})
    /\ UNCHANGED <<rows, stored>>

(* A run may die on the way; Beat starts the next one.                       *)
CleanupDies ==
    /\ cleanup.phase # "idle"
    /\ Sweep("idle", {})
    /\ UNCHANGED <<rows, stored>>

CleanupStep ==
    \/ FetchStuck \/ FetchExpired \/ FinishCleanup
    \/ \E r \in cleanup.left : Recover(r) \/ PurgeFile(r) \/ PurgeRow(r)

-----------------------------------------------------------------------------

UserStep ==
    \/ \E q \in Requests :
        \/ \E s \in Sources : BeginUpload(q, s)
        \/ CreateRow(q) \/ AttachTask(q) \/ Enqueue(q) \/ ResetForRetry(q)
        \/ SaveReview(q) \/ ConvertToReceipt(q) \/ ConvertFailsLate(q)
        \/ DeleteRow(q) \/ Abandon(q)
        \/ \E r \in DOMAIN rows :
            BeginRetry(q, r) \/ BeginReview(q, r) \/ DeleteFile(q, r)
    \/ \E r \in DOMAIN rows : ReviewExpired(r)
    \/ \E i \in DOMAIN receipts : DeleteReceipt(i)

WorkerStep ==
    \/ \E m \in queue : Deliver(m)
    \/ \E a \in attempts :
        \/ ExtractKey(a) \/ ClaimFiscalKey(a) \/ PipelineFails(a)
        \/ MarkReady(a) \/ MarkFailed(a) \/ WorkerLost(a)

Tick == \E r \in DOMAIN rows : ProcessingLate(r) \/ Expire(r)

Next == UserStep \/ WorkerStep \/ Tick \/ CleanupStep \/ CleanupDies

(* A row that is processed grows late, and Beat starts the cleanup again and *)
(* again, so that each of its parts gets through some time.  Nothing is      *)
(* assumed of users, of workers, of the broker or of a row's expiry.         *)
Fairness ==
    /\ \A r \in RowIds : WF_vars(Exists(r) /\ ProcessingLate(r))
    /\ WF_vars(CleanupStep)
    /\ SF_vars(\E r \in cleanup.left : Recover(r))
    /\ SF_vars(FetchExpired)
    /\ SF_vars(\E r \in cleanup.left : PurgeFile(r) \/ PurgeRow(r))

Spec == Init /\ [][Next]_vars /\ Fairness

-----------------------------------------------------------------------------
(* Properties                                                                *)

(* However pictures are uploaded, scanned, retried, delivered twice and      *)
(* reviewed in two windows, a sale has at most one receipt at a time, so its *)
(* account is charged once.                                                  *)
OneReceiptPerSale ==
    Cardinality({i \in DOMAIN receipts : receipts[i].kept}) <= 1

(* A picture whose receipt is kept is known by its hash, and the hash leads  *)
(* to that receipt: its upload will be refused even without a fiscal key.    *)
SavedPictureKnown ==
    \A i \in DOMAIN receipts :
        receipts[i].kept => hashes[receipts[i].source] = i

(* Both: what every request, task and cleanup may count on.                  *)
PendingInv == PendingTypeOK /\ SavedPictureKnown

(* A task that is late, repeated or outlived by a retry changes a row only   *)
(* while the row is processing its own attempt: what the owner has reviewed  *)
(* or converted, and what a later attempt found, stays.                      *)
LateTasksHarmless ==
    [][\A r \in DOMAIN rows :
        Exists(r)' /\ rows[r]' # rows[r] /\ (attempts' # attempts \/ queue' # queue)
            => /\ rows[r].status = "processing"
               /\ \E a \in attempts : a.row = r /\ a.task = rows[r].task]_vars

(* An image without a row, which nothing would ever delete, is only left by  *)
(* a row that was past its expiry.                                           *)
OrphansWereExpired ==
    [][\A r \in DOMAIN rows :
        ~Exists(r)' /\ r \in stored' => rows[r].expired]_vars

(* A picture does not stay in processing, though its task may be lost, its   *)
(* worker may die and its request may have died before it was queued.        *)
ProcessingEnds ==
    \A r \in RowIds : []<>~(Exists(r) /\ rows[r].status = "processing")

(* A row past its expiry is purged, whatever its status and however often    *)
(* the cleanup itself dies on the way.                                       *)
RowsPurged ==
    \A r \in RowIds : []<>~(Exists(r) /\ rows[r].expired)
=============================================================================
