---------------------------- MODULE PendingProofs ----------------------------
(* Proofs about pending receipts, for any pictures, requests and bounds.     *)
EXTENDS PendingReceipts, SequenceTheorems, FiniteSetTheorems, TLAPS

USE PendingAssumption

-----------------------------------------------------------------------------
(* The inductive invariant, part by part.  A row that is ready, or may be    *)
(* made ready, holds its fiscal key; every receipt holds it, so that at most *)
(* one is kept.  Nobody refers to a row that is still to be created, so that *)
(* a primary key never comes to mean another row.                            *)
Receipt == [source : Sources, keyed : BOOLEAN, kept : BOOLEAN]

RowsOK ==
    /\ created \in 0 .. MaxRows
    /\ DOMAIN rows \subseteq 1 .. created
    /\ stored \subseteq 1 .. created
    /\ \A r \in DOMAIN rows :
        /\ rows[r] \in Row
        /\ rows[r].source \in Scans => rows[r].keyed
        /\ rows[r].status \in {"ready", "converted"} => rows[r].keyed

OneKept ==
    \A i, j \in DOMAIN receipts : receipts[i].kept /\ receipts[j].kept => i = j

ReceiptsOK ==
    /\ receipts \in Seq(Receipt) /\ Len(receipts) <= MaxReceipts
    /\ hashes \in [Sources -> ReceiptRef]
    /\ \A i \in DOMAIN receipts : receipts[i].keyed
    /\ \A r \in DOMAIN rows : rows[r].receipt # 0 =>
            rows[r].receipt \in DOMAIN receipts /\ receipts[rows[r].receipt].kept
    /\ OneKept
    /\ SavedPictureKnown

TasksOK ==
    /\ queue \subseteq Message /\ attempts \subseteq Attempt
    /\ \A m \in queue : m.row <= created
    /\ \A a \in attempts :
        /\ a.row <= created
        /\ a.step = "lookup" /\ Exists(a.row) => rows[a.row].keyed

(* A row that a request is about to delete has lost its image.               *)
Sound(request) ==
    /\ request \in Request
    /\ request.op \notin {"idle", "create"} => request.row <= created
    /\ request.op = "review" /\ Exists(request.row) => rows[request.row].keyed
    /\ request.op = "delete" => request.row \notin stored

RequestsOK ==
    /\ requests \in [Requests -> Request]
    /\ \A q \in Requests : Sound(requests[q])

CleanupOK ==
    cleanup \in [phase : {"idle", "recover", "purge"}, left : SUBSET RowIds]

PInv == RowsOK /\ ReceiptsOK /\ TasksOK /\ RequestsOK /\ CleanupOK

-----------------------------------------------------------------------------
(* How rows change once they are there.                                      *)
Evolves ==
    /\ created' = created /\ stored' \subseteq stored
    /\ DOMAIN rows' \subseteq DOMAIN rows
    /\ \A r \in DOMAIN rows' :
        /\ rows'[r] \in Row
        /\ rows'[r].source = rows[r].source
        /\ rows[r].keyed => rows'[r].keyed
        /\ rows'[r].status \in {"ready", "converted"} => rows'[r].keyed

LEMMA RowsStep == ASSUME PInv, Evolves PROVE RowsOK'
BY DEF PInv, RowsOK, Evolves

LEMMA ReceiptsStay ==
    ASSUME PInv, Evolves, UNCHANGED <<receipts, hashes>>,
           \A r \in DOMAIN rows' : rows'[r].receipt \in {0, rows[r].receipt}
    PROVE  ReceiptsOK'
BY DEF PInv, ReceiptsOK, Evolves, OneKept, SavedPictureKnown

LEMMA TasksStep ==
    ASSUME PInv, Evolves,
           \A m \in queue' : m \in queue \/ (m \in Message /\ m.row <= created),
           \A a \in attempts' :
             \/ a \in attempts
             \/ /\ a \in Attempt /\ a.row <= created
                /\ (a.step = "lookup" /\ Exists(a.row)' => rows'[a.row].keyed)
    PROVE  TasksOK'
BY DEF PInv, TasksOK, Evolves, Exists

LEMMA TasksStay ==
    ASSUME PInv, Evolves, UNCHANGED <<queue, attempts>> PROVE TasksOK'
BY DEF PInv, TasksOK, Evolves, Exists

LEMMA RequestsStep ==
    ASSUME PInv, Evolves, NEW q \in Requests, NEW request,
           requests' = [requests EXCEPT ![q] = request], Sound(request)'
    PROVE  RequestsOK'
<1>1. /\ requests'[q] = request
      /\ \A p \in Requests : p # q => requests'[p] = requests[p]
      /\ requests' \in [Requests -> Request]
  BY DEF PInv, RequestsOK, Sound
<1>2. \A p \in Requests : Sound(requests[p])
  BY DEF PInv, RequestsOK
<1>3. ASSUME NEW p \in Requests, p # q PROVE Sound(requests[p])'
  BY <1>1, <1>2, <1>3 DEF Sound, Evolves, Exists, Request, Idle, Sources
<1> QED
  BY <1>1, <1>3 DEF RequestsOK, Sound

LEMMA RequestsStay ==
    ASSUME PInv, Evolves, UNCHANGED requests PROVE RequestsOK'
BY DEF PInv, RequestsOK, Sound, Evolves, Exists

LEMMA NothingEvolves ==
    ASSUME PInv, UNCHANGED <<rows, created>>, stored' \subseteq stored PROVE Evolves
BY DEF PInv, RowsOK, Evolves

LEMMA DeleteEvolves ==
    ASSUME PInv, UNCHANGED created, stored' \subseteq stored,
           NEW r, rows' = Restrict(rows, DOMAIN rows \ {r})
    PROVE  /\ Evolves
           /\ \A o \in DOMAIN rows' : rows'[o].receipt \in {0, rows[o].receipt}
<1>1. /\ DOMAIN rows' = DOMAIN rows \ {r}
      /\ \A o \in DOMAIN rows \ {r} : rows'[o] = rows[o]
  BY DEF Restrict
<1> QED
  BY <1>1 DEF PInv, RowsOK, Evolves

LEMMA ChangeEvolves ==
    ASSUME PInv, UNCHANGED created, stored' \subseteq stored,
           NEW r \in DOMAIN rows, NEW row \in Row,
           rows' = [rows EXCEPT ![r] = row],
           row.source = rows[r].source, rows[r].keyed => row.keyed,
           row.status \in {"ready", "converted"} => row.keyed
    PROVE  Evolves
<1>1. /\ DOMAIN rows' = DOMAIN rows /\ rows'[r] = row
      /\ \A o \in DOMAIN rows : o # r => rows'[o] = rows[o]
  OBVIOUS
<1> QED
  BY <1>1 DEF PInv, RowsOK, Evolves

ReceiptsKept ==
    /\ UNCHANGED <<receipts, hashes>>
    /\ \A r \in DOMAIN rows' : rows'[r].receipt \in {0, rows[r].receipt}

LEMMA UserKeeps ==
    ASSUME PInv, Evolves, ReceiptsKept, RequestsOK',
           UNCHANGED <<queue, attempts, cleanup>>
    PROVE  PInv'
<1>1. RowsOK' /\ ReceiptsOK' /\ CleanupOK'
  BY RowsStep, ReceiptsStay DEF ReceiptsKept, PInv, CleanupOK
<1>2. TasksOK'
  BY TasksStay
<1> QED
  BY <1>1, <1>2 DEF PInv

LEMMA SweepKeeps ==
    ASSUME PInv, Evolves, ReceiptsKept, CleanupOK',
           UNCHANGED <<queue, attempts, requests>>
    PROVE  PInv'
<1>1. RowsOK' /\ ReceiptsOK' /\ RequestsOK'
  BY RowsStep, ReceiptsStay, RequestsStay DEF ReceiptsKept
<1>2. TasksOK'
  BY TasksStay
<1> QED
  BY <1>1, <1>2 DEF PInv

LEMMA WorkerKeeps ==
    ASSUME PInv, Evolves, ReceiptsKept, TasksOK', UNCHANGED <<requests, cleanup>>
    PROVE  PInv'
BY RowsStep, ReceiptsStay, RequestsStay DEF ReceiptsKept, PInv, CleanupOK

-----------------------------------------------------------------------------
(* The steps of the owner's requests.                                        *)
LEMMA RequestType ==
    ASSUME RequestsOK, NEW q \in Requests
    PROVE  /\ requests[q] \in Request /\ Sound(requests[q])
           /\ requests[q].op \in {"attach", "reset", "review", "convert", "delete"}
                => requests[q].row \in RowIds
           /\ requests[q].op = "enqueue" =>
                requests[q].row \in RowIds /\ requests[q].task \in TaskIds
           /\ requests[q].op = "create" => requests[q].source \in Sources
BY DEF RequestsOK, Sound, Request, Idle

LEMMA BeginStep ==
    ASSUME PInv, NEW q \in Requests, NEW request, Begin(q, request),
           Sound(request)
    PROVE  PInv'
<1>1. Evolves /\ ReceiptsKept /\ UNCHANGED <<queue, attempts, cleanup, rows, created, stored>>
  BY NothingEvolves DEF Begin, ReceiptsKept
<1>2. Sound(request)'
  BY <1>1 DEF Sound, Exists
<1>3. RequestsOK'
  BY <1>1, <1>2, RequestsStep DEF Begin, GoOn
<1> QED
  BY <1>1, <1>3, UserKeeps

LEMMA RowAge ==
    ASSUME PInv, NEW r \in DOMAIN rows
    PROVE  r \in RowIds /\ r <= created /\ r \in 1 .. created
<1>1. created \in 0 .. MaxRows /\ r \in 1 .. created
  BY DEF PInv, RowsOK
<1> QED
  BY <1>1 DEF RowIds

LEMMA BeginSteps ==
    ASSUME PInv, NEW q \in Requests,
           \/ \E s \in Sources : BeginUpload(q, s)
           \/ \E r \in DOMAIN rows : BeginRetry(q, r) \/ BeginReview(q, r)
    PROVE  PInv'
<1>1. ASSUME NEW s \in Sources, BeginUpload(q, s) PROVE PInv'
  <2>1. Sound([op |-> "create", source |-> s])
    BY DEF Sound, Request
  <2> QED
    BY <1>1, <2>1, BeginStep DEF BeginUpload
<1>2. ASSUME NEW r \in DOMAIN rows, BeginRetry(q, r) PROVE PInv'
  <2>1. Sound([op |-> "reset", row |-> r])
    BY RowAge DEF Sound, Request
  <2> QED
    BY <1>2, <2>1, BeginStep DEF BeginRetry
<1>3. ASSUME NEW r \in DOMAIN rows, BeginReview(q, r) PROVE PInv'
  <2>1. rows[r].keyed
    BY <1>3 DEF BeginReview, PInv, RowsOK
  <2>2. Sound([op |-> "review", row |-> r])
    BY <2>1, RowAge DEF Sound, Request
  <2> QED
    BY <1>3, <2>2, BeginStep DEF BeginReview
<1> QED
  BY <1>1, <1>2, <1>3

LEMMA CreateStep ==
    ASSUME PInv, NEW q \in Requests, CreateRow(q) PROVE PInv'
<1>0. requests[q].source \in Sources /\ created + 1 \in RowIds
  BY RequestType DEF PInv, RowsOK, CreateRow, Holds, RowIds
<1>a. PICK s \in Sources, r \in RowIds : s = requests[q].source /\ r = created + 1
  BY <1>0
<1> DEFINE row == [source |-> s, status |-> "processing", late |-> FALSE,
                   expired |-> FALSE, keyed |-> s \in Scans, task |-> 0,
                   file |-> s \in Photos, receipt |-> 0]
<1>1. /\ created \in 0 .. MaxRows /\ r = created + 1 /\ created' = r
      /\ rows' = [o \in DOMAIN rows \cup {r} |-> IF o = r THEN row ELSE rows[o]]
      /\ stored' = IF s \in Photos THEN stored \cup {r} ELSE stored
      /\ requests' = [requests EXCEPT ![q] = [op |-> "attach", row |-> r]]
      /\ UNCHANGED <<receipts, hashes, queue, attempts, cleanup>>
  BY <1>a DEF PInv, RowsOK, CreateRow, GoOn
<1>2. row \in Row
  BY <1>1 DEF Row, ReceiptRef
<1>3. r \notin DOMAIN rows /\ \A o \in DOMAIN rows : rows'[o] = rows[o] /\ rows'[r] = row
  BY <1>1 DEF PInv, RowsOK
<1>4. RowsOK'
  <2>1. /\ created' \in 0 .. MaxRows /\ DOMAIN rows' \subseteq 1 .. created'
        /\ stored' \subseteq 1 .. created'
    BY <1>1 DEF PInv, RowsOK, RowIds
  <2>2. ASSUME NEW o \in DOMAIN rows'
        PROVE  /\ rows'[o] \in Row
               /\ rows'[o].source \in Scans => rows'[o].keyed
               /\ rows'[o].status \in {"ready", "converted"} => rows'[o].keyed
    <3>1. CASE o = r
      BY <1>1, <1>2, <3>1
    <3>2. CASE o # r
      BY <1>1, <3>2 DEF PInv, RowsOK
    <3> QED
      BY <3>1, <3>2
  <2> QED
    BY <2>1, <2>2 DEF RowsOK
<1>5. ReceiptsOK'
  <2>1. \A o \in DOMAIN rows' : rows'[o].receipt # 0 =>
            o \in DOMAIN rows /\ rows'[o] = rows[o]
    BY <1>1
  <2> QED
    BY <1>1, <2>1 DEF PInv, ReceiptsOK, OneKept, SavedPictureKnown
<1>6. TasksOK'
  <2>1. \A a \in attempts : Exists(a.row)' => Exists(a.row) /\ rows'[a.row] = rows[a.row]
    <3>1. \A a \in attempts : a.row # r
      BY <1>1 DEF PInv, TasksOK, Attempt, RowIds
    <3> QED
      BY <1>1, <3>1 DEF Exists
  <2>2. \A n \in RowIds : n <= created => n <= created'
    BY <1>1 DEF RowIds
  <2> QED
    BY <1>1, <2>1, <2>2 DEF PInv, TasksOK, Attempt, Message
<1>7. RequestsOK'
  <2>1. Sound([op |-> "attach", row |-> r])'
    BY <1>1 DEF Sound, Request, RowIds
  <2>2. ASSUME NEW p \in Requests, p # q PROVE Sound(requests[p])'
    <3>1. requests'[p] = requests[p] /\ Sound(requests[p])
      BY <1>1, <2>2 DEF PInv, RequestsOK
    <3>2. requests[p].op \notin {"idle", "create"} =>
            /\ requests[p].row \in RowIds /\ requests[p].row <= created
            /\ requests[p].row # r
      BY <1>1, <3>1 DEF Sound, Request, Idle, RowIds
    <3>3. requests[p].op \notin {"idle", "create"} =>
            /\ requests[p].row <= created'
            /\ Exists(requests[p].row)' =>
                    Exists(requests[p].row) /\ rows'[requests[p].row] = rows[requests[p].row]
            /\ requests[p].row \in stored' => requests[p].row \in stored
      BY <1>1, <3>1, <3>2 DEF Exists, RowIds
    <3> QED
      BY <3>1, <3>3 DEF Sound
  <2>3. requests'[q] = [op |-> "attach", row |-> r] /\ requests' \in [Requests -> Request]
    BY <1>1 DEF PInv, RequestsOK, Request
  <2>4. Sound(requests[q])'
    BY <2>1, <2>3
  <2> QED
    BY <2>2, <2>3, <2>4 DEF RequestsOK
<1> QED
  BY <1>1, <1>4, <1>5, <1>6, <1>7 DEF PInv, CleanupOK

LEMMA IdleSound == PInv => Sound(Idle)
BY DEF Sound, Request, Idle

(* A request changes the row it has loaded, and goes on.                     *)
LEMMA ChangeStep ==
    ASSUME PInv, NEW q \in Requests, NEW r \in DOMAIN rows, NEW row \in Row,
           NEW request,
           rows' = [rows EXCEPT ![r] = row],
           row.source = rows[r].source, rows[r].keyed => row.keyed,
           row.receipt = rows[r].receipt,
           row.status \in {"ready", "converted"} => row.keyed,
           GoOn(q, request), Sound(request),
           UNCHANGED <<created, stored, receipts, hashes, queue, attempts, cleanup>>
    PROVE  PInv'
<1>1. Evolves
  BY ChangeEvolves
<1>2. ReceiptsKept
  BY DEF ReceiptsKept
<1>3. Sound(request)'
  BY <1>1 DEF Sound, Exists, Evolves
<1>4. RequestsOK'
  BY <1>1, <1>3, RequestsStep DEF GoOn
<1> QED
  BY <1>1, <1>2, <1>4, UserKeeps

LEMMA AttachStep ==
    ASSUME PInv, NEW q \in Requests, AttachTask(q) PROVE PInv'
<1>1. PICK r \in DOMAIN rows : r = requests[q].row /\ rows[r].task < MaxTasks
  BY DEF AttachTask, Exists
<1>2. rows[r] \in Row
  BY DEF PInv, RowsOK
<1>3. rows[r].task + 1 \in TaskIds
  BY <1>1, <1>2 DEF Row, TaskIds
<1>4. PICK t \in TaskIds : t = rows[r].task + 1
  BY <1>3
<1>5. PICK row \in Row : row = [rows[r] EXCEPT !.task = t]
  BY <1>2 DEF Row
<1>6. /\ rows' = [rows EXCEPT ![r] = row]
      /\ GoOn(q, [op |-> "enqueue", row |-> r, task |-> t])
      /\ UNCHANGED <<created, stored, receipts, hashes, queue, attempts, cleanup>>
  BY <1>1, <1>4, <1>5 DEF AttachTask
<1>7. Sound([op |-> "enqueue", row |-> r, task |-> t])
  BY RowAge DEF Sound, Request
<1>8. /\ row.source = rows[r].source /\ rows[r].keyed = row.keyed
      /\ row.receipt = rows[r].receipt
      /\ row.status \in {"ready", "converted"} => row.keyed
  BY <1>2, <1>5 DEF Row, PInv, RowsOK
<1> QED
  BY <1>6, <1>7, <1>8, ChangeStep

LEMMA ResetStep ==
    ASSUME PInv, NEW q \in Requests, ResetForRetry(q) PROVE PInv'
<1>1. PICK r \in DOMAIN rows : r = requests[q].row
  BY DEF ResetForRetry, Exists
<1>2. rows[r] \in Row
  BY DEF PInv, RowsOK
<1>3. PICK row \in Row : row = [rows[r] EXCEPT !.status = "processing", !.late = FALSE]
  BY <1>2 DEF Row
<1>4. /\ rows' = [rows EXCEPT ![r] = row]
      /\ GoOn(q, [op |-> "attach", row |-> r])
      /\ UNCHANGED <<created, stored, receipts, hashes, queue, attempts, cleanup>>
  BY <1>1, <1>3 DEF ResetForRetry
<1>5. Sound([op |-> "attach", row |-> r])
  BY RowAge DEF Sound, Request
<1>6. /\ row.source = rows[r].source /\ rows[r].keyed = row.keyed
      /\ row.receipt = rows[r].receipt /\ row.status = "processing"
  BY <1>2, <1>3 DEF Row
<1> QED
  BY <1>4, <1>5, <1>6, ChangeStep

LEMMA SaveReviewStep ==
    ASSUME PInv, NEW q \in Requests, SaveReview(q) PROVE PInv'
<1>1. PICK r \in DOMAIN rows : r = requests[q].row
  BY DEF SaveReview, Exists
<1>2. rows[r] \in Row /\ rows[r].keyed
  BY <1>1, RequestType DEF PInv, RowsOK, SaveReview, Holds, Sound, Exists
<1>3. PICK row \in Row : row = [rows[r] EXCEPT !.status = "ready", !.late = FALSE]
  BY <1>2 DEF Row
<1>4. PICK next \in {Idle, [op |-> "convert", row |-> r]} : GoOn(q, next)
  BY <1>1 DEF SaveReview
<1>5. /\ rows' = [rows EXCEPT ![r] = row]
      /\ UNCHANGED <<created, stored, receipts, hashes, queue, attempts, cleanup>>
  BY <1>1, <1>3 DEF SaveReview
<1>6. Sound(next)
  <2>1. Sound([op |-> "convert", row |-> r])
    BY RowAge DEF Sound, Request
  <2> QED
    BY <1>4, <2>1, IdleSound
<1>7. /\ row.source = rows[r].source /\ row.keyed
      /\ row.receipt = rows[r].receipt
  BY <1>2, <1>3 DEF Row
<1> QED
  BY <1>4, <1>5, <1>6, <1>7, ChangeStep

(* A request that leaves the rows alone and goes on.                         *)
LEMMA GoOnStep ==
    ASSUME PInv, NEW q \in Requests, NEW request,
           GoOn(q, request), Sound(request)',
           stored' \subseteq stored,
           UNCHANGED <<rows, created, receipts, hashes, queue, attempts, cleanup>>
    PROVE  PInv'
<1>1. Evolves /\ ReceiptsKept
  BY NothingEvolves DEF ReceiptsKept
<1>2. RequestsOK'
  BY <1>1, RequestsStep DEF GoOn
<1> QED
  BY <1>1, <1>2, UserKeeps

LEMMA IdleSoundLater == PInv => Sound(Idle)'
BY DEF Sound, Request, Idle

LEMMA EnqueueStep ==
    ASSUME PInv, NEW q \in Requests, Enqueue(q) PROVE PInv'
<1>1. PICK r \in RowIds, t \in TaskIds :
        r = requests[q].row /\ t = requests[q].task /\ r <= created
  BY RequestType DEF PInv, Enqueue, Holds, Sound
<1>2. /\ queue' = queue \cup {[row |-> r, task |-> t]}
      /\ GoOn(q, Idle)
      /\ UNCHANGED <<rows, created, stored, receipts, hashes, attempts, cleanup>>
  BY <1>1 DEF Enqueue
<1>3. Evolves /\ ReceiptsKept
  BY <1>2, NothingEvolves DEF ReceiptsKept
<1>4. RequestsOK'
  BY <1>2, <1>3, IdleSoundLater, RequestsStep DEF GoOn
<1>5. TasksOK'
  BY <1>1, <1>2 DEF PInv, TasksOK, Message, Exists
<1> QED
  BY <1>2, <1>3, <1>4, <1>5, RowsStep, ReceiptsStay DEF PInv, ReceiptsKept, CleanupOK

LEMMA EndSteps ==
    ASSUME PInv, NEW q \in Requests, ConvertFailsLate(q) \/ Abandon(q)
    PROVE  PInv'
<1>1. /\ GoOn(q, Idle) /\ stored' \subseteq stored
      /\ UNCHANGED <<rows, created, receipts, hashes, queue, attempts, cleanup>>
  BY DEF ConvertFailsLate, Abandon
<1> QED
  BY <1>1, IdleSoundLater, GoOnStep

LEMMA DeleteFileStep ==
    ASSUME PInv, NEW q \in Requests, NEW r \in DOMAIN rows, DeleteFile(q, r)
    PROVE  PInv'
<1>1. /\ GoOn(q, [op |-> "delete", row |-> r]) /\ stored' = stored \ {r}
      /\ UNCHANGED <<rows, created, receipts, hashes, queue, attempts, cleanup>>
  BY DEF DeleteFile
<1>2. Sound([op |-> "delete", row |-> r])'
  BY <1>1, RowAge DEF Sound, Request
<1> QED
  BY <1>1, <1>2, GoOnStep

LEMMA DeleteRowStep ==
    ASSUME PInv, NEW q \in Requests, DeleteRow(q) PROVE PInv'
<1>1. PICK r \in RowIds : r = requests[q].row
  BY RequestType DEF PInv, DeleteRow, Holds
<1>2. /\ rows' = Restrict(rows, DOMAIN rows \ {r}) /\ GoOn(q, Idle)
      /\ UNCHANGED <<created, stored, receipts, hashes, queue, attempts, cleanup>>
  BY <1>1 DEF DeleteRow
<1>3. Evolves /\ ReceiptsKept
  BY <1>2, DeleteEvolves DEF ReceiptsKept
<1>4. RequestsOK'
  BY <1>2, <1>3, IdleSoundLater, RequestsStep DEF GoOn
<1> QED
  BY <1>2, <1>3, <1>4, UserKeeps

LEMMA ReviewExpiredStep ==
    ASSUME PInv, NEW r \in DOMAIN rows, ReviewExpired(r) PROVE PInv'
<1>1. /\ rows' = Restrict(rows, DOMAIN rows \ {r})
      /\ UNCHANGED <<created, stored, receipts, hashes, queue, attempts, requests, cleanup>>
  BY DEF ReviewExpired
<1>2. Evolves /\ ReceiptsKept
  BY <1>1, DeleteEvolves DEF ReceiptsKept
<1> QED
  BY <1>1, <1>2, RequestsStay, UserKeeps

(* A converted row has no kept receipt beside its own.                       *)
LEMMA ConvertStep ==
    ASSUME PInv, NEW q \in Requests, ConvertToReceipt(q) PROVE PInv'
<1>1. PICK r \in DOMAIN rows : r = requests[q].row /\ Convertible(r)
  BY DEF ConvertToReceipt, Exists
<1>2. /\ rows[r] \in Row /\ rows[r].keyed /\ rows[r].source \in Sources
      /\ \A i \in DOMAIN receipts : ~receipts[i].kept
  BY <1>1 DEF PInv, RowsOK, ReceiptsOK, Convertible, SaleRecorded, Row
<1>3. Len(receipts) + 1 \in ReceiptRef
  BY DEF ConvertToReceipt, PInv, ReceiptsOK, ReceiptRef
<1>4. PICK i \in ReceiptRef : i = Len(receipts) + 1
  BY <1>3
<1>5. PICK new \in Receipt :
        new = [source |-> rows[r].source, keyed |-> rows[r].keyed, kept |-> TRUE]
  BY <1>2 DEF Receipt, Row
<1>6. PICK row \in Row :
        row = [rows[r] EXCEPT !.status = "converted", !.file = FALSE, !.receipt = i]
  BY <1>2 DEF Row
<1>7. /\ receipts' = Append(receipts, new)
      /\ hashes' = [hashes EXCEPT ![new.source] = i]
      /\ stored' = stored \ {r}
      /\ rows' = [rows EXCEPT ![r] = row]
      /\ GoOn(q, Idle)
      /\ UNCHANGED <<created, queue, attempts, cleanup>>
  BY <1>1, <1>4, <1>5, <1>6 DEF ConvertToReceipt
<1>8. /\ row.source = rows[r].source /\ row.keyed /\ row.receipt = i
      /\ new.source = rows[r].source /\ new.keyed /\ new.kept
  BY <1>2, <1>5, <1>6 DEF Row
<1>9. Evolves
  BY <1>7, <1>8, ChangeEvolves
<1>10. /\ receipts' \in Seq(Receipt) /\ Len(receipts') = i
       /\ DOMAIN receipts' = DOMAIN receipts \cup {i} /\ i \notin DOMAIN receipts
       /\ receipts'[i] = new
       /\ \A j \in DOMAIN receipts : receipts'[j] = receipts[j]
  BY <1>4, <1>7, AppendProperties DEF PInv, ReceiptsOK
<1>11. ReceiptsOK'
  <2>1. /\ Len(receipts') <= MaxReceipts /\ hashes' \in [Sources -> ReceiptRef]
        /\ \A j \in DOMAIN receipts' : receipts'[j].keyed
    BY <1>2, <1>4, <1>7, <1>8, <1>10 DEF PInv, ReceiptsOK, ConvertToReceipt, ReceiptRef
  <2>2. \A j \in DOMAIN receipts' : receipts'[j].kept => j = i
    BY <1>2, <1>10
  <2>3. ASSUME NEW o \in DOMAIN rows', rows'[o].receipt # 0
        PROVE  rows'[o].receipt \in DOMAIN receipts' /\ receipts'[rows'[o].receipt].kept
    <3>1. CASE o = r
      BY <1>7, <1>8, <1>10, <3>1
    <3>2. CASE o # r
      BY <1>2, <1>7, <1>10, <2>3, <3>2 DEF PInv, ReceiptsOK
    <3> QED
      BY <3>1, <3>2
  <2>4. hashes'[receipts'[i].source] = i
    BY <1>2, <1>7, <1>8, <1>10 DEF PInv, ReceiptsOK
  <2>5. OneKept' /\ SavedPictureKnown'
    BY <2>2, <2>4 DEF OneKept, SavedPictureKnown
  <2> QED
    BY <1>10, <2>1, <2>3, <2>5 DEF ReceiptsOK
<1>12. RequestsOK'
  BY <1>7, <1>9, IdleSoundLater, RequestsStep DEF GoOn
<1> QED
  BY <1>7, <1>9, <1>11, <1>12, RowsStep, TasksStay DEF PInv, CleanupOK

LEMMA DeleteReceiptStep ==
    ASSUME PInv, NEW i \in DOMAIN receipts, DeleteReceipt(i) PROVE PInv'
<1>0. /\ receipts[i].kept /\ receipts \in Seq(Receipt)
      /\ \A r \in DOMAIN rows : rows[r] \in Row
  BY DEF PInv, ReceiptsOK, RowsOK, DeleteReceipt
<1>a. \A j \in DOMAIN receipts : receipts[j] \in Receipt
  BY <1>0, ElementOfSeq
<1>1. /\ receipts' = [receipts EXCEPT ![i].kept = FALSE]
      /\ hashes' = [s \in Sources |-> IF hashes[s] = i THEN 0 ELSE hashes[s]]
      /\ rows' = [r \in DOMAIN rows |->
            IF rows[r].receipt = i THEN [rows[r] EXCEPT !.receipt = 0] ELSE rows[r]]
      /\ UNCHANGED <<created, stored, queue, attempts, requests, cleanup>>
  BY DEF DeleteReceipt
<1>2. ASSUME NEW r \in DOMAIN rows
      PROVE  /\ rows'[r] \in Row /\ rows'[r].source = rows[r].source
             /\ rows'[r].keyed = rows[r].keyed /\ rows'[r].status = rows[r].status
             /\ rows'[r].receipt = IF rows[r].receipt = i THEN 0 ELSE rows[r].receipt
  <2>1. rows[r] \in Row
    BY <1>0
  <2>2. CASE rows[r].receipt = i
    <3>1. rows'[r] = [rows[r] EXCEPT !.receipt = 0]
      BY <1>1, <2>2
    <3> QED
      BY <2>1, <2>2, <3>1 DEF Row, ReceiptRef
  <2>3. CASE rows[r].receipt # i
    BY <1>1, <2>1, <2>3
  <2> QED
    BY <2>2, <2>3
<1>3. Evolves
  BY <1>1, <1>2 DEF Evolves, PInv, RowsOK
<1>4. /\ receipts' \in Seq(Receipt) /\ Len(receipts') = Len(receipts)
      /\ DOMAIN receipts' = DOMAIN receipts
      /\ \A j \in DOMAIN receipts :
            /\ receipts'[j].source = receipts[j].source
            /\ receipts'[j].keyed = receipts[j].keyed
            /\ receipts'[j].kept => receipts[j].kept /\ j # i
            /\ receipts[j].kept /\ j # i => receipts'[j].kept
  <2>1. [receipts[i] EXCEPT !.kept = FALSE] \in Receipt
    BY <1>a DEF Receipt
  <2>2. receipts' = [receipts EXCEPT ![i] = [receipts[i] EXCEPT !.kept = FALSE]]
    BY <1>1
  <2>3. ASSUME NEW j \in DOMAIN receipts
        PROVE  receipts'[j] = IF j = i THEN [receipts[i] EXCEPT !.kept = FALSE]
                              ELSE receipts[j]
    BY <2>2
  <2>4. receipts[i] \in Receipt
    BY <1>a
  <2>5. /\ receipts'[i].source = receipts[i].source
        /\ receipts'[i].keyed = receipts[i].keyed /\ ~receipts'[i].kept
    BY <2>3, <2>4 DEF Receipt
  <2>6. receipts' \in Seq(Receipt) /\ Len(receipts') = Len(receipts)
    BY <1>0, <2>1, <2>2, ExceptSeq
  <2> QED
    BY <2>2, <2>3, <2>5, <2>6
<1>5. ReceiptsOK'
  <2>1. /\ hashes' \in [Sources -> ReceiptRef]
        /\ Len(receipts') <= MaxReceipts
        /\ \A j \in DOMAIN receipts' : receipts'[j].keyed
    BY <1>1, <1>4 DEF PInv, ReceiptsOK, ReceiptRef
  <2>2. \A r \in DOMAIN rows' : rows'[r].receipt # 0 =>
            rows'[r].receipt \in DOMAIN receipts' /\ receipts'[rows'[r].receipt].kept
    BY <1>1, <1>2, <1>4 DEF PInv, ReceiptsOK
  <2>3. OneKept'
    BY <1>4 DEF PInv, ReceiptsOK, OneKept
  <2>4. SavedPictureKnown'
    <3>1. \A j \in DOMAIN receipts : receipts[j].source \in Sources
      BY <1>a DEF Receipt
    <3> QED
      BY <1>1, <1>4, <3>1 DEF PInv, ReceiptsOK, SavedPictureKnown
  <2> QED
    BY <1>4, <2>1, <2>2, <2>3, <2>4 DEF ReceiptsOK
<1> QED
  BY <1>1, <1>3, <1>5, RowsStep, TasksStay, RequestsStay DEF PInv, CleanupOK

-----------------------------------------------------------------------------
(* The steps of the workers.                                                 *)
LEMMA AttemptType ==
    ASSUME PInv, NEW a \in attempts
    PROVE  /\ a \in Attempt /\ a.row \in RowIds /\ a.task \in TaskIds
           /\ a.row <= created
           /\ \A step \in {"extract", "claim", "lookup", "failing"} :
                /\ [a EXCEPT !.step = step] \in Attempt
                /\ [a EXCEPT !.step = step].row = a.row
                /\ [a EXCEPT !.step = step].step = step
           /\ a.step = "lookup" /\ Exists(a.row) => rows[a.row].keyed
BY DEF PInv, TasksOK, Attempt

LEMMA DeliverStep ==
    ASSUME PInv, NEW m \in queue, Deliver(m) PROVE PInv'
<1>0. m \in Message /\ m.row \in RowIds /\ m.task \in TaskIds /\ m.row <= created
  BY DEF PInv, TasksOK, Message
<1>1. UNCHANGED <<rows, created, stored, receipts, hashes, requests, cleanup>>
  BY DEF Deliver
<1>2. Evolves /\ ReceiptsKept
  BY <1>1, NothingEvolves DEF ReceiptsKept
<1>3. TasksOK'
  <2>1. CASE ~Exists(m.row)
    BY <1>1, <2>1 DEF Deliver, PInv, TasksOK, Exists
  <2>2. CASE Exists(m.row)
    <3>1. PICK step \in {"lookup", "extract", "failing"} :
            /\ step = IF rows[m.row].source \in Scans THEN "lookup"
                      ELSE IF rows[m.row].file THEN "extract" ELSE "failing"
            /\ attempts' = attempts \cup {[row |-> m.row, task |-> m.task, step |-> step]}
            /\ queue' = queue
      BY <2>2 DEF Deliver
    <3>2. step = "lookup" => rows[m.row].keyed
      BY <2>2, <3>1 DEF PInv, RowsOK, Exists
    <3>3. [row |-> m.row, task |-> m.task, step |-> step] \in Attempt
      BY <1>0, <3>1 DEF Attempt
    <3> QED
      BY <1>0, <1>1, <3>1, <3>2, <3>3 DEF PInv, TasksOK, Exists
  <2> QED
    BY <2>1, <2>2
<1> QED
  BY <1>1, <1>2, <1>3, WorkerKeeps

(* An attempt advances, and changes at most its row.                         *)
LEMMA AdvanceTasks ==
    ASSUME PInv, Evolves, NEW a \in attempts,
           NEW step \in {"extract", "claim", "lookup", "failing"},
           Advance(a, step),
           step = "lookup" /\ Exists(a.row)' => rows'[a.row].keyed
    PROVE  TasksOK'
<1>1. PICK b \in Attempt : b = [a EXCEPT !.step = step]
  BY AttemptType
<1>2. b.row = a.row /\ b.row <= created /\ b.step = step
  BY <1>1, AttemptType
<1>3. attempts' = (attempts \ {a}) \cup {b} /\ queue' = queue
  BY <1>1 DEF Advance
<1>4. \A c \in attempts : Exists(c.row)' /\ c.step = "lookup" => rows'[c.row].keyed
  BY DEF PInv, TasksOK, Evolves, Exists
<1> QED
  BY <1>1, <1>2, <1>3, <1>4 DEF PInv, TasksOK, Evolves, Exists

LEMMA QuietAdvance ==
    ASSUME PInv, NEW a \in attempts, ExtractKey(a) \/ PipelineFails(a)
    PROVE  PInv'
<1>1. PICK step \in {"claim", "failing"} : Advance(a, step) /\ rows' = rows
  BY DEF ExtractKey, PipelineFails
<1>2. UNCHANGED <<created, stored, receipts, hashes, queue, requests, cleanup>>
  BY <1>1 DEF Advance
<1>3. Evolves /\ ReceiptsKept
  BY <1>1, <1>2, NothingEvolves DEF ReceiptsKept
<1>4. TasksOK'
  BY <1>1, <1>3, AdvanceTasks
<1> QED
  BY <1>2, <1>3, <1>4, WorkerKeeps

LEMMA ClaimStep ==
    ASSUME PInv, NEW a \in attempts, ClaimFiscalKey(a) PROVE PInv'
<1>1. CASE OnRecord(a) /\ ~KeyClash(a.row)
  <2>1. PICK r \in DOMAIN rows : r = a.row
    BY <1>1 DEF OnRecord, Exists
  <2>2. rows[r] \in Row
    BY DEF PInv, RowsOK
  <2>3. PICK row \in Row : row = [rows[r] EXCEPT !.keyed = TRUE]
    BY <2>2 DEF Row
  <2>4. rows' = [rows EXCEPT ![r] = row] /\ Advance(a, "lookup")
    BY <1>1, <2>1, <2>3 DEF ClaimFiscalKey
  <2>5. UNCHANGED <<created, stored, receipts, hashes, queue, requests, cleanup>>
    BY <2>4 DEF Advance
  <2>6. row.source = rows[r].source /\ row.keyed /\ row.receipt = rows[r].receipt
    BY <2>2, <2>3 DEF Row
  <2>7. Evolves
    BY <2>4, <2>5, <2>6, ChangeEvolves
  <2>8. ReceiptsKept
    BY <2>4, <2>5, <2>6 DEF ReceiptsKept
  <2>9. rows'[r].keyed
    BY <2>4, <2>6
  <2>10. TasksOK'
    BY <2>1, <2>4, <2>7, <2>9, AdvanceTasks
  <2> QED
    BY <2>5, <2>7, <2>8, <2>10, WorkerKeeps
<1>2. CASE ~(OnRecord(a) /\ ~KeyClash(a.row))
  <2>1. Advance(a, "failing") /\ rows' = rows
    BY <1>2 DEF ClaimFiscalKey
  <2>2. UNCHANGED <<created, stored, receipts, hashes, queue, requests, cleanup>>
    BY <2>1 DEF Advance
  <2>3. Evolves /\ ReceiptsKept
    BY <2>1, <2>2, NothingEvolves DEF ReceiptsKept
  <2>4. TasksOK'
    BY <2>1, <2>3, AdvanceTasks
  <2> QED
    BY <2>2, <2>3, <2>4, WorkerKeeps
<1> QED
  BY <1>1, <1>2

(* An attempt ends, and lands its row or not.                                *)
LEMMA LandStep ==
    ASSUME PInv, NEW a \in attempts, NEW status \in {"ready", "failed"},
           Land(a, status), Finish(a), queue' \subseteq queue,
           status = "ready" => a.step = "lookup"
    PROVE  PInv'
<1>1. UNCHANGED <<created, stored, receipts, hashes, requests, cleanup>>
  BY DEF Finish
<1>2. Evolves /\ ReceiptsKept
  <2>1. CASE OnRecord(a)
    <3>1. PICK r \in DOMAIN rows : r = a.row
      BY <2>1 DEF OnRecord, Exists
    <3>2. rows[r] \in Row
      BY DEF PInv, RowsOK
    <3>3. PICK row \in Row : row = [rows[r] EXCEPT !.status = status, !.late = FALSE]
      BY <3>2 DEF Row
    <3>4. rows' = [rows EXCEPT ![r] = row]
      BY <2>1, <3>1, <3>3 DEF Land
    <3>5. /\ row.source = rows[r].source /\ row.keyed = rows[r].keyed
          /\ row.receipt = rows[r].receipt /\ row.status = status
      BY <3>2, <3>3 DEF Row
    <3>6. row.status \in {"ready", "converted"} => row.keyed
      BY <3>1, <3>5, AttemptType DEF Exists
    <3>7. Evolves
      BY <1>1, <3>4, <3>5, <3>6, ChangeEvolves
    <3> QED
      BY <1>1, <3>4, <3>5, <3>7 DEF ReceiptsKept
  <2>2. CASE ~OnRecord(a)
    BY <1>1, <2>2, NothingEvolves DEF Land, ReceiptsKept
  <2> QED
    BY <2>1, <2>2
<1>3. TasksOK'
  <2>1. attempts' \subseteq attempts
    BY DEF Finish
  <2> QED
    BY <1>2, <2>1 DEF PInv, TasksOK, Evolves, Exists
<1> QED
  BY <1>1, <1>2, <1>3, WorkerKeeps

LEMMA WorkerLostStep ==
    ASSUME PInv, NEW a \in attempts, WorkerLost(a) PROVE PInv'
<1>1. /\ UNCHANGED <<rows, created, stored, receipts, hashes, requests, cleanup>>
      /\ attempts' \subseteq attempts /\ queue' \subseteq queue
  BY DEF WorkerLost, Finish, Acknowledge
<1>2. Evolves /\ ReceiptsKept
  BY <1>1, NothingEvolves DEF ReceiptsKept
<1>3. TasksOK'
  BY <1>1, <1>2 DEF PInv, TasksOK, Evolves, Exists
<1> QED
  BY <1>1, <1>2, <1>3, WorkerKeeps

LEMMA WorkersStep == ASSUME PInv, WorkerStep PROVE PInv'
<1>1. ASSUME NEW a \in attempts, MarkReady(a) \/ MarkFailed(a) PROVE PInv'
  <2>1. CASE MarkReady(a)
    <3>1. a.step = "lookup" /\ Land(a, "ready") /\ Finish(a) /\ queue' \subseteq queue
      BY <2>1 DEF MarkReady, Acknowledge
    <3> QED
      BY <3>1, LandStep
  <2>2. CASE MarkFailed(a)
    <3>1. Land(a, "failed") /\ Finish(a) /\ queue' \subseteq queue
      BY <2>2 DEF MarkFailed, Acknowledge
    <3> QED
      BY <3>1, LandStep
  <2> QED
    BY <1>1, <2>1, <2>2
<1> QED
  BY <1>1, DeliverStep, QuietAdvance, ClaimStep, WorkerLostStep DEF WorkerStep

-----------------------------------------------------------------------------
(* Time and the cleanup.                                                     *)
LEMMA MarkStep ==
    ASSUME PInv, NEW r \in DOMAIN rows, NEW row \in Row,
           rows' = [rows EXCEPT ![r] = row],
           row.source = rows[r].source, row.keyed = rows[r].keyed,
           row.receipt = rows[r].receipt,
           row.status = rows[r].status \/ row.status = "failed",
           UNCHANGED <<created, stored, receipts, hashes, queue, attempts, requests>>,
           CleanupOK'
    PROVE  PInv'
<1>1. row.status \in {"ready", "converted"} => row.keyed
  BY DEF PInv, RowsOK
<1>2. Evolves
  BY <1>1, ChangeEvolves
<1>3. ReceiptsKept
  BY DEF ReceiptsKept
<1> QED
  BY <1>2, <1>3, SweepKeeps

LEMMA TickStep == ASSUME PInv, Tick PROVE PInv'
<1>1. PICK r \in DOMAIN rows : ProcessingLate(r) \/ Expire(r)
  BY DEF Tick
<1>2. rows[r] \in Row /\ CleanupOK
  BY DEF PInv, RowsOK
<1>3. PICK row \in Row :
        /\ rows' = [rows EXCEPT ![r] = row]
        /\ row.source = rows[r].source /\ row.keyed = rows[r].keyed
        /\ row.receipt = rows[r].receipt /\ row.status = rows[r].status
  <2>1. CASE ProcessingLate(r)
    <3>1. PICK row \in Row : row = [rows[r] EXCEPT !.late = TRUE]
      BY <1>2 DEF Row
    <3> QED
      BY <1>2, <2>1, <3>1 DEF ProcessingLate, Row
  <2>2. CASE Expire(r)
    <3>1. PICK row \in Row : row = [rows[r] EXCEPT !.expired = TRUE]
      BY <1>2 DEF Row
    <3> QED
      BY <1>2, <2>2, <3>1 DEF Expire, Row
  <2> QED
    BY <1>1, <2>1, <2>2
<1>4. UNCHANGED <<created, stored, receipts, hashes, queue, attempts, requests, cleanup>>
  BY <1>1 DEF ProcessingLate, Expire
<1>5. CleanupOK'
  BY <1>2, <1>4 DEF CleanupOK
<1> QED
  BY <1>3, <1>4, <1>5, MarkStep

LEMMA SweepType ==
    ASSUME NEW phase \in {"idle", "recover", "purge"}, NEW left \in SUBSET RowIds,
           Sweep(phase, left)
    PROVE  /\ CleanupOK'
           /\ UNCHANGED <<created, receipts, hashes, queue, attempts, requests>>
BY DEF Sweep, CleanupOK

LEMMA QuietSweep ==
    ASSUME PInv, CleanupOK', stored' \subseteq stored, UNCHANGED rows,
           UNCHANGED <<created, receipts, hashes, queue, attempts, requests>>
    PROVE  PInv'
<1>1. Evolves /\ ReceiptsKept
  BY NothingEvolves DEF ReceiptsKept
<1> QED
  BY <1>1, SweepKeeps

LEMMA CleanupSteps == ASSUME PInv, CleanupStep \/ CleanupDies PROVE PInv'
<1>0. DOMAIN rows \subseteq RowIds /\ cleanup.left \subseteq RowIds
  BY RowAge DEF PInv, CleanupOK
<1>1. CASE FetchStuck \/ FetchExpired \/ FinishCleanup \/ CleanupDies
  <2>1. PICK phase \in {"idle", "recover", "purge"}, left \in SUBSET RowIds :
            Sweep(phase, left) /\ UNCHANGED <<rows, stored>>
    BY <1>0, <1>1 DEF FetchStuck, FetchExpired, FinishCleanup, CleanupDies
  <2> QED
    BY <2>1, SweepType, QuietSweep
<1>2. ASSUME NEW r \in cleanup.left, Recover(r) PROVE PInv'
  <2>1. CleanupOK' /\ UNCHANGED <<created, receipts, hashes, queue, attempts, requests>>
    BY <1>0, <1>2, SweepType DEF Recover
  <2>2. CASE Exists(r) /\ rows[r].status = "processing"
    <3>1. r \in DOMAIN rows /\ rows[r] \in Row
      BY <2>2 DEF PInv, RowsOK, Exists
    <3>2. PICK row \in Row : row = [rows[r] EXCEPT !.status = "failed", !.late = FALSE]
      BY <3>1 DEF Row
    <3>3. rows' = [rows EXCEPT ![r] = row] /\ stored' = stored
      BY <1>2, <2>2, <3>2 DEF Recover
    <3>4. /\ row.source = rows[r].source /\ row.keyed = rows[r].keyed
          /\ row.receipt = rows[r].receipt /\ row.status = "failed"
      BY <3>1, <3>2 DEF Row
    <3> QED
      BY <2>1, <3>1, <3>3, <3>4, MarkStep
  <2>3. CASE ~(Exists(r) /\ rows[r].status = "processing")
    <3>1. UNCHANGED <<rows, stored>>
      BY <1>2, <2>3 DEF Recover
    <3> QED
      BY <2>1, <3>1, QuietSweep
  <2> QED
    BY <2>2, <2>3
<1>3. ASSUME NEW r \in cleanup.left, PurgeFile(r) PROVE PInv'
  <2>1. CleanupOK' /\ UNCHANGED <<created, receipts, hashes, queue, attempts, requests>>
    BY <1>0, <1>3, SweepType DEF PurgeFile
  <2> QED
    BY <1>3, <2>1, QuietSweep DEF PurgeFile
<1>4. ASSUME NEW r \in cleanup.left, PurgeRow(r) PROVE PInv'
  <2>1. CleanupOK' /\ UNCHANGED <<created, receipts, hashes, queue, attempts, requests>>
    BY <1>0, <1>4, SweepType DEF PurgeRow
  <2>2. rows' = Restrict(rows, DOMAIN rows \ {r}) /\ stored' = stored
    BY <1>4 DEF PurgeRow
  <2>3. Evolves /\ ReceiptsKept
    BY <2>1, <2>2, DeleteEvolves DEF ReceiptsKept
  <2> QED
    BY <2>1, <2>3, SweepKeeps
<1> QED
  BY <1>1, <1>2, <1>3, <1>4 DEF CleanupStep

-----------------------------------------------------------------------------
(* The inductive invariant, and what it is for.                              *)
LEMMA PendingStart == Init => PInv
<1> SUFFICES ASSUME Init PROVE PInv
  OBVIOUS
<1>0. DOMAIN rows = {} /\ DOMAIN receipts = {} /\ Len(receipts) = 0
      /\ receipts \in Seq(Receipt)
  BY DEF Init
<1>1. RowsOK /\ ReceiptsOK
  BY <1>0 DEF Init, RowsOK, ReceiptsOK, OneKept, SavedPictureKnown, ReceiptRef
<1>2. TasksOK /\ CleanupOK
  BY DEF Init, TasksOK, CleanupOK
<1>3. RequestsOK
  BY DEF Init, RequestsOK, Sound, Request, Idle
<1> QED
  BY <1>1, <1>2, <1>3 DEF PInv

LEMMA PendingStep == PInv /\ [Next]_vars => PInv'
<1> SUFFICES ASSUME PInv, [Next]_vars PROVE PInv'
  OBVIOUS
<1>1. CASE UserStep
  BY <1>1, BeginSteps, CreateStep, AttachStep, EnqueueStep, ResetStep,
     SaveReviewStep, ConvertStep, EndSteps, DeleteFileStep, DeleteRowStep,
     ReviewExpiredStep, DeleteReceiptStep DEF UserStep
<1>2. CASE UNCHANGED vars
  <2>1. CleanupOK' /\ UNCHANGED <<rows, created, stored, receipts, hashes, queue, attempts, requests>>
    BY <1>2 DEF vars, PInv, CleanupOK
  <2> QED
    BY <2>1, QuietSweep
<1> QED
  BY <1>1, <1>2, WorkersStep, TickStep, CleanupSteps DEF Next

(* However requests, tasks and cleanups cross, are repeated or die: a row    *)
(* that is ready holds its fiscal key, and at most one receipt is kept.      *)
THEOREM PendingInvariant == Spec => []PInv
BY PendingStart, PendingStep, PTL DEF Spec

(* What every request, task and cleanup may count on: the tables are well    *)
(* formed, and a picture whose receipt is kept is known by its hash.         *)
THEOREM PicturesKnown == Spec => []PendingInv
<1>1. PInv => PendingInv
  <2> SUFFICES ASSUME PInv PROVE PendingInv
    OBVIOUS
  <2>1. /\ created \in 0 .. MaxRows /\ DOMAIN rows \subseteq 1 .. created
        /\ stored \subseteq RowIds /\ \A r \in DOMAIN rows : rows[r] \in Row
    BY DEF PInv, RowsOK, RowIds
  <2>2. requests \in [Requests -> Request]
    BY DEF PInv, RequestsOK, Sound
  <2>3. PendingTypeOK
    BY <2>1, <2>2 DEF PInv, ReceiptsOK, TasksOK, CleanupOK, PendingTypeOK, Receipt
  <2> QED
    BY <2>3 DEF PendingInv, PInv, ReceiptsOK
<1> QED
  BY <1>1, PendingInvariant, PTL

(* However pictures are uploaded, scanned, retried, delivered twice and      *)
(* reviewed in two windows, a sale has at most one receipt at a time.        *)
THEOREM SaleChargedOnce == Spec => []OneReceiptPerSale
<1>1. PInv => OneReceiptPerSale
  <2> SUFFICES ASSUME PInv PROVE OneReceiptPerSale
    OBVIOUS
  <2> DEFINE K == {i \in DOMAIN receipts : receipts[i].kept}
  <2>1. \A i, j \in K : i = j
    BY DEF PInv, ReceiptsOK, OneKept
  <2>2. CASE K = {}
    BY <2>2, FS_EmptySet DEF OneReceiptPerSale
  <2>3. CASE K # {}
    <3>1. PICK i \in K : K = {i}
      BY <2>1, <2>3
    <3>2. Cardinality({i}) = 1
      BY FS_Singleton
    <3> QED
      BY <3>1, <3>2 DEF OneReceiptPerSale
  <2> QED
    BY <2>2, <2>3
<1> QED
  BY <1>1, PendingInvariant, PTL

(* A task that is late, repeated or outlived by a retry changes a row only   *)
(* while the row is processing its own attempt.                              *)
THEOREM LateTasksChangeNothing == Spec => LateTasksHarmless
<1>1. ASSUME PInv, [Next]_vars
      PROVE  [\A r \in DOMAIN rows :
                Exists(r)' /\ rows[r]' # rows[r]
                    /\ (attempts' # attempts \/ queue' # queue)
                => /\ rows[r].status = "processing"
                   /\ \E a \in attempts : a.row = r /\ a.task = rows[r].task]_vars
  <2>1. SUFFICES ASSUME NEW r \in DOMAIN rows, Exists(r)', rows[r]' # rows[r],
                        attempts' # attempts \/ queue' # queue
                 PROVE  /\ rows[r].status = "processing"
                        /\ \E a \in attempts : a.row = r /\ a.task = rows[r].task
    OBVIOUS
  <2>2. ~UserStep
    BY <2>1 DEF UserStep, BeginUpload, BeginRetry, BeginReview, Begin, CreateRow,
       AttachTask, Enqueue, ResetForRetry, SaveReview, ConvertToReceipt,
       ConvertFailsLate, DeleteFile, DeleteRow, Abandon, ReviewExpired, DeleteReceipt
  <2>3. ~Tick /\ ~CleanupStep /\ ~CleanupDies /\ ~UNCHANGED vars
    BY <2>1 DEF Tick, ProcessingLate, Expire, CleanupStep, CleanupDies, FetchStuck,
       FetchExpired, FinishCleanup, Recover, PurgeFile, PurgeRow, Sweep, vars
  <2>4. WorkerStep
    BY <1>1, <2>2, <2>3 DEF Next
  <2>5. PICK a \in attempts :
            ClaimFiscalKey(a) \/ MarkReady(a) \/ MarkFailed(a)
    BY <2>1, <2>4 DEF WorkerStep, Deliver, ExtractKey, PipelineFails, WorkerLost
  <2>6. OnRecord(a) /\ \E row : rows' = [rows EXCEPT ![a.row] = row]
    BY <2>1, <2>5 DEF ClaimFiscalKey, MarkReady, MarkFailed, Land
  <2>7. a.row = r
    BY <2>1, <2>6
  <2> QED
    BY <2>6, <2>7 DEF OnRecord
<1> QED
  BY <1>1, PendingInvariant, PTL DEF Spec, LateTasksHarmless

(* An image without a row, which nothing would ever delete, is only left by  *)
(* a row that was past its expiry.                                           *)
THEOREM OrphansAreExpired == Spec => OrphansWereExpired
<1>1. ASSUME PInv, [Next]_vars
      PROVE  [\A r \in DOMAIN rows :
                ~Exists(r)' /\ r \in stored' => rows[r].expired]_vars
  <2>1. SUFFICES ASSUME NEW r \in DOMAIN rows, r \notin DOMAIN rows', r \in stored'
                 PROVE  rows[r].expired
    BY DEF Exists
  <2>2. \A o : DOMAIN Restrict(rows, DOMAIN rows \ {o}) = DOMAIN rows \ {o}
    BY DEF Restrict
  <2>3. CASE UserStep
    <3>1. ASSUME NEW q \in Requests, DeleteRow(q) PROVE rows[r].expired
      <4>1. requests[q].row \notin stored /\ requests[q].row = r
        BY <1>1, <2>1, <2>2, <3>1 DEF DeleteRow, Holds, PInv, RequestsOK, Sound
      <4> QED
        BY <2>1, <3>1, <4>1 DEF DeleteRow
    <3>2. ASSUME NEW o \in DOMAIN rows, ReviewExpired(o) PROVE rows[r].expired
      BY <2>1, <2>2, <3>2 DEF ReviewExpired
    <3>3. ASSUME NEW q \in Requests, CreateRow(q) PROVE rows[r].expired
      BY <2>1, <3>3 DEF CreateRow
    <3> QED
      BY <2>1, <2>3, <3>1, <3>2, <3>3 DEF UserStep, BeginUpload, BeginRetry,
         BeginReview, Begin, AttachTask, Enqueue, ResetForRetry, SaveReview,
         ConvertToReceipt, ConvertFailsLate, DeleteFile, Abandon, DeleteReceipt
  <2>4. CASE WorkerStep
    BY <2>1, <2>4 DEF WorkerStep, Deliver, ExtractKey, PipelineFails, WorkerLost,
       ClaimFiscalKey, MarkReady, MarkFailed, Land
  <2>5. CASE Tick \/ CleanupDies \/ UNCHANGED vars
    BY <2>1, <2>5 DEF Tick, ProcessingLate, Expire, CleanupDies, vars
  <2>6. CASE CleanupStep
    <3>1. ASSUME NEW o \in cleanup.left, PurgeRow(o) PROVE rows[r].expired
      BY <2>1, <2>2, <3>1 DEF PurgeRow
    <3> QED
      BY <2>1, <2>6, <3>1 DEF CleanupStep, FetchStuck, FetchExpired, FinishCleanup,
         Recover, PurgeFile
  <2> QED
    BY <1>1, <2>3, <2>4, <2>5, <2>6 DEF Next
<1> QED
  BY <1>1, PendingInvariant, PTL DEF Spec, OrphansWereExpired
=============================================================================
