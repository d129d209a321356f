-------------------------- MODULE StatementsProofs --------------------------
(* Proofs about the bank statements, for any files, rows and bounds.          *)
EXTENDS Statements, SequenceTheorems, FiniteSetTheorems, WellFoundedInduction,
        TLAPS

USE StatementsAssumption

-----------------------------------------------------------------------------
(* The inductive invariant, part by part.  An import has got through the rows *)
(* before `next`, and each of them has its transaction or its statement row.  *)
(* No upload counts more operations than have transactions made for them: the *)
(* counters of the import and of the upload each stay below that number, with *)
(* the rows decided as new.                                                   *)
UploadRow == [status : {"absent", "pending", "processing", "awaiting", "completed",
                        "unresolved", "failed"},
              posted : 0 .. RowCount, imported : Nat,
              stored : BOOLEAN, expired : BOOLEAN, cleaned : BOOLEAN]

UploadsOK ==
    /\ uploads \in [Files -> UploadRow]
    /\ \A f \in Files : uploads[f].status = "absent" => imports[f] = Fresh

TxsOK == txs \in Seq(Tx) /\ Len(txs) <= MaxTxs

RowsOK ==
    /\ rows \in Seq(StatementRow) /\ Len(rows) <= MaxRows
    /\ \A r \in DOMAIN rows :
        /\ rows[r].tx # 0 => rows[r].tx \in DOMAIN txs /\ Live(rows[r].tx)
        /\ \A t \in rows[r].candidates :
              t \in DOMAIN txs /\ Live(t) /\ txs[t].file # rows[r].file

Sound(import) ==
    /\ import \in Import
    /\ import.posted < import.next
    /\ import.step \in {"none", "queued"} => import.next = 1
    /\ import.step \in {"check", "post"} => import.next <= RowCount
    /\ import.step \in {"finish", "awaiting", "completed", "refresh"} =>
          import.next > RowCount

ImportsOK ==
    /\ imports \in [Files -> Import]
    /\ \A f \in Files : Sound(imports[f])

Covered(f, p) ==
    \/ \E t \in DOMAIN txs : txs[t].ref = p \/ (txs[t].file = f /\ txs[t].pos = p)
    \/ \E r \in RowsOf(f) : rows[r].pos = p

RowsCovered ==
    \A f \in Files : \A p \in 1 .. imports[f].next - 1 : Covered(f, p)

(* The transactions that count for a file, and the rows decided as new.       *)
Countable(f) == {t \in DOMAIN txs : txs[t].file = f \/ txs[t].ref # 0}
Count(f) == Cardinality(Countable(f))
New(f) == Decided(rows, f, "new")

Counted(f) ==
    /\ uploads[f].posted + New(f) <= Count(f)
    /\ imports[f].posted + New(f) <= Count(f)
    /\ uploads[f].imported <= Count(f)

CountsOK == \A f \in Files : Counted(f)

SInv == /\ UploadsOK /\ TxsOK /\ RowsOK /\ ImportsOK
        /\ PostedOnce /\ RowsCovered /\ CountsOK

-----------------------------------------------------------------------------
(* Facts about the operators.                                                 *)

LEMMA DecidedIsNat ==
    ASSUME NEW rs \in Seq(StatementRow), NEW f, NEW d
    PROVE  /\ IsFiniteSet({r \in DOMAIN rs : rs[r].file = f /\ rs[r].decision = d})
           /\ Decided(rs, f, d) \in Nat
<1>1. DOMAIN rs = 1 .. Len(rs) /\ Len(rs) \in Nat
  OBVIOUS
<1>2. IsFiniteSet(1 .. Len(rs))
  BY <1>1, FS_Interval
<1> DEFINE S == {r \in DOMAIN rs : rs[r].file = f /\ rs[r].decision = d}
<1>3. S \in SUBSET (1 .. Len(rs))
  BY <1>1
<1>4. IsFiniteSet(S)
  BY <1>2, <1>3, FS_Subset
<1> QED
  BY <1>4, FS_CardinalityType DEF Decided

(* The number of decided rows depends on which rows are decided alone.        *)
LEMMA DecidedSame ==
    ASSUME NEW rs \in Seq(StatementRow), NEW ss \in Seq(StatementRow), NEW f, NEW d,
           Len(rs) <= Len(ss),
           \A r \in DOMAIN ss :
              ss[r].file = f /\ ss[r].decision = d <=>
                 r \in DOMAIN rs /\ rs[r].file = f /\ rs[r].decision = d
    PROVE  Decided(ss, f, d) = Decided(rs, f, d)
<1>1. /\ DOMAIN rs = 1 .. Len(rs) /\ Len(rs) \in Nat
      /\ DOMAIN ss = 1 .. Len(ss) /\ Len(ss) \in Nat
  OBVIOUS
<1>2. {r \in DOMAIN ss : ss[r].file = f /\ ss[r].decision = d}
        = {r \in DOMAIN rs : rs[r].file = f /\ rs[r].decision = d}
  BY <1>1
<1> QED
  BY <1>2 DEF Decided

LEMMA DecidedOneMore ==
    ASSUME NEW rs \in Seq(StatementRow), NEW r \in DOMAIN rs, NEW ss,
           DOMAIN ss = DOMAIN rs, \A o \in DOMAIN rs : o # r => ss[o] = rs[o],
           NEW f, ss[r].file = f, rs[r].file = f,
           NEW d, ss[r].decision = d, rs[r].decision # d
    PROVE  /\ Decided(ss, f, d) = Decided(rs, f, d) + 1
           /\ \A g : g # f => Decided(ss, g, d) = Decided(rs, g, d)
<1> DEFINE S(g) == {o \in DOMAIN rs : rs[o].file = g /\ rs[o].decision = d}
           T(g) == {o \in DOMAIN ss : ss[o].file = g /\ ss[o].decision = d}
<1>1. T(f) = S(f) \cup {r} /\ r \notin S(f)
  OBVIOUS
<1>2. \A g : g # f => T(g) = S(g)
  OBVIOUS
<1>3. IsFiniteSet(S(f))
  <2>1. Len(rs) \in Nat /\ S(f) \in SUBSET (1 .. Len(rs))
    OBVIOUS
  <2>2. IsFiniteSet(1 .. Len(rs))
    BY <2>1, FS_Interval
  <2> HIDE DEF S
  <2> QED
    BY <2>1, <2>2, FS_Subset
<1>4. Cardinality(T(f)) = Cardinality(S(f)) + 1
  BY <1>1, <1>3, FS_AddElement
<1> QED
  BY <1>2, <1>4 DEF Decided

LEMMA CountIsNat ==
    ASSUME TxsOK, NEW f
    PROVE  /\ IsFiniteSet(Countable(f)) /\ Count(f) \in Nat
           /\ Count(f) <= Len(txs)
<1>1. DOMAIN txs = 1 .. Len(txs) /\ Len(txs) \in Nat
  BY DEF TxsOK
<1>2. IsFiniteSet(1 .. Len(txs)) /\ Cardinality(1 .. Len(txs)) = Len(txs)
  <2>1. \A n \in Nat : IsFiniteSet(1 .. n) /\ Cardinality(1 .. n) = n
    BY FS_Interval
  <2> QED
    BY <1>1, <2>1
<1>3. Countable(f) \in SUBSET (1 .. Len(txs))
  BY <1>1 DEF Countable
<1>4. /\ IsFiniteSet(Countable(f))
      /\ Cardinality(Countable(f)) <= Cardinality(1 .. Len(txs))
  BY <1>2, <1>3, FS_Subset
<1>5. Cardinality(Countable(f)) \in Nat
  BY <1>4, FS_CardinalityType
<1> QED
  BY <1>2, <1>4, <1>5 DEF Count

(* The first of the records that have no reference.                           *)
LEMMA FirstExists ==
    ASSUME NEW S \in SUBSET Nat, S # {}
    PROVE  \E t \in S : \A o \in S : t <= o
<1>1. PICK t \in S : \A o \in S : <<o, t>> \notin OpToRel(<, Nat)
  BY NatLessThanWellFounded, WFMin
<1>2. \A o \in S : ~(o < t)
  BY <1>1 DEF OpToRel
<1> QED
  BY <1>2

-----------------------------------------------------------------------------
(* How transactions and rows change once they are there.                      *)
TxsEvolve ==
    /\ TxsOK' /\ PostedOnce' /\ Len(txs) <= Len(txs')
    /\ \A t \in DOMAIN txs :
        /\ txs'[t].file = txs[t].file /\ txs'[t].pos = txs[t].pos
        /\ txs[t].ref # 0 => txs'[t].ref = txs[t].ref

RowsEvolve ==
    /\ RowsOK' /\ Len(rows) <= Len(rows')
    /\ \A r \in DOMAIN rows :
          rows'[r].file = rows[r].file /\ rows'[r].pos = rows[r].pos

SameNew(f) == Decided(rows', f, "new") = Decided(rows, f, "new")

LEMMA Domains ==
    ASSUME TxsOK, RowsOK
    PROVE  /\ DOMAIN txs = 1 .. Len(txs) /\ Len(txs) \in Nat
           /\ DOMAIN rows = 1 .. Len(rows) /\ Len(rows) \in Nat
           /\ \A t \in DOMAIN txs : txs[t] \in Tx
           /\ \A r \in DOMAIN rows : rows[r] \in StatementRow
BY DEF TxsOK, RowsOK

LEMMA DomainsNext ==
    ASSUME TxsOK', RowsOK'
    PROVE  /\ DOMAIN txs' = 1 .. Len(txs') /\ Len(txs') \in Nat
           /\ DOMAIN rows' = 1 .. Len(rows') /\ Len(rows') \in Nat
           /\ \A t \in DOMAIN txs' : txs'[t] \in Tx
           /\ \A r \in DOMAIN rows' : rows'[r] \in StatementRow
BY DEF TxsOK, RowsOK

LEMMA CoveredStays ==
    ASSUME SInv, TxsEvolve, RowsEvolve, NEW f, NEW p \in Nat \ {0}, Covered(f, p)
    PROVE  Covered(f, p)'
<1>1. DOMAIN txs \subseteq DOMAIN txs' /\ DOMAIN rows \subseteq DOMAIN rows'
  BY Domains, DomainsNext DEF SInv, TxsEvolve, RowsEvolve
<1> QED
  BY <1>1 DEF Covered, TxsEvolve, RowsEvolve, RowsOf

LEMMA CountGrows ==
    ASSUME SInv, TxsEvolve, NEW f
    PROVE  Count(f) \in Nat /\ Count(f)' \in Nat /\ Count(f) <= Count(f)'
<1>1. Countable(f) \subseteq Countable(f)'
  BY DEF SInv, TxsOK, TxsEvolve, Countable
<1>2. TxsOK /\ TxsOK'
  BY DEF SInv, TxsEvolve
<1>3. /\ IsFiniteSet(Countable(f)) /\ Count(f) \in Nat
      /\ IsFiniteSet(Countable(f)') /\ Count(f)' \in Nat
  <2>1. IsFiniteSet(Countable(f)) /\ Count(f) \in Nat
    BY <1>2, CountIsNat
  <2>2. DOMAIN txs' = 1 .. Len(txs') /\ Len(txs') \in Nat
    BY <1>2 DEF TxsOK
  <2>3. Countable(f)' \in SUBSET (1 .. Len(txs'))
    BY <2>2 DEF Countable
  <2>4. IsFiniteSet(1 .. Len(txs'))
    BY <2>2, FS_Interval
  <2>5. IsFiniteSet(Countable(f)')
    BY <2>3, <2>4, FS_Subset
  <2> QED
    BY <2>1, <2>5, FS_CardinalityType DEF Count
<1>4. Cardinality(Countable(f)) <= Cardinality(Countable(f)')
  BY <1>1, <1>3, FS_Subset
<1> QED
  BY <1>3, <1>4 DEF Count

LEMMA NewIsNat ==
    ASSUME RowsOK, NEW f PROVE New(f) \in Nat
BY DecidedIsNat DEF New, RowsOK

(* A step that touches one import, one upload, and what rows and transactions *)
(* it may.                                                                    *)
LEMMA StepKeeps ==
    ASSUME SInv, TxsEvolve, RowsEvolve,
           NEW f \in Files, NEW i \in Import, NEW u \in UploadRow,
           imports' = [imports EXCEPT ![f] = i],
           uploads' = [uploads EXCEPT ![f] = u],
           u.status = "absent" => i = Fresh, Sound(i),
           \A p \in 1 .. i.next - 1 : Covered(f, p)',
           \A g \in Files : g # f => SameNew(g),
           Counted(f)'
    PROVE  SInv'
<1>1. /\ imports'[f] = i /\ uploads'[f] = u
      /\ \A g \in Files : g # f =>
            imports'[g] = imports[g] /\ uploads'[g] = uploads[g]
      /\ imports' \in [Files -> Import] /\ uploads' \in [Files -> UploadRow]
  BY DEF SInv, ImportsOK, UploadsOK
<1>2. UploadsOK'
  BY <1>1 DEF SInv, UploadsOK, Fresh
<1>3. ImportsOK'
  BY <1>1 DEF SInv, ImportsOK, Sound
<1>4. RowsCovered'
  <2> SUFFICES ASSUME NEW g \in Files, NEW p \in 1 .. imports'[g].next - 1
               PROVE  Covered(g, p)'
    BY DEF RowsCovered
  <2>1. CASE g = f
    BY <1>1, <2>1
  <2>2. CASE g # f
    <3>1. imports[g].next \in Nat
      BY DEF SInv, ImportsOK, Import
    <3>2. Covered(g, p) /\ p \in Nat \ {0}
      BY <1>1, <2>2, <3>1 DEF SInv, RowsCovered
    <3> QED
      BY <3>2, CoveredStays
  <2> QED
    BY <2>1, <2>2
<1>5. CountsOK'
  <2> SUFFICES ASSUME NEW g \in Files, g # f PROVE Counted(g)'
    BY DEF CountsOK
  <2>1. Counted(g) /\ Count(g) \in Nat /\ Count(g)' \in Nat /\ Count(g) <= Count(g)'
    BY CountGrows DEF SInv, CountsOK
  <2>2. New(g)' = New(g) /\ New(g) \in Nat
    BY NewIsNat DEF SInv, SameNew, New
  <2>3. /\ uploads[g].posted \in Nat /\ imports[g].posted \in Nat
        /\ uploads[g].imported \in Nat
    BY DEF SInv, UploadsOK, UploadRow, ImportsOK, Import
  <2> QED
    BY <1>1, <2>1, <2>2, <2>3 DEF Counted
<1> QED
  BY <1>2, <1>3, <1>4, <1>5 DEF SInv, TxsEvolve, RowsEvolve

(* A step of the owner on the transactions alone.                             *)
LEMMA OwnerKeeps ==
    ASSUME SInv, TxsEvolve, RowsEvolve, UNCHANGED <<uploads, imports>>,
           \A g \in Files : SameNew(g)
    PROVE  SInv'
<1>1. UploadsOK' /\ ImportsOK'
  BY DEF SInv, UploadsOK, ImportsOK, Sound, Fresh
<1>2. RowsCovered'
  <2> SUFFICES ASSUME NEW g \in Files, NEW p \in 1 .. imports[g].next - 1
               PROVE  Covered(g, p)'
    BY DEF RowsCovered
  <2>1. imports[g].next \in Nat
    BY DEF SInv, ImportsOK, Import
  <2>2. Covered(g, p) /\ p \in Nat \ {0}
    BY <2>1 DEF SInv, RowsCovered
  <2> QED
    BY <2>2, CoveredStays
<1>3. CountsOK'
  <2> SUFFICES ASSUME NEW g \in Files PROVE Counted(g)'
    BY DEF CountsOK
  <2>1. Counted(g) /\ Count(g) \in Nat /\ Count(g)' \in Nat /\ Count(g) <= Count(g)'
    BY CountGrows DEF SInv, CountsOK
  <2>2. New(g)' = New(g) /\ New(g) \in Nat
    BY NewIsNat DEF SInv, SameNew, New
  <2>3. /\ uploads[g].posted \in Nat /\ imports[g].posted \in Nat
        /\ uploads[g].imported \in Nat
    BY DEF SInv, UploadsOK, UploadRow, ImportsOK, Import
  <2> QED
    BY <2>1, <2>2, <2>3 DEF Counted
<1> QED
  BY <1>1, <1>2, <1>3 DEF SInv, TxsEvolve, RowsEvolve

(* Rows and transactions that stay, evolve.                                   *)
LEMMA Still ==
    ASSUME SInv, UNCHANGED <<rows, txs>>
    PROVE  /\ TxsEvolve /\ RowsEvolve
           /\ \A g : SameNew(g) /\ New(g)' = New(g) /\ Count(g)' = Count(g)
<1>1. TxsEvolve
  BY DEF SInv, TxsEvolve, TxsOK, PostedOnce, Live
<1>2. RowsEvolve
  BY DEF SInv, RowsEvolve, RowsOK, Live, TxsOK
<1>3. \A g : SameNew(g) /\ New(g)' = New(g) /\ Count(g)' = Count(g)
  BY DEF SameNew, New, Count, Countable
<1> QED
  BY <1>1, <1>2, <1>3

-----------------------------------------------------------------------------
(* The steps of an import.                                                    *)

LEMMA CounterStep ==
    ASSUME SInv, UNCHANGED <<rows, txs>>,
           NEW f \in Files, NEW i \in Import, NEW u \in UploadRow,
           imports' = [imports EXCEPT ![f] = i],
           uploads' = [uploads EXCEPT ![f] = u],
           u.status = "absent" => i = Fresh, Sound(i),
           i.next \in {1, imports[f].next},
           i.posted \in {0, imports[f].posted},
           u.posted \in {uploads[f].posted, imports[f].posted},
           u.imported \in {uploads[f].imported, uploads[f].posted + New(f),
                           imports[f].posted + New(f)}
    PROVE  SInv'
<1>1. /\ TxsEvolve /\ RowsEvolve
      /\ \A g : SameNew(g) /\ New(g)' = New(g) /\ Count(g)' = Count(g)
  BY Still
<1>2. imports'[f] = i /\ uploads'[f] = u
  BY DEF SInv, ImportsOK, UploadsOK
<1>3. ASSUME NEW p \in 1 .. i.next - 1 PROVE Covered(f, p)'
  <2>1. p \in 1 .. imports[f].next - 1 /\ p \in Nat \ {0}
    BY <1>3 DEF Import
  <2> QED
    BY <1>1, <2>1, CoveredStays DEF SInv, RowsCovered
<1>4. Counted(f)'
  <2>1. Counted(f) /\ New(f) \in Nat /\ Count(f) \in Nat
    BY <1>1, NewIsNat, CountGrows DEF SInv, CountsOK
  <2>2. /\ uploads[f].posted \in Nat /\ imports[f].posted \in Nat
        /\ uploads[f].imported \in Nat
    BY DEF SInv, UploadsOK, UploadRow, ImportsOK, Import
  <2> QED
    BY <1>1, <1>2, <2>1, <2>2 DEF Counted
<1> QED
  BY <1>1, <1>3, <1>4, StepKeeps

LEMMA RowDone ==
    ASSUME SInv, TxsEvolve, RowsEvolve, UNCHANGED uploads,
           NEW f \in Files, NEW c \in {0, 1}, imports[f].step \in {"check", "post"},
           EndRow(f, c), NEW p, p = imports[f].next, Covered(f, p)',
           \A g \in Files : SameNew(g), Count(f) + c <= Count(f)'
    PROVE  SInv'
<1>1. PICK old \in Import : old = imports[f] /\ Sound(old)
  BY DEF SInv, ImportsOK
<1>2. PICK u \in UploadRow : u = uploads[f]
  BY DEF SInv, UploadsOK
<1>3. PICK step \in {"save", "check"} :
         /\ step = IF old.next % BatchSize = 0 \/ old.next = RowCount
                   THEN "save" ELSE "check"
         /\ imports' = [imports EXCEPT ![f].posted = @ + c, ![f].next = old.next + 1,
                                       ![f].step = step]
  BY <1>1 DEF EndRow
<1> DEFINE i == [old EXCEPT !.posted = @ + c, !.next = old.next + 1, !.step = step]
<1>4. old.next <= RowCount /\ old.posted < old.next
  BY <1>1 DEF Sound
<1>5. /\ i \in Import /\ imports' = [imports EXCEPT ![f] = i] /\ Sound(i)
      /\ i.next = old.next + 1 /\ i.posted = old.posted + c
  <2>1. imports' = [imports EXCEPT ![f] = i]
    BY <1>1, <1>3 DEF SInv, ImportsOK
  <2>2. i \in Import
    <3>1. old.posted + c \in 0 .. RowCount /\ old.next + 1 \in 1 .. RowCount + 1
      BY <1>4 DEF Import
    <3> QED
      BY <3>1 DEF Import
  <2>3. i.posted = old.posted + c /\ i.next = old.next + 1 /\ i.step = step
    BY DEF Import
  <2>4. step = "check" => old.next # RowCount
    BY <1>3
  <2> QED
    BY <1>4, <2>1, <2>2, <2>3, <2>4 DEF Sound, Import
<1>6. uploads' = [uploads EXCEPT ![f] = u] /\ uploads[f].status # "absent"
  BY <1>1, <1>2 DEF SInv, UploadsOK, Fresh
<1>7. ASSUME NEW q \in 1 .. old.next PROVE Covered(f, q)'
  <2>1. CASE q = p
    BY <2>1
  <2>2. CASE q # p
    <3>1. q \in 1 .. imports[f].next - 1 /\ q \in Nat \ {0}
      BY <1>1, <1>7, <2>2 DEF Import
    <3> QED
      BY <3>1, CoveredStays DEF SInv, RowsCovered
  <2> QED
    BY <2>1, <2>2
<1>8. imports'[f] = i /\ uploads'[f] = u
  BY <1>5, <1>6 DEF SInv, ImportsOK, UploadsOK
<1>9. Counted(f)'
  <2>1. Counted(f) /\ New(f) \in Nat /\ Count(f) \in Nat /\ Count(f)' \in Nat
    BY NewIsNat, CountGrows DEF SInv, CountsOK
  <2>2. u.posted \in Nat /\ old.posted \in Nat /\ u.imported \in Nat
    BY DEF UploadRow, Import
  <2>3. New(f)' = New(f)
    BY DEF New, SameNew
  <2> QED
    BY <1>1, <1>2, <1>5, <1>8, <2>1, <2>2, <2>3 DEF Counted
<1>10. \A q \in 1 .. i.next - 1 : Covered(f, q)'
  BY <1>5, <1>7 DEF Import
<1> HIDE DEF i
<1> QED
  BY <1>2, <1>5, <1>6, <1>9, <1>10, StepKeeps

LEMMA FreshIsSound == Fresh \in Import /\ Sound(Fresh)
BY DEF Fresh, Import, Sound

LEMMA FreshWith ==
    ASSUME NEW step \in {"queued", "none"}, NEW n \in 0 .. MaxRetries
    PROVE  /\ [Fresh EXCEPT !.step = step] \in Import
           /\ [Fresh EXCEPT !.step = step].next = 1
           /\ [Fresh EXCEPT !.step = step].posted = 0
           /\ [Fresh EXCEPT !.step = step].step = step
           /\ [Fresh EXCEPT !.step = step, !.retries = n] \in Import
           /\ [Fresh EXCEPT !.step = step, !.retries = n].next = 1
           /\ [Fresh EXCEPT !.step = step, !.retries = n].posted = 0
           /\ [Fresh EXCEPT !.step = step, !.retries = n].step = step
<1>1. Fresh.next = 1 /\ Fresh.posted = 0
  BY DEF Fresh
<1> QED
  BY <1>1, FreshIsSound DEF Import

(* The import of f goes from one step to another, with the counters of f.     *)
LEMMA MovesOn ==
    ASSUME SInv, UNCHANGED <<rows, txs>>,
           NEW f \in Files, NEW u \in UploadRow,
           uploads' = [uploads EXCEPT ![f] = u],
           NEW step \in {"queued", "check", "post", "save", "finish",
                         "awaiting", "completed", "refresh"},
           Step(f, step), u.status # "absent",
           step = "queued" => imports[f].next = 1,
           step \in {"check", "post"} => imports[f].next <= RowCount,
           step \in {"finish", "awaiting", "completed", "refresh"} =>
              imports[f].next > RowCount,
           u.posted \in {uploads[f].posted, imports[f].posted},
           u.imported \in {uploads[f].imported, uploads[f].posted + New(f)}
    PROVE  SInv'
<1>1. PICK i \in Import : i = [imports[f] EXCEPT !.step = step]
  BY DEF SInv, ImportsOK, Import
<1>2. imports' = [imports EXCEPT ![f] = i]
  BY <1>1 DEF Step
<1>3. /\ i.next = imports[f].next /\ i.posted = imports[f].posted
      /\ i.step = step /\ i.posted < i.next
  BY <1>1 DEF SInv, ImportsOK, Import, Sound
<1>4. Sound(i)
  BY <1>3 DEF Sound
<1> QED
  BY <1>2, <1>3, <1>4, CounterStep

(* The import of f is over, or is tried again from the start.                 *)
LEMMA StartsAgain ==
    ASSUME SInv, UNCHANGED <<rows, txs>>,
           NEW f \in Files, NEW u \in UploadRow,
           uploads' = [uploads EXCEPT ![f] = u],
           NEW i \in Import, imports' = [imports EXCEPT ![f] = i],
           i.step \in {"none", "queued"}, i.next = 1, i.posted = 0,
           u.status = "absent" => i = Fresh,
           u.posted = uploads[f].posted,
           u.imported \in {uploads[f].imported, imports[f].posted + New(f)}
    PROVE  SInv'
<1>1. Sound(i)
  BY DEF Sound
<1> QED
  BY <1>1, CounterStep

(* The rows of uploads after a step on one of them.                           *)
LEMMA UploadFields ==
    ASSUME SInv, NEW f \in Files
    PROVE  /\ uploads \in [Files -> UploadRow] /\ uploads[f] \in UploadRow
           /\ imports \in [Files -> Import] /\ imports[f] \in Import
           /\ Sound(imports[f])
           /\ uploads[f].status = "absent" => imports[f] = Fresh
           /\ imports[f].posted + New(f) \in Nat
           /\ uploads[f].posted + New(f) \in Nat
<1>1. New(f) \in Nat
  BY NewIsNat DEF SInv
<1> QED
  BY <1>1 DEF SInv, UploadsOK, ImportsOK, UploadRow, Import

LEMMA CountersKeep ==
    ASSUME SInv, NEW f \in Files,
           \/ UploadFile(f) \/ StartImport(f) \/ ParseFails(f)
           \/ ClassifyRow(f) \/ SaveCounters(f) \/ FindWaiting(f) \/ SaveStatus(f)
           \/ RefreshCounts(f) \/ ImportFails(f) \/ WorkerDies(f)
    PROVE  SInv'
<1>0. /\ uploads \in [Files -> UploadRow] /\ uploads[f] \in UploadRow
      /\ imports \in [Files -> Import] /\ imports[f] \in Import
      /\ Sound(imports[f])
      /\ uploads[f].status = "absent" => imports[f] = Fresh
      /\ imports[f].posted + New(f) \in Nat
      /\ uploads[f].posted + New(f) \in Nat
  BY UploadFields
<1>1. CASE UploadFile(f)
  <2>1. PICK u \in UploadRow :
           u = [uploads[f] EXCEPT !.status = "pending", !.stored = TRUE]
    BY <1>0 DEF UploadRow
  <2>2. /\ uploads' = [uploads EXCEPT ![f] = u]
        /\ u.posted = uploads[f].posted /\ u.imported = uploads[f].imported
        /\ u.status # "absent"
    BY <1>0, <1>1, <2>1 DEF UploadFile, UploadRow
  <2>3. imports[f] = Fresh
    BY <1>0, <1>1 DEF UploadFile
  <2>4. PICK step \in {"queued", "none"} : Step(f, step)
    BY <1>1 DEF UploadFile
  <2>5. PICK i \in Import : i = [Fresh EXCEPT !.step = step]
    <3>1. 0 \in 0 .. MaxRetries
      OBVIOUS
    <3> QED
      BY <3>1, FreshWith
  <2>6. /\ imports' = [imports EXCEPT ![f] = i]
        /\ i.step \in {"none", "queued"} /\ i.next = 1 /\ i.posted = 0
    BY <2>3, <2>4, <2>5 DEF Step, Fresh
  <2> QED
    BY <1>1, <2>2, <2>6, StartsAgain DEF UploadFile
<1>2. CASE StartImport(f)
  <2>1. PICK u \in UploadRow : u = [uploads[f] EXCEPT !.status = "processing"]
    BY <1>0 DEF UploadRow
  <2>2. /\ uploads' = [uploads EXCEPT ![f] = u]
        /\ u.posted = uploads[f].posted /\ u.imported = uploads[f].imported
        /\ u.status # "absent"
    BY <1>0, <1>2, <2>1 DEF StartImport, UploadRow
  <2>3. imports[f].next = 1
    BY <1>0, <1>2 DEF StartImport, Sound
  <2>4. PICK step \in {"finish", "check"} :
           Step(f, step) /\ step = IF RowCount = 0 THEN "finish" ELSE "check"
    BY <1>2 DEF StartImport
  <2>5. /\ step = "finish" => imports[f].next > RowCount
        /\ step = "check" => imports[f].next <= RowCount
    BY <2>3, <2>4
  <2> QED
    BY <1>2, <2>2, <2>4, <2>5, MovesOn DEF StartImport
<1>3. CASE ParseFails(f) \/ ImportFails(f)
  <2>1. PICK u \in UploadRow : u = [uploads[f] EXCEPT !.status = "failed"]
    BY <1>0 DEF UploadRow
  <2>2. /\ uploads' = [uploads EXCEPT ![f] = u]
        /\ u.posted = uploads[f].posted /\ u.imported = uploads[f].imported
        /\ u.status # "absent"
    BY <1>0, <1>3, <2>1 DEF ParseFails, ImportFails, UploadRow
  <2>3. PICK i \in Import :
           /\ imports' = [imports EXCEPT ![f] = i]
           /\ i.step \in {"none", "queued"} /\ i.next = 1 /\ i.posted = 0
    <3>1. CASE ParseFails(f)
      BY <3>1, FreshIsSound DEF ParseFails, Fresh
    <3>2. CASE ImportFails(f) /\ imports[f].retries < MaxRetries
      <4>1. imports[f].retries + 1 \in 0 .. MaxRetries
        BY <1>0, <3>2 DEF Import
      <4>2. PICK n \in 0 .. MaxRetries : n = imports[f].retries + 1
        BY <4>1
      <4>3. PICK i \in Import : i = [Fresh EXCEPT !.step = "queued", !.retries = n]
        BY FreshWith
      <4>4. imports' = [imports EXCEPT ![f] = i]
        BY <1>0, <3>2, <4>2, <4>3 DEF ImportFails, Retry
      <4> QED
        BY <4>3, <4>4 DEF Fresh
    <3>3. CASE ImportFails(f) /\ ~(imports[f].retries < MaxRetries)
      BY <1>0, <3>3, FreshIsSound DEF ImportFails, Retry, Fresh
    <3> QED
      BY <1>3, <3>1, <3>2, <3>3
  <2> QED
    BY <1>3, <2>2, <2>3, StartsAgain DEF ParseFails, ImportFails
<1>4. CASE ClassifyRow(f) \/ FindWaiting(f)
  <2>1. PICK u \in UploadRow : u = uploads[f]
    BY <1>0
  <2>2. /\ uploads' = [uploads EXCEPT ![f] = u]
        /\ u.posted = uploads[f].posted /\ u.imported = uploads[f].imported
        /\ u.status # "absent"
    BY <1>0, <1>4, <2>1 DEF ClassifyRow, FindWaiting, Fresh
  <2>3. CASE ClassifyRow(f)
    <3>1. imports[f].next <= RowCount
      BY <1>0, <2>3 DEF ClassifyRow, Sound
    <3> QED
      BY <2>2, <2>3, <3>1, MovesOn DEF ClassifyRow
  <2>4. CASE FindWaiting(f)
    <3>1. imports[f].next > RowCount
      BY <1>0, <2>4 DEF FindWaiting, Sound
    <3>2. PICK step \in {"awaiting", "completed"} : Step(f, step)
      BY <2>4 DEF FindWaiting
    <3> QED
      BY <2>2, <2>4, <3>1, <3>2, MovesOn DEF FindWaiting
  <2> QED
    BY <1>4, <2>3, <2>4
<1>5. CASE SaveCounters(f)
  <2>1. PICK u \in UploadRow : u = [uploads[f] EXCEPT !.posted = imports[f].posted]
    BY <1>0 DEF UploadRow, Import
  <2>2. /\ uploads' = [uploads EXCEPT ![f] = u]
        /\ u.posted = imports[f].posted /\ u.imported = uploads[f].imported
        /\ u.status # "absent"
    BY <1>0, <1>5, <2>1 DEF SaveCounters, UploadRow, Fresh
  <2>3. PICK step \in {"finish", "check"} :
           /\ Step(f, step)
           /\ step = IF imports[f].next > RowCount THEN "finish" ELSE "check"
    BY <1>5 DEF SaveCounters
  <2>4. /\ step = "finish" => imports[f].next > RowCount
        /\ step = "check" => imports[f].next <= RowCount
    BY <1>0, <2>3 DEF Import
  <2> QED
    BY <1>5, <2>2, <2>3, <2>4, MovesOn DEF SaveCounters
<1>6. CASE SaveStatus(f)
  <2>1. PICK u \in UploadRow : u = [uploads[f] EXCEPT !.status = imports[f].step]
    BY <1>0, <1>6 DEF UploadRow, SaveStatus
  <2>2. /\ uploads' = [uploads EXCEPT ![f] = u]
        /\ u.posted = uploads[f].posted /\ u.imported = uploads[f].imported
        /\ u.status # "absent"
    BY <1>0, <1>6, <2>1 DEF SaveStatus, UploadRow
  <2>3. imports[f].next > RowCount
    BY <1>0, <1>6 DEF SaveStatus, Sound
  <2> QED
    BY <1>6, <2>2, <2>3, MovesOn DEF SaveStatus
<1>7. CASE RefreshCounts(f)
  <2>1. PICK u \in UploadRow :
           u = [uploads[f] EXCEPT !.imported = imports[f].posted + New(f)]
    BY <1>0 DEF UploadRow
  <2>2. /\ uploads' = [uploads EXCEPT ![f] = u]
        /\ u.posted = uploads[f].posted /\ u.imported = imports[f].posted + New(f)
    BY <1>0, <1>7, <2>1 DEF RefreshCounts, UploadRow, New
  <2>3. /\ imports' = [imports EXCEPT ![f] = Fresh]
        /\ Fresh.step = "none" /\ Fresh.next = 1 /\ Fresh.posted = 0
        /\ Fresh \in Import
    BY <1>7, FreshIsSound DEF RefreshCounts, Fresh
  <2> QED
    BY <1>7, <2>2, <2>3, StartsAgain DEF RefreshCounts
<1>8. CASE WorkerDies(f)
  <2>1. PICK u \in UploadRow :
           /\ uploads' = [uploads EXCEPT ![f] = u]
           /\ u.posted = uploads[f].posted /\ u.imported = uploads[f].imported
    <3>1. CASE UNCHANGED uploads
      BY <1>0, <3>1
    <3>2. CASE uploads' = [uploads EXCEPT ![f].status = "processing"]
      <4>1. PICK u \in UploadRow : u = [uploads[f] EXCEPT !.status = "processing"]
        BY <1>0 DEF UploadRow
      <4> QED
        BY <1>0, <3>2, <4>1 DEF UploadRow
    <3> QED
      BY <1>8, <3>1, <3>2 DEF WorkerDies
  <2>2. /\ imports' = [imports EXCEPT ![f] = Fresh]
        /\ Fresh.step = "none" /\ Fresh.next = 1 /\ Fresh.posted = 0
        /\ Fresh \in Import
    BY <1>8, FreshIsSound DEF WorkerDies, Fresh
  <2> QED
    BY <1>8, <2>1, <2>2, StartsAgain DEF WorkerDies
<1> QED
  BY <1>1, <1>2, <1>3, <1>4, <1>5, <1>6, <1>7, <1>8

-----------------------------------------------------------------------------
(* The steps that make transactions or rows.                                  *)

LEMMA FirstOfLegacy ==
    ASSUME SInv, Legacy # {}
    PROVE  (CHOOSE t \in Legacy : \A o \in Legacy : t <= o) \in Legacy
<1>1. Legacy \in SUBSET Nat
  BY Domains DEF SInv, Legacy
<1>2. \E t \in Legacy : \A o \in Legacy : t <= o
  BY <1>1, FirstExists
<1> QED
  BY <1>2

LEMMA TxAppended ==
    ASSUME SInv, NEW tx \in Tx, txs' = Append(txs, tx), Len(txs) < MaxTxs,
           \A t \in DOMAIN txs : Live(t) /\ tx.ref # 0 => txs[t].ref # tx.ref,
           \A t \in DOMAIN txs : Live(t) /\ tx.file # NoFile =>
              <<txs[t].file, txs[t].pos>> # <<tx.file, tx.pos>>
    PROVE  /\ TxsEvolve /\ Len(txs') = Len(txs) + 1
           /\ \A t \in DOMAIN txs : txs'[t] = txs[t]
           /\ Len(txs) + 1 \in DOMAIN txs' /\ txs'[Len(txs) + 1] = tx
<1>1. /\ DOMAIN txs = 1 .. Len(txs) /\ Len(txs) \in Nat
      /\ \A t \in DOMAIN txs : txs[t] \in Tx
  BY Domains DEF SInv
<1>2. /\ txs' \in Seq(Tx) /\ Len(txs') = Len(txs) + 1
      /\ DOMAIN txs' = 1 .. Len(txs) + 1
      /\ \A t \in 1 .. Len(txs) : txs'[t] = txs[t]
      /\ txs'[Len(txs) + 1] = tx
  BY AppendProperties DEF SInv, TxsOK
<1>3. TxsOK'
  BY <1>1, <1>2 DEF TxsOK
<1>4. PostedOnce'
  <2> SUFFICES ASSUME NEW s \in DOMAIN txs', NEW t \in DOMAIN txs', s # t,
                      txs'[s].live, txs'[t].live
               PROVE  /\ txs'[s].ref # 0 => txs'[s].ref # txs'[t].ref
                      /\ txs'[s].file # NoFile =>
                           <<txs'[s].file, txs'[s].pos>> # <<txs'[t].file, txs'[t].pos>>
    BY DEF PostedOnce, Live
  <2>1. CASE s \in DOMAIN txs /\ t \in DOMAIN txs
    BY <1>1, <1>2, <2>1 DEF SInv, PostedOnce, Live
  <2>2. CASE s = Len(txs) + 1 /\ t \in DOMAIN txs
    BY <1>1, <1>2, <2>2 DEF Live
  <2>3. CASE s \in DOMAIN txs /\ t = Len(txs) + 1
    BY <1>1, <1>2, <2>3 DEF Live
  <2> QED
    BY <1>1, <1>2, <2>1, <2>2, <2>3
<1> QED
  BY <1>1, <1>2, <1>3, <1>4 DEF TxsEvolve

LEMMA NewTxFits ==
    ASSUME SInv, NEW f \in Files, NEW p \in Positions, ~ExactDuplicate(f, p),
           txs' = Append(txs, NewTx(f, p)), Len(txs) < MaxTxs
    PROVE  /\ TxsEvolve
           /\ \A t \in DOMAIN txs : txs'[t] = txs[t]
           /\ Len(txs) + 1 \in DOMAIN txs' /\ txs'[Len(txs) + 1] = NewTx(f, p)
           /\ Count(f) + 1 <= Count(f)'
           /\ Covered(f, p)'
<1> DEFINE tx == NewTx(f, p)
<1>1. /\ tx \in Tx /\ tx.live
      /\ p \in Referenced => tx.ref = p /\ tx.file = NoFile
      /\ p \notin Referenced => tx.ref = 0 /\ tx.file = f /\ tx.pos = p
  BY DEF NewTx, Tx, Positions
<1>2. /\ \A t \in DOMAIN txs : Live(t) /\ tx.ref # 0 => txs[t].ref # tx.ref
      /\ \A t \in DOMAIN txs : Live(t) /\ tx.file # NoFile =>
            <<txs[t].file, txs[t].pos>> # <<tx.file, tx.pos>>
  BY <1>1 DEF ExactDuplicate
<1> HIDE DEF tx
<1>3. /\ TxsEvolve /\ Len(txs') = Len(txs) + 1
      /\ \A t \in DOMAIN txs : txs'[t] = txs[t]
      /\ Len(txs) + 1 \in DOMAIN txs' /\ txs'[Len(txs) + 1] = tx
  <2>1. txs' = Append(txs, tx)
    BY DEF tx
  <2> QED
    BY <1>1, <1>2, <2>1, TxAppended
<1>4. Covered(f, p)'
  BY <1>1, <1>3 DEF Covered
<1>5. Count(f) + 1 <= Count(f)'
  <2>1. /\ Len(txs) + 1 \notin DOMAIN txs
        /\ DOMAIN txs' = DOMAIN txs \cup {Len(txs) + 1}
    BY <1>3, Domains DEF SInv, TxsEvolve, TxsOK
  <2>2. tx.file = f \/ tx.ref # 0
    BY <1>1 DEF Positions
  <2>3. Countable(f)' = Countable(f) \cup {Len(txs) + 1}
    BY <1>3, <2>1, <2>2 DEF Countable
  <2>4. Len(txs) + 1 \notin Countable(f)
    BY <2>1 DEF Countable
  <2>5. IsFiniteSet(Countable(f)) /\ Count(f) \in Nat
    BY CountIsNat DEF SInv
  <2>6. Cardinality(Countable(f)') = Cardinality(Countable(f)) + 1
    BY <2>3, <2>4, <2>5, FS_AddElement
  <2> QED
    BY <2>5, <2>6 DEF Count
<1> QED
  BY <1>3, <1>4, <1>5 DEF tx

LEMMA RowsHold ==
    ASSUME SInv, TxsEvolve, UNCHANGED rows,
           \A t \in DOMAIN txs : Live(t) => Live(t)'
    PROVE  RowsEvolve /\ \A g : SameNew(g)
<1>1. DOMAIN txs \subseteq DOMAIN txs'
  BY Domains DEF SInv, TxsEvolve, TxsOK
<1>2. RowsOK'
  BY <1>1 DEF SInv, RowsOK, TxsEvolve, Live
<1> QED
  BY <1>2 DEF RowsEvolve, SameNew, SInv, RowsOK

LEMMA SkipKeeps ==
    ASSUME SInv, NEW f \in Files, SkipRow(f) PROVE SInv'
<1>1. TxsEvolve /\ RowsEvolve /\ \A g : SameNew(g) /\ Count(g)' = Count(g)
  BY Still DEF SkipRow
<1>2. PICK p \in Positions : p = imports[f].next
  BY DEF SkipRow, SInv, ImportsOK, Import, Sound, Positions
<1>3. Covered(f, p)'
  BY <1>2 DEF SkipRow, ExactDuplicate, Covered
<1>4. Count(f) \in Nat
  BY CountIsNat DEF SInv
<1> QED
  BY <1>1, <1>2, <1>3, <1>4, RowDone DEF SkipRow

LEMMA PostKeeps ==
    ASSUME SInv, NEW f \in Files, PostRow(f) PROVE SInv'
<1>1. PICK p \in Positions : p = imports[f].next
  BY DEF PostRow, SInv, ImportsOK, Import, Sound, Positions
<1>2. /\ TxsEvolve /\ Count(f) + 1 <= Count(f)' /\ Covered(f, p)'
      /\ \A t \in DOMAIN txs : txs'[t] = txs[t]
  BY <1>1, NewTxFits DEF PostRow
<1>3. RowsEvolve /\ \A g : SameNew(g)
  BY <1>2, RowsHold DEF PostRow, Live
<1> QED
  BY <1>1, <1>2, <1>3, RowDone DEF PostRow

LEMMA AdoptKeeps ==
    ASSUME SInv, NEW f \in Files, AdoptLegacy(f) PROVE SInv'
<1>1. PICK p \in Positions : p = imports[f].next /\ p \in Referenced
  BY DEF AdoptLegacy, Positions
<1>2. PICK t \in Legacy : txs' = [txs EXCEPT ![t].ref = p]
  BY <1>1, FirstOfLegacy DEF AdoptLegacy
<1>3. /\ t \in DOMAIN txs /\ txs[t].ref = 0 /\ txs[t].live /\ txs[t] \in Tx
  BY <1>2, Domains DEF SInv, Legacy, Live
<1>4. PICK tx \in Tx : tx = [txs[t] EXCEPT !.ref = p]
  BY <1>1, <1>3 DEF Tx
<1>5. /\ txs' = [txs EXCEPT ![t] = tx]
      /\ tx.ref = p /\ tx.file = txs[t].file /\ tx.pos = txs[t].pos
      /\ tx.live = txs[t].live
  BY <1>2, <1>3, <1>4 DEF Tx
<1>6. /\ txs' \in Seq(Tx) /\ Len(txs') = Len(txs)
      /\ DOMAIN txs' = DOMAIN txs /\ txs'[t] = tx
      /\ \A o \in DOMAIN txs : o # t => txs'[o] = txs[o]
  BY <1>3, <1>5, ExceptSeq DEF SInv, TxsOK
<1>7. \A o \in DOMAIN txs : Live(o) => txs[o].ref # p
  BY <1>1 DEF AdoptLegacy, Unmatched, ExactDuplicate
<1>8. TxsEvolve
  <2>1. PostedOnce'
    BY <1>3, <1>5, <1>6, <1>7 DEF SInv, PostedOnce, Live
  <2>2. TxsOK'
    BY <1>6 DEF SInv, TxsOK
  <2> QED
    BY <1>3, <1>5, <1>6, <2>1, <2>2, Domains DEF TxsEvolve, SInv
<1>9. RowsEvolve /\ \A g : SameNew(g)
  BY <1>3, <1>5, <1>6, <1>8, RowsHold DEF AdoptLegacy, Live
<1>10. Covered(f, p)'
  BY <1>3, <1>5, <1>6 DEF Covered
<1>11. Count(f) \in Nat /\ Count(f)' \in Nat /\ Count(f) <= Count(f)'
  BY <1>8, CountGrows
<1>12. Count(f) + 0 <= Count(f)'
  BY <1>11
<1> QED
  BY <1>1, <1>8, <1>9, <1>10, <1>12, RowDone DEF AdoptLegacy

(* Rows that are changed in place.                                            *)
LEMMA RowsChanged ==
    ASSUME SInv, TxsEvolve,
           DOMAIN rows' = DOMAIN rows, rows' = [r \in DOMAIN rows' |-> rows'[r]],
           \A r \in DOMAIN rows :
              /\ rows'[r] \in StatementRow
              /\ rows'[r].file = rows[r].file /\ rows'[r].pos = rows[r].pos
              /\ rows'[r].tx # 0 => rows'[r].tx \in DOMAIN txs' /\ txs'[rows'[r].tx].live
              /\ \A t \in rows'[r].candidates \ rows[r].candidates :
                    t \in DOMAIN txs' /\ txs'[t].file # rows[r].file
              /\ \A t \in rows'[r].candidates : txs'[t].live
    PROVE  /\ RowsEvolve /\ rows \in Seq(StatementRow) /\ rows' \in Seq(StatementRow)
           /\ Len(rows') = Len(rows)
<1>1. /\ DOMAIN rows = 1 .. Len(rows) /\ Len(rows) \in Nat
      /\ rows \in Seq(StatementRow)
      /\ DOMAIN txs \subseteq DOMAIN txs'
  BY Domains DEF SInv, RowsOK, TxsEvolve, TxsOK
<1>2. PICK n \in Nat : n = Len(rows)
  BY <1>1
<1>3. rows' \in [1 .. n -> StatementRow]
  BY <1>1, <1>2
<1>4. rows' \in Seq(StatementRow) /\ Len(rows') = n
  BY <1>3, IsASeq, LenProperties
<1>5. RowsOK'
  <2>1. ASSUME NEW r \in DOMAIN rows', NEW t \in rows'[r].candidates
        PROVE  t \in DOMAIN txs' /\ txs'[t].live /\ txs'[t].file # rows'[r].file
    <3>1. CASE t \in rows[r].candidates
      <4>1. t \in DOMAIN txs /\ txs[t].file # rows[r].file
        BY <3>1 DEF SInv, RowsOK
      <4> QED
        BY <1>1, <4>1 DEF TxsEvolve
    <3>2. CASE t \notin rows[r].candidates
      BY <3>2
    <3> QED
      BY <3>1, <3>2
  <2>2. Len(rows') <= MaxRows
    BY <1>2, <1>4 DEF SInv, RowsOK
  <2> QED
    BY <1>4, <2>1, <2>2 DEF RowsOK, Live
<1> QED
  BY <1>1, <1>2, <1>4, <1>5 DEF RowsEvolve

LEMMA SaveKeeps ==
    ASSUME SInv, NEW f \in Files, SaveRow(f) PROVE SInv'
<1>1. PICK p \in Positions : p = imports[f].next
  BY DEF SaveRow, SInv, ImportsOK, Import, Sound, Positions
<1> DEFINE found == ProbableDuplicates(f)
           known == {r \in RowsOf(f) : rows[r].pos = p /\ ~rows[r].wiped}
<1>2. /\ DOMAIN txs = 1 .. Len(txs) /\ Len(txs) \in Nat /\ Len(txs) <= MaxTxs
      /\ DOMAIN rows = 1 .. Len(rows) /\ Len(rows) \in Nat
      /\ rows \in Seq(StatementRow)
      /\ \A r \in DOMAIN rows : rows[r] \in StatementRow
  BY Domains DEF SInv, TxsOK, RowsOK
<1>3. PICK set \in SUBSET TxIds :
         /\ set = found
         /\ \A t \in set : t \in DOMAIN txs /\ txs[t].live /\ txs[t].file # f
  <2>1. \A t \in found : t \in DOMAIN txs /\ txs[t].live /\ txs[t].file # f
    BY DEF ProbableDuplicates, Live
  <2>2. found \in SUBSET TxIds
    BY <1>2, <2>1 DEF TxIds
  <2> HIDE DEF found
  <2> QED
    BY <2>1, <2>2
<1>4. TxsEvolve
  BY DEF SaveRow, SInv, TxsEvolve, TxsOK, PostedOnce, Live
<1>5. CASE known = {}
  <2>1. PICK row \in StatementRow :
           row = [file |-> f, pos |-> p, wiped |-> FALSE, tx |-> 0,
                  decision |-> "pending", candidates |-> set]
    BY DEF StatementRow
  <2>2. Len(rows) < MaxRows /\ rows' = Append(rows, row)
    BY <1>1, <1>3, <1>5, <2>1 DEF SaveRow
  <2>3. /\ rows' \in Seq(StatementRow) /\ Len(rows') = Len(rows) + 1
        /\ DOMAIN rows' = 1 .. Len(rows) + 1
        /\ \A r \in 1 .. Len(rows) : rows'[r] = rows[r]
        /\ rows'[Len(rows) + 1] = row
    BY <1>2, <2>2, AppendProperties
  <2>4. RowsOK'
    <3>1. ASSUME NEW r \in DOMAIN rows'
          PROVE  /\ rows'[r].tx # 0 => rows'[r].tx \in DOMAIN txs /\ txs[rows'[r].tx].live
                 /\ \A t \in rows'[r].candidates :
                       t \in DOMAIN txs /\ txs[t].live /\ txs[t].file # rows'[r].file
      <4>1. CASE r \in DOMAIN rows
        BY <1>2, <2>3, <4>1 DEF SInv, RowsOK, Live
      <4>2. CASE r = Len(rows) + 1
        BY <1>3, <2>1, <2>3, <4>2
      <4> QED
        BY <1>2, <2>3, <4>1, <4>2
    <3>2. Len(rows') <= MaxRows
      BY <1>2, <2>2, <2>3
    <3>3. UNCHANGED txs
      BY DEF SaveRow
    <3> QED
      BY <2>3, <3>1, <3>2, <3>3 DEF RowsOK, Live
  <2>5. RowsEvolve
    BY <1>2, <2>3, <2>4 DEF RowsEvolve
  <2>6. \A g : SameNew(g)
    <3> SUFFICES ASSUME NEW g PROVE Decided(rows', g, "new") = Decided(rows, g, "new")
      BY DEF SameNew
    <3>1. row.decision # "new"
      BY <2>1
    <3> QED
      BY <1>2, <2>3, <3>1, DecidedSame
  <2>7. Covered(f, p)'
    BY <1>2, <2>1, <2>3 DEF Covered, RowsOf
  <2>8. Count(f) + 0 <= Count(f)'
    BY <1>4, CountGrows
  <2> QED
    BY <1>1, <1>4, <2>5, <2>6, <2>7, <2>8, RowDone DEF SaveRow
<1>6. CASE known # {}
  <2>1. rows' = [r \in DOMAIN rows |->
                   IF r \in known THEN [rows[r] EXCEPT !.candidates = @ \cup set]
                   ELSE rows[r]]
    BY <1>1, <1>3, <1>6 DEF SaveRow
  <2>2. DOMAIN rows' = DOMAIN rows
    BY <2>1
  <2>3. ASSUME NEW r \in DOMAIN rows
        PROVE  /\ rows'[r] \in StatementRow
               /\ rows'[r].file = rows[r].file /\ rows'[r].pos = rows[r].pos
               /\ rows'[r].tx = rows[r].tx /\ rows'[r].decision = rows[r].decision
               /\ rows'[r].candidates =
                    IF r \in known THEN rows[r].candidates \cup set ELSE rows[r].candidates
    BY <1>2, <2>1 DEF StatementRow
  <2>4. \A r \in known : rows[r].file = f
    BY DEF RowsOf
  <2>5. UNCHANGED txs
    BY DEF SaveRow
  <2>6. RowsEvolve /\ rows' \in Seq(StatementRow) /\ Len(rows') = Len(rows)
    <3>1. ASSUME NEW r \in DOMAIN rows
          PROVE  /\ rows'[r].tx # 0 =>
                       rows'[r].tx \in DOMAIN txs' /\ txs'[rows'[r].tx].live
                 /\ \A t \in rows'[r].candidates \ rows[r].candidates :
                       t \in DOMAIN txs' /\ txs'[t].file # rows[r].file
                 /\ \A t \in rows'[r].candidates : txs'[t].live
      <4>1. /\ rows[r].tx # 0 => rows[r].tx \in DOMAIN txs /\ txs[rows[r].tx].live
            /\ \A t \in rows[r].candidates : t \in DOMAIN txs /\ txs[t].live
        BY DEF SInv, RowsOK, Live
      <4> HIDE DEF known
      <4> QED
        BY <1>3, <2>3, <2>4, <2>5, <4>1
    <3>2. rows' = [r \in DOMAIN rows' |-> rows'[r]]
      BY <2>1
    <3> HIDE DEF known
    <3> QED
      BY <1>4, <2>2, <2>3, <3>1, <3>2, RowsChanged
  <2>7. \A g : SameNew(g)
    <3> SUFFICES ASSUME NEW g PROVE Decided(rows', g, "new") = Decided(rows, g, "new")
      BY DEF SameNew
    <3>1. \A r \in DOMAIN rows' :
             rows'[r].file = g /\ rows'[r].decision = "new" <=>
                r \in DOMAIN rows /\ rows[r].file = g /\ rows[r].decision = "new"
      BY <2>2, <2>3
    <3> HIDE DEF known
    <3> QED
      BY <1>2, <2>6, <3>1, DecidedSame
  <2>8. Covered(f, p)'
    <3>1. PICK r \in RowsOf(f) : rows[r].pos = p
      BY <1>6
    <3> HIDE DEF known
    <3> QED
      BY <2>2, <2>3, <3>1 DEF Covered, RowsOf
  <2>9. Count(f) + 0 <= Count(f)'
    BY <1>4, CountGrows
  <2> QED
    BY <1>1, <1>4, <2>6, <2>7, <2>8, <2>9, RowDone DEF SaveRow
<1> QED
  BY <1>5, <1>6

-----------------------------------------------------------------------------
(* The owner's steps and the cleanup.                                         *)

LEMMA UploadStep ==
    ASSUME SInv, TxsEvolve, RowsEvolve, UNCHANGED imports,
           NEW f \in Files, NEW u \in UploadRow, NEW c \in {0, 1},
           uploads' = [uploads EXCEPT ![f] = u],
           u.status = "absent" => uploads[f].status = "absent",
           u.posted = uploads[f].posted,
           u.imported \in {uploads[f].imported,
                           uploads[f].posted + Decided(rows', f, "new")},
           Decided(rows', f, "new") = New(f) + c, Count(f) + c <= Count(f)',
           \A g \in Files : g # f => SameNew(g)
    PROVE  SInv'
<1>1. PICK i \in Import : i = imports[f]
  BY UploadFields
<1>2. /\ imports' = [imports EXCEPT ![f] = i] /\ Sound(i)
      /\ u.status = "absent" => i = Fresh
  BY <1>1, UploadFields
<1>3. \A p \in 1 .. i.next - 1 : Covered(f, p)'
  <2> SUFFICES ASSUME NEW p \in 1 .. i.next - 1 PROVE Covered(f, p)'
    OBVIOUS
  <2>1. Covered(f, p) /\ p \in Nat \ {0}
    BY <1>1 DEF SInv, RowsCovered, Import
  <2> QED
    BY <2>1, CoveredStays
<1>4. Counted(f)'
  <2>1. Counted(f) /\ New(f) \in Nat /\ Count(f) \in Nat /\ Count(f)' \in Nat
    BY NewIsNat, CountGrows DEF SInv, CountsOK
  <2>2. uploads'[f] = u /\ imports'[f] = imports[f]
    BY UploadFields
  <2>3. /\ uploads[f].posted \in Nat /\ imports[f].posted \in Nat
        /\ uploads[f].imported \in Nat
    BY UploadFields DEF UploadRow, Import
  <2>4. New(f)' = New(f) + c
    BY DEF New
  <2> QED
    BY <2>1, <2>2, <2>3, <2>4 DEF Counted
<1> QED
  BY <1>2, <1>3, <1>4, StepKeeps

LEMMA ExpireOrPurgeKeeps ==
    ASSUME SInv, NEW f \in Files, ExpireUpload(f) \/ PurgePdf(f) PROVE SInv'
<1>1. UNCHANGED <<rows, txs, imports>>
  BY DEF ExpireUpload, PurgePdf
<1>2. TxsEvolve /\ RowsEvolve /\ \A g : SameNew(g) /\ Count(g)' = Count(g)
  BY <1>1, Still
<1>3. Decided(rows', f, "new") = New(f) + 0 /\ Count(f) + 0 <= Count(f)'
  BY <1>1, <1>2, NewIsNat, CountIsNat DEF SInv, New
<1>4. PICK u \in UploadRow :
         /\ uploads' = [uploads EXCEPT ![f] = u]
         /\ u.status = uploads[f].status /\ u.posted = uploads[f].posted
         /\ u.imported = uploads[f].imported
  <2>1. CASE ExpireUpload(f)
    <3>1. PICK u \in UploadRow : u = [uploads[f] EXCEPT !.expired = TRUE]
      BY UploadFields DEF UploadRow
    <3> QED
      BY <2>1, <3>1, UploadFields DEF ExpireUpload, UploadRow
  <2>2. CASE PurgePdf(f)
    <3>1. PICK u \in UploadRow : u = [uploads[f] EXCEPT !.stored = FALSE]
      BY UploadFields DEF UploadRow
    <3> QED
      BY <2>2, <3>1, UploadFields DEF PurgePdf, UploadRow
  <2> QED
    BY <2>1, <2>2
<1> QED
  BY <1>1, <1>2, <1>3, <1>4, UploadStep

LEMMA CleanKeeps ==
    ASSUME SInv, NEW f \in Files, CleanUpload(f) PROVE SInv'
<1>1. UNCHANGED <<txs, imports>>
  BY DEF CleanUpload
<1>2. TxsEvolve
  BY <1>1 DEF SInv, TxsEvolve, TxsOK, PostedOnce, Live
<1>3. /\ rows \in Seq(StatementRow) /\ \A r \in DOMAIN rows : rows[r] \in StatementRow
  BY Domains DEF SInv, RowsOK
<1>4. /\ DOMAIN rows' = DOMAIN rows /\ rows' = [r \in DOMAIN rows' |-> rows'[r]]
  BY DEF CleanUpload
<1>5. ASSUME NEW r \in DOMAIN rows
      PROVE  /\ rows'[r] \in StatementRow
             /\ rows'[r].file = rows[r].file /\ rows'[r].pos = rows[r].pos
             /\ rows'[r].tx = rows[r].tx
             /\ rows'[r].decision = "new" <=> rows[r].decision = "new"
             /\ rows'[r].candidates \subseteq rows[r].candidates
  <2>1. CASE rows[r].file # f
    BY <1>3, <2>1 DEF CleanUpload
  <2>2. CASE rows[r].file = f
    BY <1>3, <2>2 DEF CleanUpload, StatementRow
  <2> QED
    BY <2>1, <2>2
<1>6. RowsEvolve /\ rows' \in Seq(StatementRow) /\ Len(rows') = Len(rows)
  <2>1. ASSUME NEW r \in DOMAIN rows
        PROVE  /\ rows[r].tx # 0 => rows[r].tx \in DOMAIN txs /\ txs[rows[r].tx].live
               /\ \A t \in rows[r].candidates : txs[t].live
    BY DEF SInv, RowsOK, Live
  <2>2. ASSUME NEW r \in DOMAIN rows
        PROVE  /\ rows'[r].tx # 0 =>
                     rows'[r].tx \in DOMAIN txs' /\ txs'[rows'[r].tx].live
               /\ \A t \in rows'[r].candidates \ rows[r].candidates :
                     t \in DOMAIN txs' /\ txs'[t].file # rows[r].file
               /\ \A t \in rows'[r].candidates : txs'[t].live
    BY <1>1, <1>5, <2>1
  <2> QED
    BY <1>2, <1>4, <1>5, <2>2, RowsChanged
<1>7. \A g : SameNew(g)
  <2> SUFFICES ASSUME NEW g PROVE Decided(rows', g, "new") = Decided(rows, g, "new")
    BY DEF SameNew
  <2>1. \A r \in DOMAIN rows' :
           rows'[r].file = g /\ rows'[r].decision = "new" <=>
              r \in DOMAIN rows /\ rows[r].file = g /\ rows[r].decision = "new"
    BY <1>4, <1>5
  <2> QED
    BY <1>3, <1>6, <2>1, DecidedSame
<1>8. /\ Decided(rows', f, "new") = New(f) + 0 /\ Count(f) + 0 <= Count(f)'
      /\ New(f) \in Nat
  BY <1>2, <1>7, NewIsNat, CountGrows DEF SInv, SameNew, New
<1>9. PICK status : status = IF Decided(rows, f, "pending") # 0 THEN "unresolved"
                             ELSE IF uploads[f].status = "failed"
                                  THEN uploads[f].status ELSE "completed"
  OBVIOUS
<1>10. PICK u \in UploadRow :
          u = [uploads[f] EXCEPT !.cleaned = TRUE, !.status = status,
                                 !.imported = uploads[f].posted + New(f)]
  BY <1>9, UploadFields DEF UploadRow
<1>11. /\ uploads' = [uploads EXCEPT ![f] = u]
       /\ u.posted = uploads[f].posted /\ u.imported = uploads[f].posted + New(f)
       /\ u.status # "absent"
  BY <1>9, <1>10, UploadFields DEF CleanUpload, UploadRow, New
<1>12. New(f) + 0 = New(f)
  BY <1>8
<1> QED
  BY <1>1, <1>2, <1>6, <1>7, <1>8, <1>11, <1>12, UploadStep

LEMMA RowDecided ==
    ASSUME SInv, TxsEvolve, NEW r \in DOMAIN rows, NEW row \in StatementRow,
           rows' = [rows EXCEPT ![r] = row],
           row.file = rows[r].file, row.pos = rows[r].pos,
           row.candidates = rows[r].candidates,
           row.tx \in DOMAIN txs', txs'[row.tx].live,
           \A t \in DOMAIN txs : txs[t].live => txs'[t].live
    PROVE  RowsEvolve /\ rows' \in Seq(StatementRow)
<1>1. /\ rows \in Seq(StatementRow) /\ \A o \in DOMAIN rows : rows[o] \in StatementRow
      /\ DOMAIN txs \subseteq DOMAIN txs'
  BY Domains DEF SInv, RowsOK, TxsEvolve, TxsOK
<1>2. /\ DOMAIN rows' = DOMAIN rows /\ rows' = [o \in DOMAIN rows' |-> rows'[o]]
      /\ rows'[r] = row /\ \A o \in DOMAIN rows : o # r => rows'[o] = rows[o]
  BY <1>1, ExceptSeq
<1>3. ASSUME NEW o \in DOMAIN rows
      PROVE  /\ rows[o].tx # 0 => rows[o].tx \in DOMAIN txs /\ txs[rows[o].tx].live
             /\ \A t \in rows[o].candidates : t \in DOMAIN txs /\ txs[t].live
  BY DEF SInv, RowsOK, Live
<1>4. ASSUME NEW o \in DOMAIN rows
      PROVE  /\ rows'[o] \in StatementRow
             /\ rows'[o].file = rows[o].file /\ rows'[o].pos = rows[o].pos
             /\ rows'[o].tx # 0 => rows'[o].tx \in DOMAIN txs' /\ txs'[rows'[o].tx].live
             /\ \A t \in rows'[o].candidates \ rows[o].candidates :
                   t \in DOMAIN txs' /\ txs'[t].file # rows[o].file
             /\ \A t \in rows'[o].candidates : txs'[t].live
  <2>1. CASE o = r
    BY <1>1, <1>2, <1>3, <2>1
  <2>2. CASE o # r
    BY <1>1, <1>2, <1>3, <2>2
  <2> QED
    BY <2>1, <2>2
<1> QED
  BY <1>2, <1>4, RowsChanged

LEMMA LinkKeeps ==
    ASSUME SInv, NEW r \in DOMAIN rows, NEW t \in rows[r].candidates, DecideLinked(r, t)
    PROVE  SInv'
<1>1. /\ rows \in Seq(StatementRow) /\ rows[r] \in StatementRow
      /\ t \in DOMAIN txs /\ txs[t].live
  BY Domains DEF SInv, RowsOK, Live
<1>2. PICK f \in Files : f = rows[r].file
  BY <1>1 DEF StatementRow
<1>3. PICK row \in StatementRow :
         row = [rows[r] EXCEPT !.decision = "linked", !.tx = t]
  BY <1>1 DEF StatementRow
<1>4. /\ row.file = f /\ row.pos = rows[r].pos /\ row.tx = t
      /\ row.candidates = rows[r].candidates /\ row.decision = "linked"
  BY <1>1, <1>2, <1>3 DEF StatementRow
<1>5. rows' = [rows EXCEPT ![r] = row] /\ UNCHANGED <<txs, imports>>
  BY <1>1, <1>3 DEF DecideLinked, Decide
<1>6. TxsEvolve
  BY <1>5 DEF SInv, TxsEvolve, TxsOK, PostedOnce, Live
<1>7. RowsEvolve /\ rows' \in Seq(StatementRow)
  BY <1>1, <1>2, <1>4, <1>5, <1>6, RowDecided
<1>8. \A g : SameNew(g)
  <2> SUFFICES ASSUME NEW g PROVE Decided(rows', g, "new") = Decided(rows, g, "new")
    BY DEF SameNew
  <2>1. DOMAIN rows' = DOMAIN rows /\ Len(rows') = Len(rows)
    BY <1>1, <1>5, ExceptSeq
  <2>2. \A o \in DOMAIN rows' :
           rows'[o].file = g /\ rows'[o].decision = "new" <=>
              o \in DOMAIN rows /\ rows[o].file = g /\ rows[o].decision = "new"
    BY <1>1, <1>4, <1>5 DEF DecideLinked
  <2> QED
    BY <1>1, <1>7, <2>1, <2>2, DecidedSame
<1>9. /\ Decided(rows', f, "new") = New(f) + 0 /\ Count(f) + 0 <= Count(f)'
      /\ Decided(rows', f, "new") \in Nat
  BY <1>6, <1>8, NewIsNat, CountGrows DEF SInv, SameNew, New
<1>10. PICK status \in {"absent", "pending", "processing", "awaiting", "completed",
                        "unresolved", "failed"} :
          /\ status = IF Decided(rows', f, "pending") = 0 THEN "completed"
                      ELSE uploads[f].status
          /\ status = "absent" => uploads[f].status = "absent"
  BY UploadFields DEF UploadRow
<1>11. PICK k \in Nat : k = uploads[f].posted + Decided(rows', f, "new")
  BY <1>9, UploadFields DEF UploadRow
<1>12. PICK u \in UploadRow : u = [uploads[f] EXCEPT !.imported = k, !.status = status]
  BY UploadFields DEF UploadRow
<1>13. /\ uploads' = [uploads EXCEPT ![f] = u]
       /\ u.posted = uploads[f].posted /\ u.status = status
       /\ u.imported = uploads[f].posted + Decided(rows', f, "new")
  <2>1. uploads' = [uploads EXCEPT
            ![f].imported = uploads[f].posted + Decided(rows', f, "new"),
            ![f].status = IF Decided(rows', f, "pending") = 0 THEN "completed" ELSE @]
    BY <1>2 DEF DecideLinked, Decide
  <2> QED
    BY <1>10, <1>11, <1>12, <2>1, UploadFields DEF UploadRow
<1> QED
  BY <1>5, <1>6, <1>7, <1>8, <1>9, <1>10, <1>13, UploadStep

(* A row decided as new, at once or after it was linked.                      *)
LEMMA NewKeeps ==
    ASSUME SInv, NEW r \in DOMAIN rows, DecideNew(r) \/ ReviseToNew(r)
    PROVE  SInv'
<1>1. /\ rows \in Seq(StatementRow) /\ rows[r] \in StatementRow
      /\ DOMAIN txs = 1 .. Len(txs) /\ Len(txs) \in Nat
  BY Domains DEF SInv, RowsOK
<1>2. PICK f \in Files : f = rows[r].file
  BY <1>1 DEF StatementRow
<1>3. PICK p \in Positions : p = rows[r].pos
  BY <1>1 DEF StatementRow
<1>4. /\ Len(txs) < MaxTxs /\ ~ExactDuplicate(f, p)
      /\ txs' = Append(txs, NewTx(f, p)) /\ UNCHANGED imports
      /\ rows[r].decision # "new"
  BY <1>2, <1>3 DEF DecideNew, ReviseToNew, CreateTx
<1>5. /\ TxsEvolve /\ \A t \in DOMAIN txs : txs'[t] = txs[t]
      /\ Len(txs) + 1 \in DOMAIN txs' /\ txs'[Len(txs) + 1] = NewTx(f, p)
      /\ Count(f) + 1 <= Count(f)'
  BY <1>4, NewTxFits
<1>6. PICK n \in TxIds : n = Len(txs) + 1
  BY <1>1, <1>4 DEF TxIds
<1>7. PICK row \in StatementRow :
         row = [rows[r] EXCEPT !.decision = "new", !.tx = n]
  BY <1>1 DEF StatementRow
<1>8. /\ row.file = f /\ row.pos = rows[r].pos /\ row.tx = n
      /\ row.candidates = rows[r].candidates /\ row.decision = "new"
  BY <1>1, <1>2, <1>7 DEF StatementRow
<1>9. rows' = [rows EXCEPT ![r] = row]
  BY <1>1, <1>6, <1>7 DEF DecideNew, ReviseToNew, Decide
<1>10. RowsEvolve /\ rows' \in Seq(StatementRow)
  <2>1. txs'[n].live
    BY <1>5, <1>6 DEF NewTx
  <2> QED
    BY <1>2, <1>5, <1>6, <1>8, <1>9, <2>1, RowDecided
<1>11. /\ Decided(rows', f, "new") = Decided(rows, f, "new") + 1
       /\ \A g : g # f => Decided(rows', g, "new") = Decided(rows, g, "new")
  <2>1. /\ rows \in Seq(StatementRow) /\ DOMAIN rows' = DOMAIN rows
        /\ \A o \in DOMAIN rows : o # r => rows'[o] = rows[o]
        /\ rows'[r].decision = "new" /\ rows[r].decision # "new"
        /\ rows'[r].file = f /\ rows[r].file = f
    BY <1>1, <1>2, <1>4, <1>8, <1>9
  <2> QED
    BY <2>1, DecidedOneMore
<1>12. /\ Decided(rows', f, "new") = New(f) + 1 /\ New(f) \in Nat
       /\ Decided(rows', f, "new") \in Nat
       /\ \A g \in Files : g # f => SameNew(g)
  BY <1>11, NewIsNat DEF SInv, SameNew, New
<1>13. PICK k \in Nat : k = uploads[f].posted + Decided(rows', f, "new")
  BY <1>12, UploadFields DEF UploadRow
<1>14. PICK u \in UploadRow :
          /\ uploads' = [uploads EXCEPT ![f] = u]
          /\ u.posted = uploads[f].posted
          /\ u.status = "absent" => uploads[f].status = "absent"
          /\ u.imported = uploads[f].posted + Decided(rows', f, "new")
  <2>1. CASE DecideNew(r)
    <3>1. PICK status \in {"absent", "pending", "processing", "awaiting", "completed",
                            "unresolved", "failed"} :
              /\ status = IF Decided(rows', f, "pending") = 0 THEN "completed"
                          ELSE uploads[f].status
              /\ status = "absent" => uploads[f].status = "absent"
      BY UploadFields DEF UploadRow
    <3>2. PICK u \in UploadRow :
             u = [uploads[f] EXCEPT !.imported = k, !.status = status]
      BY UploadFields DEF UploadRow
    <3>3. uploads' = [uploads EXCEPT
              ![f].imported = uploads[f].posted + Decided(rows', f, "new"),
              ![f].status = IF Decided(rows', f, "pending") = 0 THEN "completed" ELSE @]
      BY <1>2, <2>1 DEF DecideNew, Decide
    <3> QED
      BY <1>13, <3>1, <3>2, <3>3, UploadFields DEF UploadRow
  <2>2. CASE ReviseToNew(r)
    <3>1. PICK u \in UploadRow : u = [uploads[f] EXCEPT !.imported = k]
      BY UploadFields DEF UploadRow
    <3> QED
      BY <1>2, <1>13, <2>2, <3>1, UploadFields DEF ReviseToNew, UploadRow
  <2> QED
    BY <2>1, <2>2
<1> QED
  BY <1>4, <1>5, <1>10, <1>12, <1>14, UploadStep

LEMMA AddKeeps ==
    ASSUME SInv, AddTx PROVE SInv'
<1>1. PICK tx :
         tx = [ref |-> 0, file |-> NoFile, pos |-> 0, alike |-> TRUE, live |-> TRUE]
  OBVIOUS
<1>2. /\ TxsEvolve /\ \A t \in DOMAIN txs : txs'[t] = txs[t]
  <2>1. tx \in Tx /\ tx.ref = 0 /\ tx.file = NoFile
    BY <1>1 DEF Tx
  <2> QED
    BY <1>1, <2>1, TxAppended DEF AddTx
<1>3. RowsEvolve /\ \A g : SameNew(g)
  BY <1>2, RowsHold DEF AddTx, Live
<1> QED
  BY <1>2, <1>3, OwnerKeeps DEF AddTx

LEMMA EditKeeps ==
    ASSUME SInv, NEW t \in DOMAIN txs, EditTx(t) PROVE SInv'
<1>1. txs \in Seq(Tx) /\ txs[t] \in Tx /\ Len(txs) \in Nat
  BY Domains DEF SInv, TxsOK
<1>2. PICK tx \in Tx :
         /\ txs' = [txs EXCEPT ![t] = tx]
         /\ tx.ref = txs[t].ref /\ tx.file = txs[t].file /\ tx.pos = txs[t].pos
         /\ tx.live = txs[t].live
  <2>1. PICK alike \in BOOLEAN : alike = ~txs[t].alike
    BY <1>1 DEF Tx
  <2>2. PICK tx \in Tx : tx = [txs[t] EXCEPT !.alike = alike]
    BY <1>1 DEF Tx
  <2> QED
    BY <1>1, <2>1, <2>2 DEF EditTx, Tx
<1>3. /\ txs' \in Seq(Tx) /\ Len(txs') = Len(txs)
      /\ DOMAIN txs' = DOMAIN txs /\ txs'[t] = tx
      /\ \A o \in DOMAIN txs : o # t => txs'[o] = txs[o]
  BY <1>1, <1>2, ExceptSeq
<1>4. TxsEvolve
  <2>1. PostedOnce'
    BY <1>2, <1>3 DEF SInv, PostedOnce, Live
  <2> QED
    BY <1>1, <1>2, <1>3, <2>1 DEF SInv, TxsOK, TxsEvolve
<1>5. RowsEvolve /\ \A g : SameNew(g)
  BY <1>2, <1>3, <1>4, RowsHold DEF EditTx, Live
<1> QED
  BY <1>4, <1>5, OwnerKeeps DEF EditTx

LEMMA DeleteKeeps ==
    ASSUME SInv, NEW t \in DOMAIN txs, DeleteTx(t) PROVE SInv'
<1>1. /\ txs \in Seq(Tx) /\ txs[t] \in Tx /\ Len(txs) \in Nat
      /\ rows \in Seq(StatementRow) /\ \A r \in DOMAIN rows : rows[r] \in StatementRow
  BY Domains DEF SInv, TxsOK, RowsOK
<1>2. PICK tx \in Tx : tx = [txs[t] EXCEPT !.live = FALSE]
  BY <1>1 DEF Tx
<1>3. /\ txs' = [txs EXCEPT ![t] = tx] /\ ~tx.live
      /\ tx.ref = txs[t].ref /\ tx.file = txs[t].file /\ tx.pos = txs[t].pos
  BY <1>1, <1>2 DEF DeleteTx, Tx
<1>4. /\ txs' \in Seq(Tx) /\ Len(txs') = Len(txs)
      /\ DOMAIN txs' = DOMAIN txs /\ txs'[t] = tx
      /\ \A o \in DOMAIN txs : o # t => txs'[o] = txs[o]
  BY <1>1, <1>3, ExceptSeq
<1>5. TxsEvolve
  <2>1. PostedOnce'
    BY <1>3, <1>4 DEF SInv, PostedOnce, Live
  <2> QED
    BY <1>1, <1>3, <1>4, <2>1 DEF SInv, TxsOK, TxsEvolve
<1>6. DOMAIN rows' = DOMAIN rows /\ rows' = [r \in DOMAIN rows' |-> rows'[r]]
  BY DEF DeleteTx
<1>7. ASSUME NEW r \in DOMAIN rows
      PROVE  /\ rows'[r] \in StatementRow
             /\ rows'[r].file = rows[r].file /\ rows'[r].pos = rows[r].pos
             /\ rows'[r].decision = rows[r].decision
             /\ rows'[r].tx = IF rows[r].tx = t THEN 0 ELSE rows[r].tx
             /\ rows'[r].candidates = rows[r].candidates \ {t}
  BY <1>1 DEF DeleteTx, StatementRow
<1>8. RowsEvolve /\ rows' \in Seq(StatementRow) /\ Len(rows') = Len(rows)
  <2>1. ASSUME NEW r \in DOMAIN rows
        PROVE  /\ rows[r].tx # 0 => rows[r].tx \in DOMAIN txs /\ txs[rows[r].tx].live
               /\ \A o \in rows[r].candidates : o \in DOMAIN txs /\ txs[o].live
    BY DEF SInv, RowsOK, Live
  <2>2. ASSUME NEW r \in DOMAIN rows
        PROVE  /\ rows'[r].tx # 0 =>
                     rows'[r].tx \in DOMAIN txs' /\ txs'[rows'[r].tx].live
               /\ \A o \in rows'[r].candidates \ rows[r].candidates :
                     o \in DOMAIN txs' /\ txs'[o].file # rows[r].file
               /\ \A o \in rows'[r].candidates : txs'[o].live
    BY <1>4, <1>7, <2>1
  <2> QED
    BY <1>5, <1>6, <1>7, <2>2, RowsChanged
<1>9. \A g : SameNew(g)
  <2> SUFFICES ASSUME NEW g PROVE Decided(rows', g, "new") = Decided(rows, g, "new")
    BY DEF SameNew
  <2>1. \A r \in DOMAIN rows' :
           rows'[r].file = g /\ rows'[r].decision = "new" <=>
              r \in DOMAIN rows /\ rows[r].file = g /\ rows[r].decision = "new"
    BY <1>6, <1>7
  <2> QED
    BY <1>1, <1>8, <2>1, DecidedSame
<1> QED
  BY <1>5, <1>8, <1>9, OwnerKeeps DEF DeleteTx

-----------------------------------------------------------------------------
(* The invariant holds.                                                       *)

LEMMA InitHolds == Init => SInv
<1> SUFFICES ASSUME Init PROVE SInv
  OBVIOUS
<1>1. TxsOK /\ RowsOK /\ PostedOnce
  BY DEF Init, TxsOK, RowsOK, PostedOnce
<1>2. ImportsOK
  BY FreshIsSound DEF Init, ImportsOK
<1>3. UploadsOK
  BY DEF Init, UploadsOK, UploadRow
<1>4. RowsCovered
  BY DEF Init, RowsCovered, Fresh
<1>5. CountsOK
  <2> SUFFICES ASSUME NEW f \in Files PROVE Counted(f)
    BY DEF CountsOK
  <2>1. Countable(f) = {} /\ {r \in DOMAIN rows : rows[r].file = f /\ rows[r].decision = "new"} = {}
    BY DEF Init, Countable
  <2>2. Count(f) = 0 /\ New(f) = 0
    BY <2>1, FS_EmptySet DEF Count, New, Decided
  <2> QED
    BY <2>2 DEF Init, Counted, Fresh
<1> QED
  BY <1>1, <1>2, <1>3, <1>4, <1>5 DEF SInv

LEMMA NextKeeps == SInv /\ [Next]_vars => SInv'
<1> SUFFICES ASSUME SInv, [Next]_vars PROVE SInv'
  OBVIOUS
<1>1. CASE OwnerStep
  <2>1. ASSUME NEW f \in Files, UploadFile(f) PROVE SInv'
    BY <2>1, CountersKeep
  <2>2. ASSUME NEW r \in DOMAIN rows, NEW t \in rows[r].candidates, DecideLinked(r, t)
        PROVE  SInv'
    BY <2>2, LinkKeeps
  <2>3. ASSUME NEW r \in DOMAIN rows, LinkIfUnique(r) PROVE SInv'
    BY <2>3, LinkKeeps DEF LinkIfUnique, Current
  <2>4. ASSUME NEW r \in DOMAIN rows, DecideNew(r) \/ ReviseToNew(r) PROVE SInv'
    BY <2>4, NewKeeps
  <2>5. CASE AddTx
    BY <2>5, AddKeeps
  <2>6. ASSUME NEW t \in DOMAIN txs, EditTx(t) \/ DeleteTx(t) PROVE SInv'
    BY <2>6, EditKeeps, DeleteKeeps
  <2> QED
    BY <1>1, <2>1, <2>2, <2>3, <2>4, <2>5, <2>6 DEF OwnerStep
<1>2. ASSUME NEW f \in Files, ImportStep(f) PROVE SInv'
  BY <1>2, CountersKeep, SkipKeeps, SaveKeeps, AdoptKeeps, PostKeeps DEF ImportStep
<1>3. ASSUME NEW f \in Files, ExpireUpload(f) \/ PurgePdf(f) \/ CleanUpload(f)
      PROVE  SInv'
  BY <1>3, ExpireOrPurgeKeeps, CleanKeeps
<1>4. CASE UNCHANGED vars
  <2>1. UNCHANGED <<rows, txs>> /\ UNCHANGED <<uploads, imports>>
    BY <1>4 DEF vars
  <2> QED
    BY <2>1, Still, OwnerKeeps
<1> QED
  BY <1>1, <1>2, <1>3, <1>4 DEF Next

(* Every import keeps to its rows, and its counters to the transactions made. *)
THEOREM StatementsInvariant == Spec => []SInv
BY InitHolds, NextKeeps, PTL DEF Spec

-----------------------------------------------------------------------------
(* What follows from it.                                                      *)

LEMMA InvTyped == SInv => StatementsTypeOK
<1> SUFFICES ASSUME SInv PROVE StatementsTypeOK
  OBVIOUS
<1>1. ASSUME NEW f \in Files PROVE uploads[f] \in Upload
  <2>1. Count(f) \in Nat /\ Count(f) <= MaxTxs
    BY CountIsNat, Domains DEF SInv, TxsOK
  <2>2. uploads[f].imported <= Count(f)
    BY DEF SInv, CountsOK, Counted
  <2>3. uploads[f] \in UploadRow
    BY UploadFields
  <2> QED
    BY <2>1, <2>2, <2>3 DEF UploadRow, Upload
<1>2. uploads \in [Files -> Upload]
  BY <1>1 DEF SInv, UploadsOK
<1> QED
  BY <1>2 DEF SInv, TxsOK, RowsOK, ImportsOK, StatementsTypeOK, Live

(* Uploads, rows, transactions and imports keep their types, the counters of  *)
(* an upload the bound on transactions, and no row names a deleted one.       *)
THEOREM StatementsTypeCorrect == Spec => []StatementsTypeOK
BY StatementsInvariant, InvTyped, PTL

(* The unique constraints and the duplicate check keep one transaction for    *)
(* each of the bank's identifiers and for each row without one.               *)
THEOREM ImportsPostOnce == Spec => []PostedOnce
<1>1. SInv => PostedOnce
  BY DEF SInv
<1> QED
  BY <1>1, StatementsInvariant, PTL

LEMMA InvCounts == SInv => ImportedNotOverstated
BY DEF SInv, CountsOK, Counted, Count, Countable, ImportedNotOverstated

(* No interleaving of imports, retries and decisions makes an upload claim    *)
(* more operations than have had transactions made for them.                  *)
THEOREM CountsNeverOverstate == Spec => []ImportedNotOverstated
BY StatementsInvariant, InvCounts, PTL

LEMMA FinishedCovers ==
    ASSUME SInv, NEW f \in Files, imports[f].step = "finish", NEW p \in Positions
    PROVE  Covered(f, p)
<1>1. imports[f].next > RowCount /\ imports[f].next \in Nat
  BY DEF SInv, ImportsOK, Sound, Import
<1>2. p \in 1 .. imports[f].next - 1
  BY <1>1 DEF Positions
<1> QED
  BY <1>2 DEF SInv, RowsCovered

(* An import that gets to its end has left no row of its file out.            *)
THEOREM FinishedLeavesNoneOut == Spec => FinishedCoversAll
<1>1. SInv => \A f \in Files :
          imports[f].step = "finish" /\ imports'[f].step # "finish"
                                     /\ imports'[f].step \in {"awaiting", "completed"}
            => \A p \in Positions :
                \/ \E t \in DOMAIN txs :
                      txs[t].ref = p \/ (txs[t].file = f /\ txs[t].pos = p)
                \/ \E r \in RowsOf(f) : rows[r].pos = p
  BY FinishedCovers DEF Covered
<1> QED
  BY <1>1, StatementsInvariant, PTL DEF FinishedCoversAll

-----------------------------------------------------------------------------
(* How the decision of one row may change in one step.                        *)
Decision(r) ==
    \/ rows'[r].decision = rows[r].decision
    \/ rows[r].decision = "pending" /\ rows'[r].decision \in {"expired", "new"}
    \/ rows[r].decision = "linked" /\ rows'[r].decision = "new"
    \/ /\ rows[r].decision = "pending" /\ rows'[r].decision = "linked"
       /\ rows'[r].tx \in Current(r)

LEMMA DecidedRow ==
    ASSUME SInv, NEW r \in DOMAIN rows, NEW o \in DOMAIN rows,
           NEW decision, NEW tx,
           rows' = [rows EXCEPT ![o].decision = decision, ![o].tx = tx],
           \/ decision = "new" /\ rows[o].decision \in {"pending", "linked"}
           \/ decision = "linked" /\ rows[o].decision = "pending" /\ tx \in Current(o)
    PROVE  Decision(r)
<1>1. rows \in Seq(StatementRow) /\ rows[o] \in StatementRow
  BY Domains DEF SInv, RowsOK
<1>2. /\ r # o => rows'[r] = rows[r]
      /\ rows'[o].decision = decision /\ rows'[o].tx = tx
  BY <1>1 DEF StatementRow
<1> QED
  BY <1>2 DEF Decision

LEMMA DecisionSteps ==
    ASSUME SInv, [Next]_vars, NEW r \in DOMAIN rows PROVE Decision(r)
<1>1. CASE UNCHANGED rows
  BY <1>1 DEF Decision
<1>2. ASSUME NEW o \in DOMAIN rows, NEW t \in rows[o].candidates, DecideLinked(o, t)
      PROVE  Decision(r)
  BY <1>2, DecidedRow DEF DecideLinked, Decide
<1>3. ASSUME NEW o \in DOMAIN rows, DecideNew(o) \/ ReviseToNew(o)
      PROVE  Decision(r)
  BY <1>3, DecidedRow DEF DecideNew, ReviseToNew, Decide
<1>4. ASSUME NEW t \in DOMAIN txs, DeleteTx(t) PROVE Decision(r)
  <2>1. rows[r] \in StatementRow
    BY Domains DEF SInv
  <2> QED
    BY <1>4, <2>1 DEF DeleteTx, Decision, StatementRow
<1>5. ASSUME NEW f \in Files, SaveRow(f) PROVE Decision(r)
  <2>1. rows[r] \in StatementRow /\ rows \in Seq(StatementRow)
    BY Domains DEF SInv, RowsOK
  <2>2. PICK p : p = imports[f].next
    OBVIOUS
  <2> DEFINE known == {q \in RowsOf(f) : rows[q].pos = p /\ ~rows[q].wiped}
  <2>3. CASE known = {}
    <3>1. PICK row : rows' = Append(rows, row)
      BY <1>5, <2>2, <2>3 DEF SaveRow
    <3> QED
      BY <2>1, <3>1 DEF Decision
  <2>4. CASE known # {}
    <3>1. rows' = [q \in DOMAIN rows |->
            IF q \in known
            THEN [rows[q] EXCEPT !.candidates = @ \cup ProbableDuplicates(f)]
            ELSE rows[q]]
      BY <1>5, <2>2, <2>4 DEF SaveRow
    <3> HIDE DEF known
    <3>2. CASE r \in known
      BY <2>1, <3>1, <3>2 DEF Decision, StatementRow
    <3>3. CASE r \notin known
      BY <2>1, <3>1, <3>3 DEF Decision
    <3> QED
      BY <3>2, <3>3
  <2> QED
    BY <2>3, <2>4
<1>6. ASSUME NEW f \in Files, CleanUpload(f) PROVE Decision(r)
  <2>1. rows[r] \in StatementRow
    BY Domains DEF SInv
  <2> QED
    BY <1>6, <2>1 DEF CleanUpload, Decision, StatementRow
<1>7. CASE OwnerStep
  BY <1>1, <1>2, <1>3, <1>4, <1>7
     DEF OwnerStep, UploadFile, LinkIfUnique, Current, AddTx, EditTx
<1>8. ASSUME NEW f \in Files, ImportStep(f) PROVE Decision(r)
  BY <1>1, <1>5, <1>8
     DEF ImportStep, StartImport, ParseFails, SkipRow, AdoptLegacy, ClassifyRow,
         PostRow, SaveCounters, FindWaiting, SaveStatus, RefreshCounts, ImportFails,
         WorkerDies
<1>9. ASSUME NEW f \in Files, ExpireUpload(f) \/ PurgePdf(f) \/ CleanUpload(f)
      PROVE  Decision(r)
  BY <1>1, <1>6, <1>9 DEF ExpireUpload, PurgePdf
<1> QED
  BY <1>1, <1>7, <1>8, <1>9 DEF Next, vars

(* Neither an import nor the cleanup takes a decision of the owner back.      *)
THEOREM DecisionsStay == Spec => DecisionsFinal
<1>1. SInv /\ [Next]_vars =>
        \A r \in DOMAIN rows :
            rows'[r].decision # rows[r].decision =>
                \/ rows[r].decision = "pending"
                \/ rows[r].decision = "linked" /\ rows'[r].decision = "new"
  BY DecisionSteps DEF Decision
<1> QED
  BY <1>1, StatementsInvariant, PTL DEF Spec, DecisionsFinal

(* A row is linked to a live equal of another file only.                      *)
THEOREM LinksAreEqual == Spec => LinkedToEqual
<1>1. SInv /\ [Next]_vars =>
        \A r \in DOMAIN rows :
            rows'[r].decision = "linked" /\ rows[r].decision # "linked" =>
                LET t == rows'[r].tx
                IN  t # 0 /\ Live(t) /\ txs[t].alike /\ txs[t].file # rows[r].file
  <2> SUFFICES ASSUME SInv, [Next]_vars, NEW r \in DOMAIN rows,
                      rows'[r].decision = "linked", rows[r].decision # "linked"
               PROVE  LET t == rows'[r].tx
                      IN  t # 0 /\ Live(t) /\ txs[t].alike /\ txs[t].file # rows[r].file
    OBVIOUS
  <2>1. rows'[r].tx \in Current(r)
    BY DecisionSteps DEF Decision
  <2>2. 0 \notin DOMAIN txs
    BY Domains DEF SInv
  <2> QED
    BY <2>1, <2>2 DEF SInv, RowsOK, Current
<1> QED
  BY <1>1, StatementsInvariant, PTL DEF Spec, LinkedToEqual

=============================================================================
