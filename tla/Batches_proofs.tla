--------------------------- MODULE Batches_proofs ---------------------------
(***************************************************************************)
(* Proofs about Batches: that the counters, the judgements and the         *)
(* validation results agree with what is stored, and that a row is marked  *)
(* deleted when its snapshot was emptied, for any configurations, records, *)
(* failures and cleanings.                                                 *)
(***************************************************************************)
EXTENDS Batches, FiniteSetTheorems, TLAPS

-----------------------------------------------------------------------------
(* The invariants. *)

\* The worker and its rows.
WorkerOK ==
  /\ table \in [Snapshots -> RowType] /\ mem \in RowType
  /\ pc \in Steps /\ current \in Snapshots \union {0}
  /\ pc # "idle" => current # 0
  /\ spoiled \subseteq Snapshots /\ cleaned \subseteq Snapshots

\* The record in hand: nothing, one that is to be saved with what was found of
\* it, or one that is saved and whose results are to be.
HandOK ==
  /\ hand.step \in {"nothing", "save", "explain"}
  /\ hand.step = "nothing" => hand = Nothing
  /\ hand.step # "nothing" => pc = "batch"
  /\ hand.step = "save" =>
       /\ hand.unsaved = hand.published /\ hand.published \subseteq Checked
       /\ hand.status = IF hand.published = {} THEN "VALID" ELSE "INVALID"
  /\ hand.step = "explain" =>
       hand = [step |-> "explain", unsaved |-> hand.unsaved]

\* What the administrator's transaction has read, and that it has cleaned what
\* it is about to write.
AdminOK ==
  /\ admin.step \in {"nothing", "find", "clean"}
  /\ admin.step = "nothing" => admin = Nothing
  /\ admin.step = "find" => admin = [step |-> "find", copies |-> admin.copies]
  /\ admin.step = "clean" =>
       /\ admin = Cleaning(admin.copies, admin.uncleaned, admin.excess)
       /\ DOMAIN admin.copies \subseteq cleaned \union admin.uncleaned
       /\ admin.uncleaned \subseteq DOMAIN admin.copies
  /\ admin.step # "nothing" =>
       \A s \in DOMAIN admin.copies : s \in Snapshots /\ admin.copies[s].row \in RowType

\* Records and results are of the runs so far, and those of this run are
\* numbered by its counter; the number of the record to be saved is free.
Placed(snapshot, number) ==
  /\ snapshot \in Snapshots /\ number \in Nat
  /\ snapshot <= current
  /\ snapshot = current =>
       number <= mem.size /\ (hand.step = "save" => number # mem.size)

PlacesOK ==
  /\ IsFiniteSet(records)
  /\ \A r \in records : Placed(r.snapshot, r.number)
  /\ \A v \in results : Placed(v.snapshot, v.number)

BInv == WorkerOK /\ HandOK /\ AdminOK /\ PlacesOK

\* A run of this worker that has ended.
Over(s) == s <= current /\ (s = current => pc = "idle")

\* Snapshots have rows from their run on, and the worker's own says what the
\* worker remembers, unless its run and a cleaning overlapped.
RowsMarked ==
  /\ ~mem.deleted /\ DOMAIN statistics = Snapshots
  /\ \A s \in Snapshots : s > current => table[s] = NoRow
  /\ \A s \in Snapshots : table[s].deleted => s \in cleaned
  /\ current # 0 /\ current \notin Overlapped => table[current].status = mem.status

\* What the transaction read of a run that was over is still so; the others that
\* it has emptied are known to overlap.
ReadingsMarked ==
  /\ admin.step # "nothing" =>
       \A s \in DOMAIN admin.copies :
         /\ s <= current
         /\ ~admin.copies[s].running => Over(s) /\ table[s] = admin.copies[s].row
  /\ admin.step = "clean" =>
       \A s \in DOMAIN admin.copies \ admin.uncleaned :
         admin.copies[s].running => s \in Overlapped

\* A snapshot that was only cleaned after its run is empty for good, and marked so
\* or about to be.
Emptied(s) ==
  /\ Over(s) /\ Stored(s) = {} /\ statistics[s] = NoStatistics
  /\ \A v \in results : v.snapshot # s
  /\ table[s].deleted \/ (admin.step = "clean" /\ s \in DOMAIN admin.copies)

MarkInv ==
  RowsMarked /\ ReadingsMarked /\ \A s \in cleaned \ Overlapped : Emptied(s)

\* The counters in the worker's memory are ahead of what is stored by the
\* record in hand.
ValidIn(s) == {r \in Stored(s) : r.status = "VALID"}
TransformedIn(s) == {r \in ValidIn(s) : r.wasTransformed}
One(b) == IF b THEN 1 ELSE 0
ToSave == hand.step = "save"
ToSaveValid == ToSave /\ hand.status = "VALID"
ToSaveTransformed == ToSaveValid /\ hand.wasTransformed

MemoryMatches ==
  current # 0 =>
    /\ Cardinality(Stored(current)) + One(ToSave) <= mem.size
    /\ Cardinality(ValidIn(current)) + One(ToSaveValid) <= mem.validSize
    /\ current \notin spoiled \union cleaned =>
         /\ mem.size = Cardinality(Stored(current)) + One(ToSave)
         /\ mem.validSize = Cardinality(ValidIn(current)) + One(ToSaveValid)
         /\ mem.transformedSize =
              Cardinality(TransformedIn(current)) + One(ToSaveTransformed)

RowsMatch ==
  \A s \in Rows \ (spoiled \union cleaned) :
    (s = current => pc # "batch") => Matches(table[s], s)

SizesInv == MemoryMatches /\ RowsMatch

\* What is told of a record is its faults, but for those still in hand.
Told(r) ==
  {v.field : v \in {v \in results : v.snapshot = r.snapshot /\ v.number = r.number}}
InHand(r) ==
  hand.step = "explain" /\ r.snapshot = current /\ r.number = mem.size

JudgedInv ==
  \A r \in records :
    /\ r.status = "VALID" <=> r.faults = {}
    /\ InHand(r) => hand.unsaved \subseteq r.faults /\ Told(r) = r.faults \ hand.unsaved
    /\ ~InHand(r) => \/ Told(r) = r.faults
                     \/ Told(r) \subseteq r.faults
                        /\ <<r.snapshot, r.number>> \in silent

-----------------------------------------------------------------------------
(* The base invariant. *)

\* Runs are numbered; nothing, a new row and absence have the shapes they need.
LEMMA Numbers ==
  /\ Snapshots \subseteq Nat /\ 0 \notin Snapshots
  /\ \A s \in Snapshots : \A t \in Nat : t # 0 /\ t <= s => t \in Snapshots
  /\ \A s \in Snapshots \union {0} :
       s < Cardinality(Snapshots) => s + 1 \in Snapshots
<1>1. Cardinality(Snapshots) \in Nat
  BY BatchesAssumption, FS_CardinalityType
<1>2. Snapshots = 1..Cardinality(Snapshots)
  BY BatchesAssumption
<1>3. QED
  BY <1>1, <1>2

LEMMA RowTypes == NewRow \in RowType /\ NoRow \in RowType /\ NewRow # NoRow
  BY DEF NewRow, NoRow, Row, RowType, Statuses

LEMMA InitBInv == Init => BInv
<1> SUFFICES ASSUME Init PROVE BInv
  OBVIOUS
<1>1. WorkerOK
  BY RowTypes DEF Init, WorkerOK, Steps
<1>2. HandOK /\ AdminOK
  BY DEF Init, HandOK, AdminOK, Nothing
<1>3. PlacesOK
  BY FS_EmptySet DEF Init, PlacesOK
<1>4. QED
  BY <1>1, <1>2, <1>3 DEF BInv

\* A step that writes a status, writes the worker's row and goes on.
LEMMA StatusStepBInv ==
  ASSUME BInv, hand = Nothing, pc # "idle",
         NEW from, NEW to \in Steps, NEW status \in Statuses,
         StatusStep(from, status, to)
  PROVE  BInv'
<1> USE DEF BInv, StatusStep, SetStatus, Move, history
<1>1. /\ mem' = [mem EXCEPT !.status = status] /\ mem' \in RowType
      /\ table' \in [Snapshots -> RowType]
  BY DEF WorkerOK, RowType
<1>2. WorkerOK'
  BY <1>1 DEF WorkerOK
<1>3. HandOK' /\ AdminOK'
  BY DEF HandOK, AdminOK, Nothing
<1>4. PlacesOK'
  BY <1>1 DEF PlacesOK, Placed, WorkerOK, RowType
<1>5. QED
  BY <1>2, <1>3, <1>4

\* The steps of run() between the batches.
LEMMA HandIsEmpty ==
  ASSUME BInv, pc # "batch"
  PROVE  hand = Nothing
  BY DEF BInv, HandOK

LEMMA RunBInv ==
  ASSUME BInv, Run
  PROVE  BInv'
<1>1. CASE CreateSnapshot
  <2> USE <1>1 DEF BInv, CreateSnapshot, Move, history
  <2>0. hand = Nothing /\ hand.step = "nothing"
    BY HandIsEmpty DEF Nothing
  <2>1. current \in Nat /\ current' = current + 1 /\ current' \in Snapshots
    BY Numbers DEF WorkerOK
  <2>2. WorkerOK'
    BY <2>1, RowTypes, Numbers DEF WorkerOK, Steps
  <2>3. HandOK' /\ AdminOK'
    BY <2>0 DEF HandOK, AdminOK
  <2>4. ASSUME NEW s, NEW n, Placed(s, n) PROVE Placed(s, n)'
    BY <2>0, <2>1, <2>4, Numbers DEF Placed
  <2>5. PlacesOK'
    BY <2>4 DEF PlacesOK
  <2>6. QED
    BY <2>2, <2>3, <2>5
<1>2. CASE BeginHarvest \/ Retry \/ FatalError \/ Indexed
  BY <1>2, StatusStepBInv, HandIsEmpty
  DEF BeginHarvest, Retry, FatalError, Indexed, StatusStep, Move, Steps, Statuses
<1>3. CASE EndHarvest
  <2>1. hand = Nothing /\ pc = "harvesting" /\ pc' \in {"ending", "closing"}
    BY <1>3, HandIsEmpty DEF EndHarvest
  <2>2. QED
    BY <1>3, <2>1
    DEF EndHarvest, BInv, WorkerOK, HandOK, AdminOK, PlacesOK, Placed, Steps, history,
        Nothing
<1>4. CASE Publish
  <2>1. hand = Nothing /\ pc # "idle"
    BY <1>4, HandIsEmpty DEF Publish, StatusStep, Move
  <2>2. CASE Move("closing", "ending") /\ UNCHANGED <<table, records, results,
               current, mem, hand, admin, history>>
    BY <2>1, <2>2 DEF Move, BInv, WorkerOK, HandOK, AdminOK, PlacesOK, Placed,
                      Steps, history, Nothing
  <2>3. QED
    BY <1>4, <2>1, <2>2, StatusStepBInv DEF Publish, Steps, Statuses
<1>5. CASE EndRun
  <2>1. hand = Nothing /\ pc = "ending"
    BY <1>5, HandIsEmpty DEF EndRun, StatusStep, Move
  <2>2. mem' = mem /\ table' \in [Snapshots -> RowType]
    BY <1>5 DEF EndRun, StatusStep, SetStatus, BInv, WorkerOK, RowType
  <2>3. QED
    BY <1>5, <2>1, <2>2
    DEF EndRun, StatusStep, SetStatus, Move, BInv, WorkerOK, HandOK, AdminOK,
        PlacesOK, Placed, Steps, history, Nothing
<1>6. QED
  BY <1>1, <1>2, <1>3, <1>4, <1>5 DEF Run

\* A record examined: it is counted, and its number is new.
LEMMA ExaminedFacts ==
  ASSUME NEW metadata
  PROVE  LET record == Examined(metadata) IN
         /\ record.step = "save"
         /\ record.unsaved = record.published /\ record.published \subseteq Checked
         /\ record.status = IF record.published = {} THEN "VALID" ELSE "INVALID"
  BY DEF Examined, Faults

\* Counting a record changes the counters of what is valid, by one at most.
LEMMA CountedFacts ==
  ASSUME NEW counters \in RowType, NEW record
  PROVE  LET c == Counted(counters, record)
             v == One(record.status = "VALID")
         IN /\ c \in RowType /\ c.size = counters.size /\ c.status = counters.status
            /\ c.validSize = counters.validSize + v
            /\ c.transformedSize =
                 counters.transformedSize + (IF record.wasTransformed THEN v ELSE 0)
<1> DEFINE v == One(record.status = "VALID")
           t == IF record.wasTransformed THEN v ELSE 0
<1>1. v \in Nat /\ t \in Nat
  BY DEF One
<1>2. Counted(counters, record) =
        [counters EXCEPT !.validSize = @ + v, !.transformedSize = @ + t]
  BY DEF Counted, One
<1> DEFINE c == Counted(counters, record)
<1>3. /\ c \in RowType /\ c.size = counters.size /\ c.status = counters.status
      /\ c.validSize = counters.validSize + v
      /\ c.transformedSize = counters.transformedSize + t
  <2> HIDE DEF v, t
  <2>1. counters.validSize \in Nat /\ counters.transformedSize \in Nat
    BY DEF RowType
  <2>2. counters.validSize + v \in Nat /\ counters.transformedSize + t \in Nat
    BY <1>1, <2>1
  <2>3. QED
    BY <1>2, <2>2 DEF RowType
<1>4. QED
  BY <1>3

LEMMA ExamineBInv ==
  ASSUME BInv, NEW metadata, Examine(metadata), current \in Snapshots
  PROVE  BInv'
<1> DEFINE record == Examined(metadata)
           arrived == [mem EXCEPT !.size = @ + 1]
<1>1. /\ hand = Nothing /\ pc = "batch" /\ UNCHANGED <<pc, current, table, records,
             results, admin, cleaned>>
      /\ \/ hand' = record /\ mem' = Counted(arrived, record) /\ spoiled' = spoiled
         \/ hand' = hand /\ mem' = arrived /\ spoiled' = spoiled \union {current}
  BY DEF Examine, database
<1>2. arrived \in RowType /\ arrived.size = mem.size + 1
  BY DEF BInv, WorkerOK, RowType
<1>3. Counted(arrived, record) \in RowType
      /\ Counted(arrived, record).size = mem.size + 1
  BY <1>2, CountedFacts
<1>4. mem' \in RowType /\ mem'.size = mem.size + 1 /\ mem.size \in Nat
  BY <1>1, <1>2, <1>3 DEF BInv, WorkerOK, RowType
<1>5. hand'.step \in {"nothing", "save"}
      /\ (hand'.step = "nothing" => hand' = Nothing)
  BY <1>1, ExaminedFacts DEF Nothing
<1> HIDE DEF record, arrived
<1>6. WorkerOK'
  BY <1>1, <1>4 DEF BInv, WorkerOK
<1>7. HandOK'
  <2>1. CASE hand' = record
    BY <1>1, <2>1, ExaminedFacts DEF HandOK, record
  <2>2. CASE hand' = Nothing
    BY <1>1, <2>2 DEF HandOK, Nothing
  <2>3. QED
    BY <1>1, <2>1, <2>2
<1>8. AdminOK'
  BY <1>1 DEF BInv, AdminOK
<1>9. ASSUME NEW s, NEW n, Placed(s, n) PROVE Placed(s, n)'
  BY <1>1, <1>4, <1>9 DEF Placed
<1>10. PlacesOK'
  BY <1>1, <1>9 DEF BInv, PlacesOK
<1>11. QED
  BY <1>6, <1>7, <1>8, <1>10 DEF BInv

\* The steps that store what is in hand.
LEMMA SaveRecordBInv ==
  ASSUME BInv, SaveRecord
  PROVE  BInv'
<1> USE DEF BInv, SaveRecord, history
<1> DEFINE new == [snapshot |-> current, number |-> mem.size, status |-> hand.status,
                   wasTransformed |-> hand.wasTransformed, faults |-> hand.published]
<1>1. /\ UNCHANGED <<table, pc, current, mem, spoiled, cleaned, admin, results>>
      /\ records' = records \union {new} /\ pc = "batch" /\ current \in Snapshots
      /\ mem.size \in Nat
      /\ hand' = Nothing \/ hand' = [step |-> "explain", unsaved |-> hand.unsaved]
  BY DEF WorkerOK, HandOK, RowType
<1>2. WorkerOK'
  BY <1>1 DEF WorkerOK
<1>3. HandOK'
  BY <1>1 DEF HandOK, Nothing
<1>4. AdminOK'
  BY <1>1 DEF AdminOK
<1>5. hand'.step # "save"
  BY <1>1 DEF Nothing
<1>6. ASSUME NEW s, NEW n, Placed(s, n) PROVE Placed(s, n)'
  BY <1>1, <1>5, <1>6 DEF Placed
<1>7. Placed(current, mem.size)'
  BY <1>1, <1>5, Numbers DEF Placed
<1>8. PlacesOK'
  <2>1. IsFiniteSet(records')
    BY <1>1, FS_AddElement DEF PlacesOK
  <2>2. \A r \in records' : Placed(r.snapshot, r.number)'
    BY <1>1, <1>6, <1>7 DEF PlacesOK
  <2>3. \A v \in results' : Placed(v.snapshot, v.number)'
    BY <1>1, <1>6 DEF PlacesOK
  <2>4. QED
    BY <2>1, <2>2, <2>3 DEF PlacesOK
<1>9. QED
  BY <1>2, <1>3, <1>4, <1>8

LEMMA SaveResultBInv ==
  ASSUME BInv, NEW f \in Checked, SaveResult(f)
  PROVE  BInv'
<1> USE DEF BInv, SaveResult, history
<1>1. /\ UNCHANGED <<table, pc, current, mem, spoiled, cleaned, admin, records>>
      /\ results' = results \union
           {[snapshot |-> current, number |-> mem.size, field |-> f]}
      /\ pc = "batch" /\ current \in Snapshots
      /\ mem.size \in Nat
      /\ hand' = Nothing
         \/ hand' = [step |-> "explain", unsaved |-> hand.unsaved \ {f}]
  <2>1. hand = [step |-> "explain", unsaved |-> hand.unsaved]
    BY DEF HandOK
  <2>2. QED
    BY <2>1 DEF WorkerOK, HandOK, RowType
<1>2. WorkerOK'
  BY <1>1 DEF WorkerOK
<1>3. HandOK'
  BY <1>1 DEF HandOK, Nothing
<1>4. AdminOK'
  BY <1>1 DEF AdminOK
<1>5. hand'.step # "save"
  BY <1>1 DEF Nothing
<1>6. ASSUME NEW s, NEW n, Placed(s, n) PROVE Placed(s, n)'
  BY <1>1, <1>5, <1>6 DEF Placed
<1>7. Placed(current, mem.size)'
  BY <1>1, <1>5, Numbers DEF Placed
<1>8. PlacesOK'
  BY <1>1, <1>6, <1>7 DEF PlacesOK
<1>9. QED
  BY <1>2, <1>3, <1>4, <1>8

LEMMA BatchBInv ==
  ASSUME BInv, Batch
  PROVE  BInv'
<1>1. CASE BatchArrives
  <2>1. hand = Nothing
    BY <1>1, HandIsEmpty DEF BatchArrives, Move
  <2>2. QED
    BY <1>1, <2>1
    DEF BatchArrives, Move, BInv, WorkerOK, HandOK, AdminOK, PlacesOK, Placed, Steps,
        database, history, Nothing
<1>2. CASE EndBatch
  BY <1>2, StatusStepBInv DEF EndBatch, StatusStep, Move, Steps, Statuses
<1>3. CASE \E s \in Snapshots : \E metadata \in Harvestable[s] :
             s = current /\ Examine(metadata)
  BY <1>3, ExamineBInv
<1>4. CASE SaveRecordFails \/ SaveResultFails
  <2>1. /\ UNCHANGED <<table, pc, current, mem, cleaned, admin, records, results>>
        /\ hand' = Nothing /\ hand.step # "nothing"
        /\ spoiled' = spoiled \/ spoiled' = spoiled \union {current}
    BY <1>4 DEF SaveRecordFails, SaveResultFails, database
  <2>2. pc = "batch" /\ current \in Snapshots
    BY <2>1 DEF BInv, HandOK, WorkerOK
  <2>3. WorkerOK'
    BY <2>1, <2>2 DEF BInv, WorkerOK
  <2>4. HandOK' /\ AdminOK'
    BY <2>1 DEF BInv, HandOK, AdminOK, Nothing
  <2>5. ASSUME NEW s, NEW n, Placed(s, n) PROVE Placed(s, n)'
    BY <2>1, <2>5 DEF Placed, Nothing
  <2>6. PlacesOK'
    BY <2>1, <2>5 DEF BInv, PlacesOK
  <2>7. QED
    BY <2>3, <2>4, <2>6 DEF BInv
<1>5. CASE SaveRecord
  BY <1>5, SaveRecordBInv
<1>6. CASE \E f \in Checked : SaveResult(f)
  BY <1>6, SaveResultBInv
<1>7. QED
  BY <1>1, <1>2, <1>3, <1>4, <1>5, <1>6 DEF Batch

\* The steps of the administrator.
LEMMA AdministratorBInv ==
  ASSUME BInv, Administrator
  PROVE  BInv'
<1>1. CASE UNCHANGED <<table, records, results, conf, pc, current, mem, hand, spoiled,
                       cleaned>>
      /\ AdminOK'
  BY <1>1 DEF BInv, WorkerOK, HandOK, PlacesOK, Placed
<1>2. ASSUME NEW S, S \subseteq Snapshots
      PROVE  /\ DOMAIN Copies(S) = S
             /\ \A s \in S : Copies(S)[s].row = table[s] /\ table[s] \in RowType
  BY <1>2 DEF Copies, BInv, WorkerOK
<1>3. ASSUME NEW s \in Snapshots, DeleteRecordsBySnapshotID(s)
      PROVE  BInv'
  <2>1. UNCHANGED <<database, worker, history>>
        /\ admin' = Cleaning(Copies({s}), {s}, FALSE)
    BY <1>3 DEF DeleteRecordsBySnapshotID
  <2>2. DOMAIN Copies({s}) = {s} /\ Copies({s})[s].row \in RowType
    BY <1>2
  <2>3. AdminOK'
    BY <2>1, <2>2 DEF AdminOK, Cleaning
  <2>4. QED
    BY <1>1, <2>1, <2>3 DEF database, worker, history
<1>4. CASE DeleteAllButLGK
  <2>1. UNCHANGED <<database, worker, history>>
        /\ admin' = [step |-> "find", copies |-> Copies(Rows)]
    BY <1>4 DEF DeleteAllButLGK
  <2>2. AdminOK'
    BY <1>2, <2>1 DEF AdminOK, Rows
  <2>3. QED
    BY <1>1, <2>1, <2>2 DEF database, worker, history
<1>5. CASE FindLastGoodKnown
  <2> DEFINE excess == Excess(admin.copies, LastGoodKnown)
             copies == [s \in excess |-> admin.copies[s]]
  <2>1. UNCHANGED <<database, worker, history>> /\ admin.step = "find"
        /\ admin' = Cleaning(copies, excess, TRUE)
    BY <1>5 DEF FindLastGoodKnown
  <2>2. excess \subseteq DOMAIN admin.copies
    BY DEF Excess
  <2> HIDE DEF excess
  <2>3. AdminOK'
    BY <2>1, <2>2 DEF BInv, AdminOK, Cleaning
  <2>4. QED
    BY <1>1, <2>1, <2>3 DEF database, worker, history
<1>6. ASSUME NEW s \in Snapshots, CleanSnapshot(s)
      PROVE  BInv'
  <2>1. /\ UNCHANGED <<table, worker, spoiled>>
        /\ admin.step = "clean" /\ s \in admin.uncleaned
        /\ admin' = [admin EXCEPT !.uncleaned = @ \ {s}]
        /\ records' \subseteq records /\ results' \subseteq results
        /\ cleaned' = cleaned \union {s}
    BY <1>6 DEF CleanSnapshot
  <2>2. WorkerOK' /\ HandOK'
    BY <2>1 DEF BInv, WorkerOK, HandOK, worker
  <2>3. admin' = Cleaning(admin.copies, admin.uncleaned \ {s}, admin.excess)
    BY <2>1 DEF BInv, AdminOK, Cleaning
  <2>4. AdminOK'
    BY <2>1, <2>3 DEF BInv, AdminOK, Cleaning
  <2>5. ASSUME NEW t, NEW n, Placed(t, n) PROVE Placed(t, n)'
    BY <2>1, <2>5 DEF Placed, worker
  <2>6. PlacesOK'
    BY <2>1, <2>5, FS_Subset DEF BInv, PlacesOK
  <2>7. QED
    BY <2>2, <2>4, <2>6 DEF BInv
<1>7. CASE Commit
  <2>1. /\ UNCHANGED <<records, results, worker, history>>
        /\ admin.step = "clean" /\ admin' = Nothing
        /\ table' = [s \in Snapshots |->
                       IF s \in DOMAIN admin.copies
                       THEN [admin.copies[s].row EXCEPT !.deleted = TRUE]
                       ELSE table[s]]
    BY <1>7 DEF Commit
  <2>2. table' \in [Snapshots -> RowType]
    BY <2>1 DEF BInv, WorkerOK, AdminOK, RowType
  <2>3. WorkerOK' /\ HandOK' /\ AdminOK'
    BY <2>1, <2>2 DEF BInv, WorkerOK, HandOK, AdminOK, Nothing, worker, history
  <2>4. PlacesOK'
    BY <2>1 DEF BInv, PlacesOK, Placed, worker
  <2>5. QED
    BY <2>3, <2>4 DEF BInv
<1>8. QED
  BY <1>3, <1>4, <1>5, <1>6, <1>7 DEF Administrator

LEMMA NextBInv ==
  ASSUME BInv, [Next]_vars
  PROVE  BInv'
<1>1. CASE UNCHANGED vars
  BY <1>1 DEF BInv, WorkerOK, HandOK, AdminOK, PlacesOK, Placed, vars, database, worker,
              history
<1>2. QED
  BY <1>1, RunBInv, BatchBInv, AdministratorBInv DEF Next

LEMMA AlwaysBInv == Spec => []BInv
  BY InitBInv, NextBInv, PTL DEF Spec

-----------------------------------------------------------------------------
(* Rows are marked deleted when their snapshots were emptied. *)

\* A step of the worker: it leaves the runs that are over alone.
LEMMA WorkerMarks ==
  ASSUME BInv, MarkInv, UNCHANGED <<admin, cleaned, emptied>>,
         ~mem'.deleted, current' \in Nat, current <= current',
         DOMAIN statistics' = DOMAIN statistics,
         \A s \in Snapshots :
           Over(s) => /\ Over(s)' /\ table'[s] = table[s]
                      /\ statistics'[s] = statistics[s] /\ Stored(s)' = Stored(s)
                      /\ \A v \in results' : v.snapshot = s => v \in results,
         \A s \in Snapshots : table'[s].deleted => table[s].deleted,
         \A s \in Snapshots : s > current' => table'[s] = table[s],
         current' # 0 => \/ table'[current'].status = mem'.status
                         \/ current' = current /\ UNCHANGED <<table, mem>>
  PROVE  MarkInv'
<1>1. Overlapped' = Overlapped
  BY DEF Overlapped
<1>2. current \in Nat /\ cleaned \subseteq Snapshots /\ Snapshots \subseteq Nat
  BY Numbers DEF BInv, WorkerOK
<1>3. RowsMarked'
  <2>1. \A s \in Snapshots : s > current' => table'[s] = NoRow
    <3>1. \A s \in Snapshots : s > current' => s > current
      BY <1>2
    <3>2. QED
      BY <3>1 DEF MarkInv, RowsMarked
  <2>2. \A s \in Snapshots : table'[s].deleted => s \in cleaned
    BY DEF MarkInv, RowsMarked
  <2>3. current' # 0 /\ current' \notin Overlapped => table'[current'].status = mem'.status
    BY DEF MarkInv, RowsMarked
  <2>4. QED
    BY <1>1, <2>1, <2>2, <2>3 DEF MarkInv, RowsMarked
<1>4. admin.step # "nothing" => \A s \in DOMAIN admin.copies : s \in Snapshots
  BY DEF BInv, AdminOK
<1>5. ReadingsMarked'
  <2>1. ASSUME admin.step # "nothing", NEW s \in DOMAIN admin.copies
        PROVE  /\ s <= current'
               /\ ~admin.copies[s].running => Over(s)' /\ table'[s] = admin.copies[s].row
    <3>1. s <= current
          /\ (~admin.copies[s].running => Over(s) /\ table[s] = admin.copies[s].row)
      BY <2>1 DEF MarkInv, ReadingsMarked
    <3>2. s <= current'
      BY <1>2, <1>4, <2>1, <3>1
    <3>3. QED
      BY <1>4, <2>1, <3>1, <3>2
  <2>2. QED
    BY <1>1, <2>1 DEF MarkInv, ReadingsMarked
<1>6. ASSUME NEW s \in cleaned \ Overlapped PROVE Emptied(s)'
  BY <1>2, <1>6 DEF MarkInv, Emptied
<1>7. QED
  BY <1>1, <1>3, <1>5, <1>6 DEF MarkInv

LEMMA StatusStepMarks ==
  ASSUME BInv, MarkInv, NEW from, NEW to, NEW status, StatusStep(from, status, to),
         pc # "idle"
  PROVE  MarkInv'
<1>1. /\ current \in Snapshots /\ current' = current /\ pc' = to
      /\ mem' = [mem EXCEPT !.status = status]
      /\ table' = [table EXCEPT ![current] = mem']
      /\ UNCHANGED <<records, results, statistics, admin, cleaned, emptied>>
  BY DEF BInv, WorkerOK, StatusStep, SetStatus, Move, history
<1>2. /\ table'[current] = mem' /\ ~mem'.deleted
      /\ \A s \in Snapshots : s # current => table'[s] = table[s]
  BY <1>1 DEF BInv, WorkerOK, RowType, MarkInv, RowsMarked
<1>3. ASSUME NEW s \in Snapshots, Over(s) PROVE s # current /\ Over(s)' /\ Stored(s)' = Stored(s)
  BY <1>1, <1>3 DEF Over, Stored
<1>4. current \in Nat
  BY <1>1, Numbers
<1>5. \A s \in Snapshots : table'[s].deleted => table[s].deleted
  BY <1>1, <1>2
<1>6. table'[current'].status = mem'.status
  BY <1>1, <1>2
<1>7. \A s \in Snapshots : s > current' => table'[s] = table[s]
  BY <1>1, <1>2, <1>4
<1>8. QED
  BY <1>1, <1>2, <1>3, <1>4, <1>5, <1>6, <1>7, WorkerMarks

LEMMA RunMarks ==
  ASSUME BInv, MarkInv, Run
  PROVE  MarkInv'
<1>1. CASE CreateSnapshot
  <2>1. /\ UNCHANGED <<records, results, statistics, admin, cleaned, emptied>>
        /\ pc = "idle" /\ mem' = NewRow /\ table' = [table EXCEPT ![current'] = NewRow]
        /\ current \in Nat /\ current' = current + 1 /\ current' \in Snapshots
    BY <1>1, Numbers DEF CreateSnapshot, Move, history, BInv, WorkerOK
  <2>2. /\ table'[current'] = mem' /\ ~mem'.deleted
        /\ \A s \in Snapshots : s # current' => table'[s] = table[s]
    BY <2>1 DEF BInv, WorkerOK, NewRow, Row
  <2>3. ASSUME NEW s \in Snapshots, Over(s)
        PROVE  s # current' /\ Over(s)' /\ Stored(s)' = Stored(s)
    BY <2>1, <2>3, Numbers DEF Over, Stored
  <2>4. QED
    BY <2>1, <2>2, <2>3, WorkerMarks, Numbers
<1>2. CASE BeginHarvest \/ Retry \/ FatalError \/ Indexed \/ EndRun
  BY <1>2, StatusStepMarks
  DEF BeginHarvest, Retry, FatalError, Indexed, EndRun, StatusStep, Move
<1>3. ASSUME pc # "idle", pc' # "idle",
             UNCHANGED <<table, current, mem, records, results, admin, cleaned, emptied>>,
             DOMAIN statistics' = DOMAIN statistics,
             \A s \in Snapshots : s # current => statistics'[s] = statistics[s]
      PROVE  MarkInv'
  <2>1. ASSUME NEW s \in Snapshots, Over(s)
        PROVE  s # current /\ Over(s)' /\ Stored(s)' = Stored(s)
    BY <1>3, <2>1 DEF Over, Stored
  <2>2. ~mem'.deleted /\ current \in Nat
    BY <1>3, Numbers DEF MarkInv, RowsMarked, BInv, WorkerOK
  <2>3. QED
    BY <1>3, <2>1, <2>2, WorkerMarks
<1>4. CASE EndHarvest
  <2>1. /\ DOMAIN statistics' = DOMAIN statistics
        /\ \A s \in Snapshots : s # current => statistics'[s] = statistics[s]
    <3>1. CASE statistics' = statistics
      BY <3>1
    <3>2. CASE statistics' = [statistics EXCEPT ![current] =
                                <<seen.original, seen.transformed>>]
      BY <3>2 DEF MarkInv, RowsMarked
    <3>3. QED
      BY <1>4, <3>1, <3>2 DEF EndHarvest
  <2>2. pc # "idle" /\ pc' # "idle"
        /\ UNCHANGED <<table, current, mem, records, results, admin, cleaned, emptied>>
    BY <1>4 DEF EndHarvest, history
  <2>3. QED
    BY <1>3, <2>1, <2>2
<1>5. CASE Publish
  BY <1>3, <1>5, StatusStepMarks DEF Publish, StatusStep, Move, history
<1>6. QED
  BY <1>1, <1>2, <1>4, <1>5 DEF Run

\* A batch stores for the snapshot of a run that is not over.
LEMMA BatchMarks ==
  ASSUME BInv, MarkInv, Batch
  PROVE  MarkInv'
<1>1. ASSUME pc # "idle", pc' # "idle",
             UNCHANGED <<table, current, statistics, admin, cleaned, emptied>>,
             mem'.status = mem.status, ~mem'.deleted,
             \A s : s # current => Stored(s)' = Stored(s),
             \A v \in results' : v \in results \/ v.snapshot = current
      PROVE  MarkInv'
  <2>1. ASSUME NEW s \in Snapshots, Over(s) PROVE s # current /\ Over(s)'
    BY <1>1, <2>1 DEF Over
  <2>2. current \in Nat /\ cleaned \subseteq Snapshots
    BY Numbers DEF BInv, WorkerOK
  <2>3. Overlapped' = Overlapped
    BY <1>1 DEF Overlapped
  <2>4. RowsMarked'
    BY <1>1, <2>3 DEF MarkInv, RowsMarked
  <2>5. ReadingsMarked'
    BY <1>1, <2>1, <2>3 DEF MarkInv, ReadingsMarked, BInv, AdminOK
  <2>6. ASSUME NEW s \in cleaned \ Overlapped PROVE Emptied(s)'
    BY <1>1, <2>1, <2>2, <2>6 DEF MarkInv, Emptied
  <2>7. QED
    BY <2>3, <2>4, <2>5, <2>6, <1>1 DEF MarkInv
<1>2. ~mem.deleted
  BY DEF MarkInv, RowsMarked
<1>3. CASE BatchArrives
  BY <1>1, <1>2, <1>3 DEF BatchArrives, Move, database, history, Stored
<1>4. CASE EndBatch
  BY <1>4, StatusStepMarks DEF EndBatch, StatusStep, Move
<1>5. ASSUME NEW metadata, Examine(metadata)
      PROVE  MarkInv'
  <2> DEFINE arrived == [mem EXCEPT !.size = @ + 1]
             counted == Counted(arrived, Examined(metadata))
  <2>1. /\ UNCHANGED <<pc, current, table, records, results, statistics, admin, cleaned,
                       emptied>>
        /\ pc = "batch" /\ (mem' = counted \/ mem' = arrived)
    BY <1>5 DEF Examine, database
  <2>2. arrived \in RowType /\ arrived.status = mem.status /\ ~arrived.deleted
    BY <1>2 DEF BInv, WorkerOK, RowType
  <2>3. counted.status = arrived.status /\ counted.deleted = arrived.deleted
    <3> HIDE DEF arrived
    <3> DEFINE record == Examined(metadata)
    <3> HIDE DEF record
    <3>1. Counted(arrived, record).status = arrived.status
          /\ Counted(arrived, record).deleted = arrived.deleted
      BY <2>2 DEF Counted, RowType
    <3>2. QED
      BY <3>1 DEF record
  <2> HIDE DEF arrived, counted
  <2>4. mem'.status = mem.status /\ ~mem'.deleted
    BY <2>1, <2>2, <2>3
  <2>5. QED
    BY <1>1, <2>1, <2>4 DEF Stored
<1>6. CASE SaveRecord \/ SaveRecordFails \/ SaveResultFails
           \/ \E f \in Checked : SaveResult(f)
  <2>1. pc = "batch"
    BY <1>6 DEF BInv, HandOK, SaveRecord, SaveRecordFails, SaveResultFails, SaveResult
  <2>2. UNCHANGED <<pc, mem, table, current, statistics, admin, cleaned, emptied>>
    BY <1>6 DEF SaveRecord, SaveRecordFails, SaveResultFails, SaveResult, database, history
  <2>3. \A s : s # current => Stored(s)' = Stored(s)
    BY <1>6 DEF SaveRecord, SaveRecordFails, SaveResultFails, SaveResult, database, Stored
  <2>4. \A v \in results' : v \in results \/ v.snapshot = current
    BY <1>6 DEF SaveRecord, SaveRecordFails, SaveResultFails, SaveResult, database
  <2>5. QED
    BY <1>1, <1>2, <2>1, <2>2, <2>3, <2>4
<1>7. QED
  BY <1>3, <1>4, <1>5, <1>6 DEF Batch

\* A transaction that begins reads rows as they are.
LEMMA ReadingMarks ==
  ASSUME BInv, MarkInv, NEW S \in SUBSET Rows, admin = Nothing,
         UNCHANGED <<database, worker, history>>,
         \/ admin' = [step |-> "find", copies |-> Copies(S)]
         \/ admin' = Cleaning(Copies(S), S, FALSE)
  PROVE  MarkInv'
<1>1. /\ admin'.copies = Copies(S) /\ admin'.step # "nothing"
      /\ admin'.step = "clean" => admin'.uncleaned = S
  BY DEF Cleaning
<1>2. /\ DOMAIN Copies(S) = S /\ S \subseteq Snapshots
      /\ \A s \in S : /\ Copies(S)[s].row = table[s] /\ s <= current
                      /\ ~Copies(S)[s].running => Over(s)
  <2>1. S \subseteq Snapshots /\ Snapshots \subseteq Nat /\ current \in Nat
    BY Numbers DEF Rows, BInv, WorkerOK
  <2>2. \A s \in S : s <= current
    BY <2>1 DEF Rows, MarkInv, RowsMarked
  <2>3. QED
    BY <2>1, <2>2 DEF Copies, Over
<1>3. RowsMarked' /\ Overlapped' = Overlapped
  BY DEF MarkInv, RowsMarked, Overlapped, database, worker, history
<1>4. ReadingsMarked'
  BY <1>1, <1>2 DEF ReadingsMarked, Over, database, worker
<1>5. \A s \in cleaned \ Overlapped : Emptied(s)'
  BY DEF MarkInv, Emptied, Over, Stored, database, worker, Nothing
<1>6. QED
  BY <1>3, <1>4, <1>5 DEF MarkInv, history

LEMMA CleanSnapshotMarks ==
  ASSUME BInv, MarkInv, NEW s \in Snapshots, CleanSnapshot(s)
  PROVE  MarkInv'
<1>1. /\ UNCHANGED <<table, worker>> /\ admin.step = "clean" /\ s \in admin.uncleaned
      /\ admin' = [admin EXCEPT !.uncleaned = @ \ {s}]
      /\ results' = {v \in results : v.snapshot # s}
      /\ statistics' = [statistics EXCEPT ![s] = NoStatistics]
      /\ records' = records \ Stored(s) /\ cleaned' = cleaned \union {s}
  BY DEF CleanSnapshot
<1>2. admin' = Cleaning(admin.copies, admin.uncleaned \ {s}, admin.excess)
      /\ s \in DOMAIN admin.copies
  BY <1>1 DEF BInv, AdminOK, Cleaning
<1>3. /\ admin'.step = "clean" /\ admin'.copies = admin.copies
      /\ admin'.uncleaned = admin.uncleaned \ {s}
  BY <1>2 DEF Cleaning
<1>4. /\ Overlapped \subseteq Overlapped'
      /\ admin.copies[s].running => s \in Overlapped'
  <2> DEFINE new == [snapshot |-> s, excess |-> admin.excess,
                     status |-> admin.copies[s].row.status,
                     running |-> admin.copies[s].running]
  <2>1. emptied' = emptied \union {new}
    BY DEF CleanSnapshot
  <2>2. new.snapshot = s /\ new.running = admin.copies[s].running
    OBVIOUS
  <2> HIDE DEF new
  <2>3. QED
    BY <2>1, <2>2 DEF Overlapped
<1>5. RowsMarked'
  BY <1>1, <1>4 DEF MarkInv, RowsMarked, worker
<1>6. ReadingsMarked'
  BY <1>1, <1>3, <1>4 DEF MarkInv, ReadingsMarked, Over, worker
<1>7. ASSUME NEW t \in cleaned' \ Overlapped' PROVE Emptied(t)'
  <2>1. CASE t # s
    <3>1. t \in cleaned \ Overlapped
      BY <1>1, <1>4, <1>7, <2>1
    <3>2. Emptied(t) /\ statistics'[t] = statistics[t]
      BY <1>1, <2>1, <3>1 DEF MarkInv
    <3>3. Stored(t)' = {}
      BY <1>1, <3>2 DEF Emptied, Stored
    <3>4. QED
      BY <1>1, <1>3, <3>2, <3>3 DEF Emptied, Over, worker
  <2>2. CASE t = s
    <3>1. Over(s)
      BY <1>1, <1>2, <1>4, <1>7, <2>2 DEF MarkInv, ReadingsMarked
    <3>2. Stored(s)' = {} /\ statistics'[s] = NoStatistics
      BY <1>1 DEF Stored, MarkInv, RowsMarked
    <3>3. QED
      BY <1>1, <1>2, <1>3, <2>2, <3>1, <3>2 DEF Emptied, Over, worker
  <2>3. QED
    BY <2>1, <2>2
<1>8. QED
  BY <1>5, <1>6, <1>7 DEF MarkInv

LEMMA CommitMarks ==
  ASSUME BInv, MarkInv, Commit
  PROVE  MarkInv'
<1>1. /\ UNCHANGED <<records, results, statistics, worker, history>>
      /\ admin.step = "clean" /\ admin.uncleaned = {} /\ admin' = Nothing
      /\ table' = [s \in Snapshots |->
                     IF s \in DOMAIN admin.copies
                     THEN [admin.copies[s].row EXCEPT !.deleted = TRUE]
                     ELSE table[s]]
  BY DEF Commit
<1>2. /\ DOMAIN admin.copies \subseteq cleaned
      /\ \A s \in DOMAIN admin.copies : /\ s \in Snapshots /\ s <= current
                                        /\ admin.copies[s].row \in RowType
      /\ \A s \in DOMAIN admin.copies \ Overlapped : table[s] = admin.copies[s].row
  BY <1>1 DEF BInv, AdminOK, MarkInv, ReadingsMarked
<1>3. \A s \in DOMAIN admin.copies :
        /\ table'[s].deleted
        /\ s \notin Overlapped => table'[s].status = table[s].status
  BY <1>1, <1>2 DEF RowType
<1>4. \A s \in Snapshots \ DOMAIN admin.copies : table'[s] = table[s]
  BY <1>1
<1>5. Overlapped' = Overlapped /\ UNCHANGED <<pc, current, mem, cleaned>>
  BY <1>1 DEF Overlapped, worker, history
<1>6. current \in Snapshots \union {0} /\ Snapshots \subseteq Nat
  BY Numbers DEF BInv, WorkerOK
<1>7. RowsMarked'
  <2>1. \A s \in Snapshots : s > current => table'[s] = NoRow
    BY <1>2, <1>4, <1>6 DEF MarkInv, RowsMarked
  <2>2. \A s \in Snapshots : table'[s].deleted => s \in cleaned
    BY <1>2, <1>4 DEF MarkInv, RowsMarked
  <2>3. current # 0 /\ current \notin Overlapped => table'[current].status = mem.status
    BY <1>3, <1>4, <1>6 DEF MarkInv, RowsMarked
  <2>4. QED
    BY <1>1, <1>5, <2>1, <2>2, <2>3 DEF MarkInv, RowsMarked
<1>8. ReadingsMarked'
  BY <1>1 DEF ReadingsMarked, Nothing
<1>9. ASSUME NEW s \in cleaned \ Overlapped PROVE Emptied(s)'
  <2>1. Emptied(s) /\ s \in Snapshots
    BY <1>9 DEF MarkInv, BInv, WorkerOK
  <2>2. table'[s].deleted
    BY <1>3, <1>4, <2>1 DEF Emptied
  <2>3. QED
    BY <1>1, <1>5, <2>1, <2>2 DEF Emptied, Over, Stored
<1>10. QED
  BY <1>5, <1>7, <1>8, <1>9 DEF MarkInv

LEMMA AdministratorMarks ==
  ASSUME BInv, MarkInv, Administrator
  PROVE  MarkInv'
<1>1. CASE DeleteAllButLGK
  BY <1>1, ReadingMarks DEF DeleteAllButLGK
<1>2. ASSUME NEW s \in Snapshots, DeleteRecordsBySnapshotID(s) PROVE MarkInv'
  BY <1>2, ReadingMarks, {s} \in SUBSET Rows DEF DeleteRecordsBySnapshotID
<1>3. CASE FindLastGoodKnown
  <2> DEFINE excess == Excess(admin.copies, LastGoodKnown)
  <2>1. UNCHANGED <<database, worker, history>> /\ admin.step = "find"
        /\ admin' = Cleaning([s \in excess |-> admin.copies[s]], excess, TRUE)
    BY <1>3 DEF FindLastGoodKnown
  <2>2. excess \subseteq DOMAIN admin.copies
    BY DEF Excess
  <2> HIDE DEF excess
  <2>3. /\ admin'.step = "clean" /\ admin'.uncleaned = excess
        /\ DOMAIN admin'.copies = excess
        /\ \A s \in excess : admin'.copies[s] = admin.copies[s]
    BY <2>1 DEF Cleaning
  <2>4. RowsMarked' /\ Overlapped' = Overlapped
    BY <2>1 DEF MarkInv, RowsMarked, Overlapped, database, worker, history
  <2>5. ReadingsMarked'
    BY <2>1, <2>2, <2>3 DEF MarkInv, ReadingsMarked, Over, database, worker
  <2>6. \A s \in cleaned \ Overlapped : Emptied(s)'
    BY <2>1 DEF MarkInv, Emptied, Over, Stored, database, worker
  <2>7. QED
    BY <2>1, <2>4, <2>5, <2>6 DEF MarkInv, history
<1>4. QED
  BY <1>1, <1>2, <1>3, CleanSnapshotMarks, CommitMarks DEF Administrator

LEMMA AlwaysMarkInv == Spec => []MarkInv
<1>1. Init => MarkInv
  BY DEF Init, MarkInv, RowsMarked, ReadingsMarked, NewRow, NoRow, Row, Nothing
<1>2. BInv /\ MarkInv /\ [Next]_vars => MarkInv'
  <2>1. ASSUME MarkInv, UNCHANGED vars PROVE MarkInv'
    BY <2>1 DEF MarkInv, RowsMarked, ReadingsMarked, Emptied, Overlapped, Over, Stored,
                vars, database, worker, history
  <2>2. QED
    BY <2>1, RunMarks, BatchMarks, AdministratorMarks DEF Next
<1>3. QED
  BY <1>1, <1>2, AlwaysBInv, PTL DEF Spec

\* A row is marked deleted exactly when its snapshot was emptied, and the last
\* run's row has the status the worker gave it, as long as cleanings and runs do
\* not overlap (BackEndController 253-279, SnapshotWorker 594-601).
THEOREM Marking == Spec => []MarkedMeansEmptied
<1>1. BInv /\ MarkInv => MarkedMeansEmptied
  BY Numbers DEF MarkInv, RowsMarked, Emptied, MarkedMeansEmptied, Rows, BInv, WorkerOK
<1>2. QED
  BY <1>1, AlwaysBInv, AlwaysMarkInv, PTL

-----------------------------------------------------------------------------
(* Records are judged, and their faults told, as they are published. *)

\* A step that neither tells nor begins to tell changes nothing of it.
LEMMA StillJudged ==
  ASSUME JudgedInv, UNCHANGED <<records, results, silent>>,
         hand.step # "explain", hand'.step # "explain"
  PROVE  JudgedInv'
  BY DEF JudgedInv, InHand, Told

LEMMA JudgedAlike ==
  ASSUME JudgedInv, UNCHANGED <<records, results, silent, hand, current, mem>>
  PROVE  JudgedInv'
  BY DEF JudgedInv, InHand, Told

LEMMA RunJudges ==
  ASSUME BInv, JudgedInv, Run
  PROVE  JudgedInv'
<1>1. UNCHANGED <<records, results, silent, hand>>
  BY DEF Run, CreateSnapshot, BeginHarvest, Retry, FatalError, EndHarvest, Publish,
         Indexed, EndRun, StatusStep, history
<1>2. pc # "batch"
  BY DEF Run, CreateSnapshot, BeginHarvest, Retry, FatalError, EndHarvest, Publish,
         Indexed, EndRun, StatusStep, Move
<1>3. hand.step # "explain"
  BY <1>2 DEF BInv, HandOK
<1>4. QED
  BY <1>1, <1>3, StillJudged

\* The record saved is new, and nothing has been told of it.
LEMMA SaveRecordJudges ==
  ASSUME BInv, JudgedInv, SaveRecord
  PROVE  JudgedInv'
<1> DEFINE new == [snapshot |-> current, number |-> mem.size, status |-> hand.status,
                   wasTransformed |-> hand.wasTransformed, faults |-> hand.published]
<1>1. /\ hand.step = "save" /\ UNCHANGED <<results, silent, current, mem>>
      /\ records' = records \union {new}
      /\ hand' = IF hand.unsaved = {} THEN Nothing
                 ELSE [step |-> "explain", unsaved |-> hand.unsaved]
  BY DEF SaveRecord, history
<1>2. /\ hand.unsaved = hand.published
      /\ hand.status = IF hand.published = {} THEN "VALID" ELSE "INVALID"
  BY <1>1 DEF BInv, HandOK
<1>3. /\ \A r \in records : ~(r.snapshot = current /\ r.number = mem.size)
      /\ \A v \in results : ~(v.snapshot = current /\ v.number = mem.size)
  BY <1>1 DEF BInv, PlacesOK, Placed
<1>4. \A r : Told(r)' = Told(r)
  BY <1>1 DEF Told
<1>5. \A r \in records : /\ ~InHand(r) /\ ~InHand(r)'
  BY <1>1, <1>3 DEF InHand
<1>6. ASSUME NEW r \in records
      PROVE  /\ r.status = "VALID" <=> r.faults = {}
             /\ \/ Told(r)' = r.faults
                \/ Told(r)' \subseteq r.faults /\ (<<r.snapshot, r.number>> \in silent')
  BY <1>1, <1>4, <1>5 DEF JudgedInv
<1>7. /\ new.status = "VALID" <=> new.faults = {}
      /\ Told(new) = {} /\ new.faults = hand.unsaved
  BY <1>2, <1>3 DEF Told
<1>8. ASSUME NEW r, r = new
      PROVE  /\ InHand(r)' => hand'.unsaved = r.faults
             /\ ~InHand(r)' => r.faults = {}
  BY <1>1, <1>7, <1>8 DEF InHand, Nothing
<1> HIDE DEF new
<1>9. ASSUME NEW r \in records'
       PROVE  /\ r.status = "VALID" <=> r.faults = {}
              /\ InHand(r)' => /\ hand'.unsaved \subseteq r.faults
                               /\ Told(r)' = r.faults \ hand'.unsaved
              /\ ~InHand(r)' => \/ Told(r)' = r.faults
                                \/ /\ Told(r)' \subseteq r.faults
                                   /\ <<r.snapshot, r.number>> \in silent'
  <2>1. CASE r \in records
    <3>1. ~InHand(r)'
      BY <1>5, <2>1
    <3>2. QED
      BY <1>6, <2>1, <3>1
  <2>2. CASE r = new
    <3>1. Told(r)' = {}
      BY <1>4, <1>7, <2>2
    <3>2. InHand(r)' => r.faults \ hand'.unsaved = {} /\ hand'.unsaved = r.faults
      BY <1>8, <2>2
    <3>3. ~InHand(r)' => r.faults = {}
      BY <1>8, <2>2
    <3>4. QED
      BY <1>7, <2>2, <3>1, <3>2, <3>3
  <2>3. QED
    BY <1>1, <2>1, <2>2
<1>10. QED
  BY <1>9 DEF JudgedInv

\* One more of the faults of the record in hand is told.
LEMMA SaveResultJudges ==
  ASSUME BInv, JudgedInv, NEW f \in Checked, SaveResult(f)
  PROVE  JudgedInv'
<1> DEFINE new == [snapshot |-> current, number |-> mem.size, field |-> f]
<1>1. /\ hand.step = "explain" /\ f \in hand.unsaved
      /\ UNCHANGED <<records, silent, current, mem>>
      /\ results' = results \union {new}
      /\ \/ hand.unsaved = {f} /\ hand' = Nothing
         \/ hand' = [step |-> "explain", unsaved |-> hand.unsaved \ {f}]
  <2>1. hand = [step |-> "explain", unsaved |-> hand.unsaved]
    BY DEF SaveResult, BInv, HandOK
  <2>2. QED
    BY <2>1 DEF SaveResult, history
<1>2. ASSUME NEW r \in records, InHand(r)
      PROVE  Told(r)' = Told(r) \union {f}
  <2>1. new.snapshot = r.snapshot /\ new.number = r.number /\ new.field = f
    BY <1>2 DEF InHand
  <2>2. Told(r)' = {v.field : v \in {v \in results' : v.snapshot = r.snapshot
                                                    /\ v.number = r.number}}
    BY DEF Told
  <2> HIDE DEF new
  <2>3. {v \in results' : v.snapshot = r.snapshot /\ v.number = r.number}
        = {v \in results : v.snapshot = r.snapshot /\ v.number = r.number} \union {new}
    BY <1>1, <2>1
  <2>4. QED
    BY <2>1, <2>2, <2>3 DEF Told
<1>3. ASSUME NEW r \in records, ~InHand(r)
      PROVE  Told(r)' = Told(r) /\ ~InHand(r)'
  BY <1>1, <1>3 DEF Told, InHand, Nothing
<1>4. ASSUME NEW r \in records
      PROVE  /\ r.status = "VALID" <=> r.faults = {}
             /\ InHand(r)' => /\ hand'.unsaved \subseteq r.faults
                              /\ Told(r)' = r.faults \ hand'.unsaved
             /\ ~InHand(r)' => \/ Told(r)' = r.faults
                               \/ /\ Told(r)' \subseteq r.faults
                                  /\ <<r.snapshot, r.number>> \in silent'
  <2>1. CASE InHand(r)
    <3>1. hand.unsaved \subseteq r.faults /\ Told(r) = r.faults \ hand.unsaved
      BY <2>1 DEF JudgedInv
    <3>2. InHand(r)' => hand'.unsaved = hand.unsaved \ {f}
      BY <1>1 DEF InHand, Nothing
    <3>3. ~InHand(r)' => hand.unsaved = {f}
      BY <1>1, <2>1 DEF InHand
    <3>4. QED
      BY <1>1, <1>2, <2>1, <3>1, <3>2, <3>3 DEF JudgedInv
  <2>2. CASE ~InHand(r)
    BY <1>1, <1>3, <2>2 DEF JudgedInv
  <2>3. QED
    BY <2>1, <2>2
<1>5. QED
  BY <1>1, <1>4 DEF JudgedInv

LEMMA BatchJudges ==
  ASSUME BInv, JudgedInv, Batch
  PROVE  JudgedInv'
<1>1. CASE BatchArrives \/ EndBatch
  <2>1. UNCHANGED <<records, results, silent, hand>> /\ hand.step # "explain"
    BY <1>1 DEF BatchArrives, EndBatch, StatusStep, Move, BInv, HandOK, Nothing,
                database, history
  <2>2. QED
    BY <2>1, StillJudged
<1>2. ASSUME NEW metadata, Examine(metadata)
      PROVE  JudgedInv'
  <2>1. UNCHANGED <<records, results, silent>> /\ hand = Nothing
        /\ hand' \in {Nothing, Examined(metadata)}
    BY <1>2 DEF Examine, database
  <2>2. Examined(metadata).step = "save"
    BY ExaminedFacts
  <2>3. QED
    BY <2>1, <2>2, StillJudged DEF Nothing
<1>3. CASE SaveRecord
  BY <1>3, SaveRecordJudges
<1>4. CASE SaveRecordFails
  <2>1. UNCHANGED <<records, results, silent>> /\ hand.step = "save" /\ hand' = Nothing
    BY <1>4 DEF SaveRecordFails, database
  <2>2. QED
    BY <2>1, StillJudged DEF Nothing
<1>5. CASE \E f \in Checked : SaveResult(f)
  BY <1>5, SaveResultJudges
<1>6. CASE SaveResultFails
  <2>1. /\ UNCHANGED <<records, results, current, mem>> /\ hand.step = "explain"
        /\ hand' = Nothing /\ silent' = silent \union {<<current, mem.size>>}
    BY <1>6 DEF SaveResultFails, database
  <2>2. ASSUME NEW r \in records
        PROVE  /\ ~InHand(r)' /\ Told(r)' = Told(r)
               /\ InHand(r) => <<r.snapshot, r.number>> \in silent'
    BY <2>1 DEF InHand, Told, Nothing
  <2>3. QED
    BY <2>1, <2>2 DEF JudgedInv
<1>7. QED
  BY <1>1, <1>2, <1>3, <1>4, <1>5, <1>6 DEF Batch

LEMMA AdministratorJudges ==
  ASSUME BInv, JudgedInv, Administrator
  PROVE  JudgedInv'
<1>1. CASE DeleteAllButLGK \/ FindLastGoodKnown \/ Commit
           \/ \E s \in Snapshots : DeleteRecordsBySnapshotID(s)
  <2>1. UNCHANGED <<records, results, silent, hand, current, mem>>
    BY <1>1 DEF DeleteAllButLGK, FindLastGoodKnown, Commit, DeleteRecordsBySnapshotID,
                database, worker, history
  <2>2. QED
    BY <2>1, JudgedAlike
<1>2. ASSUME NEW s \in Snapshots, CleanSnapshot(s)
      PROVE  JudgedInv'
  <2>1. /\ UNCHANGED <<worker, silent>>
        /\ results' = {v \in results : v.snapshot # s}
        /\ records' = records \ Stored(s)
    BY <1>2 DEF CleanSnapshot
  <2>2. ASSUME NEW r \in records'
        PROVE  r \in records /\ Told(r)' = Told(r) /\ (InHand(r)' <=> InHand(r))
    BY <2>1 DEF Stored, Told, InHand, worker
  <2>3. QED
    BY <2>1, <2>2 DEF JudgedInv, worker
<1>3. QED
  BY <1>1, <1>2 DEF Administrator

\* A record is stored VALID exactly when what is published with it has no
\* invalid mandatory field, and an INVALID one has a validation result for
\* each such field, once it is dealt with and unless one could not be saved
\* (SnapshotWorker 434-519).
THEOREM Judging == Spec => []RowsAreJudgedAsPublished
<1>1. Init => JudgedInv
  BY DEF Init, JudgedInv
<1>2. BInv /\ JudgedInv /\ [Next]_vars => JudgedInv'
  <2>1. ASSUME JudgedInv, UNCHANGED vars PROVE JudgedInv'
    BY <2>1, JudgedAlike DEF vars, database, worker, history
  <2>2. QED
    BY <2>1, RunJudges, BatchJudges, AdministratorJudges DEF Next
<1>3. JudgedInv => RowsAreJudgedAsPublished
  <2>1. ASSUME JudgedInv, NEW r \in records
        PROVE  /\ r.status = "VALID" <=> r.faults = {}
               /\ \/ Told(r) = r.faults
                  \/ Told(r) \subseteq r.faults
                     /\ \/ <<r.snapshot, r.number>> \in silent
                        \/ r.snapshot = current /\ r.number = mem.size /\ hand # Nothing
    <3>1. CASE InHand(r)
      BY <2>1, <3>1 DEF JudgedInv, InHand, Nothing
    <3>2. CASE ~InHand(r)
      BY <2>1, <3>2 DEF JudgedInv
    <3>3. QED
      BY <3>1, <3>2
  <2>2. QED
    BY <2>1 DEF RowsAreJudgedAsPublished, Told
<1>4. QED
  BY <1>1, <1>2, <1>3, AlwaysBInv, PTL DEF Spec

-----------------------------------------------------------------------------
(* The counters are those of what is stored. *)

LEMMA Counts ==
  ASSUME BInv, NEW s
  PROVE  /\ IsFiniteSet(Stored(s)) /\ Cardinality(Stored(s)) \in Nat
         /\ IsFiniteSet(ValidIn(s)) /\ Cardinality(ValidIn(s)) \in Nat
         /\ IsFiniteSet(TransformedIn(s)) /\ Cardinality(TransformedIn(s)) \in Nat
<1>1. IsFiniteSet(Stored(s))
  BY FS_Subset DEF BInv, PlacesOK, Stored
<1>2. IsFiniteSet(ValidIn(s))
  BY <1>1, FS_Subset DEF ValidIn
<1>3. IsFiniteSet(TransformedIn(s))
  BY <1>2, FS_Subset DEF TransformedIn
<1>4. QED
  BY <1>1, <1>2, <1>3, FS_CardinalityType

\* A step that neither examines nor saves, nor touches a row.
LEMMA SizesAlike ==
  ASSUME SizesInv,
         UNCHANGED <<table, records, current, mem, spoiled, cleaned>>,
         pc' = pc \/ pc' = "batch" \/ pc # "batch",
         hand' = hand \/ (hand.step # "save" /\ hand'.step # "save")
  PROVE  SizesInv'
<1>1. /\ One(ToSave)' = One(ToSave) /\ One(ToSaveValid)' = One(ToSaveValid)
      /\ One(ToSaveTransformed)' = One(ToSaveTransformed)
  BY DEF One, ToSave, ToSaveValid, ToSaveTransformed
<1>2. /\ Stored(current)' = Stored(current) /\ ValidIn(current)' = ValidIn(current)
      /\ TransformedIn(current)' = TransformedIn(current)
  BY DEF Stored, ValidIn, TransformedIn
<1>3. MemoryMatches'
  BY <1>1, <1>2 DEF SizesInv, MemoryMatches
<1>4. RowsMatch'
  BY DEF SizesInv, RowsMatch, Rows, Matches, Stored
<1>5. QED
  BY <1>3, <1>4 DEF SizesInv

\* A worker with nothing in hand whose snapshot lost nothing has its counters
\* right.
LEMMA MemoryIsRight ==
  ASSUME BInv, SizesInv, hand = Nothing, current # 0,
         current \notin spoiled \union cleaned
  PROVE  Matches(mem, current)
<1>1. One(ToSave) = 0 /\ One(ToSaveValid) = 0 /\ One(ToSaveTransformed) = 0
  BY DEF One, ToSave, ToSaveValid, ToSaveTransformed, Nothing
<1>2. QED
  BY <1>1, Counts DEF SizesInv, MemoryMatches, Matches, ValidIn, TransformedIn

LEMMA StatusStepSizes ==
  ASSUME BInv, SizesInv, hand = Nothing, pc # "idle",
         NEW from, NEW to, NEW status, StatusStep(from, status, to)
  PROVE  SizesInv'
<1>1. /\ current \in Snapshots /\ current # 0
      /\ UNCHANGED <<records, current, hand, spoiled, cleaned>>
      /\ mem' = [mem EXCEPT !.status = status]
      /\ table' = [table EXCEPT ![current] = mem']
  BY Numbers DEF BInv, WorkerOK, StatusStep, SetStatus, history
<1>2. /\ mem'.size = mem.size /\ mem'.validSize = mem.validSize
      /\ mem'.transformedSize = mem.transformedSize
  BY <1>1 DEF BInv, WorkerOK, RowType
<1>3. /\ One(ToSave)' = One(ToSave) /\ One(ToSaveValid)' = One(ToSaveValid)
      /\ One(ToSaveTransformed)' = One(ToSaveTransformed)
  BY <1>1 DEF One, ToSave, ToSaveValid, ToSaveTransformed
<1>4. /\ Stored(current)' = Stored(current) /\ ValidIn(current)' = ValidIn(current)
      /\ TransformedIn(current)' = TransformedIn(current)
  BY <1>1 DEF Stored, ValidIn, TransformedIn
<1>5. MemoryMatches'
  BY <1>1, <1>2, <1>3, <1>4 DEF SizesInv, MemoryMatches
<1>6. ASSUME NEW s \in Rows', s \notin spoiled \union cleaned, s = current' => pc' # "batch"
      PROVE  Matches(table[s], s)'
  <2>1. CASE s = current
    <3>1. Matches(mem, current)
      BY <1>1, <1>6, <2>1, MemoryIsRight
    <3>2. table'[s] = mem'
      BY <1>1, <2>1 DEF BInv, WorkerOK
    <3>3. QED
      BY <1>1, <1>2, <2>1, <3>1, <3>2 DEF Matches, Stored
  <2>2. CASE s # current
    <3>1. s \in Rows /\ table'[s] = table[s]
      BY <1>1, <1>6, <2>2 DEF Rows, BInv, WorkerOK
    <3>2. Matches(table[s], s)
      BY <1>6, <2>2, <3>1 DEF SizesInv, RowsMatch
    <3>3. QED
      BY <1>1, <3>1, <3>2 DEF Matches, Stored
  <2>3. QED
    BY <2>1, <2>2
<1>7. RowsMatch'
  BY <1>1, <1>6 DEF RowsMatch
<1>8. QED
  BY <1>5, <1>7 DEF SizesInv

\* A new snapshot has nothing stored.
LEMMA CreateSnapshotSizes ==
  ASSUME BInv, SizesInv, CreateSnapshot
  PROVE  SizesInv'
<1>1. /\ hand = Nothing /\ hand' = Nothing /\ pc = "idle"
      /\ current \in Nat /\ current' = current + 1 /\ current' \in Snapshots
      /\ mem' = NewRow /\ table' = [table EXCEPT ![current'] = NewRow]
      /\ UNCHANGED <<records, spoiled, cleaned>>
  BY HandIsEmpty, Numbers DEF CreateSnapshot, Move, BInv, WorkerOK, history
<1>2. \A r \in records : r.snapshot # current'
  BY <1>1, Numbers DEF BInv, PlacesOK, Placed
<1>3. Stored(current)' = {} /\ ValidIn(current)' = {} /\ TransformedIn(current)' = {}
  BY <1>1, <1>2 DEF Stored, ValidIn, TransformedIn
<1>4. Cardinality(Stored(current))' = 0 /\ Cardinality(ValidIn(current))' = 0
      /\ Cardinality(TransformedIn(current))' = 0
  BY <1>3, FS_EmptySet
<1>5. One(ToSave)' = 0 /\ One(ToSaveValid)' = 0 /\ One(ToSaveTransformed)' = 0
  BY <1>1 DEF One, ToSave, ToSaveValid, ToSaveTransformed, Nothing
<1>6. mem'.size = 0 /\ mem'.validSize = 0 /\ mem'.transformedSize = 0
  BY <1>1 DEF NewRow, Row
<1>7. MemoryMatches'
  BY <1>4, <1>5, <1>6 DEF MemoryMatches
<1>8. ASSUME NEW s \in Rows', s \notin spoiled \union cleaned
      PROVE  Matches(table[s], s)'
  <2>1. CASE s = current'
    BY <1>1, <1>4, <1>6, <2>1 DEF Matches, ValidIn, TransformedIn, BInv, WorkerOK
  <2>2. CASE s # current'
    <3>1. s \in Rows /\ table'[s] = table[s]
      BY <1>1, <1>8, <2>2 DEF Rows, BInv, WorkerOK
    <3>2. Matches(table[s], s)
      BY <1>1, <1>8, <3>1 DEF SizesInv, RowsMatch
    <3>3. QED
      BY <1>1, <3>1, <3>2 DEF Matches, Stored
  <2>3. QED
    BY <2>1, <2>2
<1>9. RowsMatch'
  BY <1>1, <1>8 DEF RowsMatch
<1>10. QED
  BY <1>7, <1>9 DEF SizesInv

LEMMA RunSizes ==
  ASSUME BInv, SizesInv, Run
  PROVE  SizesInv'
<1>1. CASE CreateSnapshot
  BY <1>1, CreateSnapshotSizes
<1>2. CASE BeginHarvest \/ Retry \/ FatalError \/ Indexed \/ EndRun
  BY <1>2, StatusStepSizes, HandIsEmpty
  DEF BeginHarvest, Retry, FatalError, Indexed, EndRun, StatusStep, Move
<1>3. CASE EndHarvest
  BY <1>3, SizesAlike DEF EndHarvest, history
<1>4. CASE Publish
  <2>1. CASE Move("closing", "ending")
             /\ UNCHANGED <<table, records, current, mem, hand, history>>
    BY <2>1, SizesAlike DEF Move, history
  <2>2. pc # "idle" /\ hand = Nothing
    BY <1>4, HandIsEmpty DEF Publish, StatusStep, Move
  <2>3. QED
    BY <1>4, <2>1, <2>2, StatusStepSizes DEF Publish
<1>5. QED
  BY <1>1, <1>2, <1>3, <1>4 DEF Run

\* A step within a batch leaves the rows and the other snapshots alone.
LEMMA WithinBatch ==
  ASSUME BInv, SizesInv, MemoryMatches', pc = "batch",
         UNCHANGED <<table, current, pc, cleaned>>, spoiled \subseteq spoiled',
         \A s : s # current => Stored(s)' = Stored(s)
  PROVE  SizesInv'
<1>1. ASSUME NEW s \in Rows, s # current, Matches(table[s], s)
      PROVE  Matches(table[s], s)'
  <2>1. Stored(s)' = Stored(s)
    BY <1>1
  <2>2. QED
    BY <1>1, <2>1 DEF Matches
<1>2. RowsMatch'
  BY <1>1 DEF SizesInv, RowsMatch, Rows
<1>3. QED
  BY <1>2 DEF SizesInv

\* A record that arrives is counted with what is in hand.
LEMMA ExamineSizes ==
  ASSUME BInv, SizesInv, NEW metadata, Examine(metadata), current \in Snapshots
  PROVE  SizesInv'
<1> DEFINE record == Examined(metadata)
           arrived == [mem EXCEPT !.size = @ + 1]
<1>1. /\ hand = Nothing /\ pc = "batch"
      /\ UNCHANGED <<pc, current, table, records, cleaned>>
      /\ \/ hand' = record /\ mem' = Counted(arrived, record) /\ spoiled' = spoiled
         \/ hand' = hand /\ mem' = arrived /\ spoiled' = spoiled \union {current}
  BY DEF Examine, database
<1>2. /\ arrived \in RowType /\ arrived.size = mem.size + 1
      /\ arrived.validSize = mem.validSize
      /\ arrived.transformedSize = mem.transformedSize
      /\ mem.size \in Nat /\ mem.validSize \in Nat /\ mem.transformedSize \in Nat
  BY DEF BInv, WorkerOK, RowType
<1>3. record.step = "save"
  BY ExaminedFacts
<1>4. /\ Stored(current)' = Stored(current) /\ ValidIn(current)' = ValidIn(current)
      /\ TransformedIn(current)' = TransformedIn(current)
  BY <1>1 DEF Stored, ValidIn, TransformedIn
<1>5. One(ToSave) = 0 /\ One(ToSaveValid) = 0 /\ One(ToSaveTransformed) = 0
  BY <1>1 DEF One, ToSave, ToSaveValid, ToSaveTransformed, Nothing
<1>6. current # 0 /\ current' # 0
  BY <1>1, Numbers
<1> HIDE DEF record, arrived
<1>7. MemoryMatches'
  <2>1. CASE hand' = record /\ mem' = Counted(arrived, record) /\ spoiled' = spoiled
    <3> DEFINE v == One(record.status = "VALID")
               t == IF record.wasTransformed THEN v ELSE 0
    <3>1. /\ mem'.size = mem.size + 1 /\ mem'.validSize = mem.validSize + v
          /\ mem'.transformedSize = mem.transformedSize + t
      <4>1. /\ Counted(arrived, record).size = arrived.size
            /\ Counted(arrived, record).validSize = arrived.validSize + v
            /\ Counted(arrived, record).transformedSize = arrived.transformedSize + t
        BY <1>2, CountedFacts
      <4> HIDE DEF v, t
      <4>2. QED
        BY <1>2, <2>1, <4>1
    <3>2. v \in Nat /\ t \in Nat
      BY DEF One
    <3>3. One(ToSave)' = 1 /\ One(ToSaveValid)' = v /\ One(ToSaveTransformed)' = t
      BY <1>3, <2>1 DEF One, ToSave, ToSaveValid, ToSaveTransformed
    <3> HIDE DEF v, t
    <3>4. QED
      BY <1>1, <1>2, <1>4, <1>5, <1>6, <2>1, <3>1, <3>2, <3>3, Counts
      DEF SizesInv, MemoryMatches
  <2>2. CASE hand' = hand /\ mem' = arrived /\ spoiled' = spoiled \union {current}
    <3>1. One(ToSave)' = 0 /\ One(ToSaveValid)' = 0
      BY <1>1, <2>2 DEF One, ToSave, ToSaveValid, Nothing
    <3>2. QED
      BY <1>1, <1>2, <1>4, <1>5, <1>6, <2>2, <3>1, Counts DEF SizesInv, MemoryMatches
  <2>3. QED
    BY <1>1, <2>1, <2>2
<1>8. QED
  BY <1>1, <1>7, WithinBatch DEF Stored

\* The record saved is no longer in hand.
LEMMA SaveRecordSizes ==
  ASSUME BInv, SizesInv, SaveRecord
  PROVE  SizesInv'
<1> DEFINE new == [snapshot |-> current, number |-> mem.size, status |-> hand.status,
                   wasTransformed |-> hand.wasTransformed, faults |-> hand.published]
<1>1. /\ hand.step = "save" /\ pc = "batch" /\ current # 0
      /\ UNCHANGED <<table, pc, current, mem, spoiled, cleaned>>
      /\ records' = records \union {new} /\ hand'.step # "save"
  BY Numbers DEF SaveRecord, history, BInv, HandOK, WorkerOK, Nothing
<1>2. new \notin records
  BY <1>1 DEF BInv, PlacesOK, Placed
<1>3. One(ToSave) = 1 /\ One(ToSaveValid) = One(hand.status = "VALID")
      /\ One(ToSaveTransformed) = One(hand.status = "VALID" /\ hand.wasTransformed)
  BY <1>1 DEF One, ToSave, ToSaveValid, ToSaveTransformed
<1>4. One(ToSave)' = 0 /\ One(ToSaveValid)' = 0 /\ One(ToSaveTransformed)' = 0
  BY <1>1 DEF One, ToSave, ToSaveValid, ToSaveTransformed
<1>5. /\ Stored(current)' = Stored(current) \union {new}
      /\ ValidIn(current)' = IF hand.status = "VALID" THEN ValidIn(current) \union {new}
                             ELSE ValidIn(current)
      /\ TransformedIn(current)' = IF hand.status = "VALID" /\ hand.wasTransformed
                                   THEN TransformedIn(current) \union {new}
                                   ELSE TransformedIn(current)
  <2>1. Stored(current)' = Stored(current) \union {new}
    BY <1>1 DEF Stored
  <2>2. ValidIn(current)' = IF hand.status = "VALID" THEN ValidIn(current) \union {new}
                            ELSE ValidIn(current)
    BY <2>1 DEF ValidIn
  <2>3. QED
    BY <2>1, <2>2 DEF TransformedIn
<1>6. new \notin Stored(current) /\ new \notin ValidIn(current)
      /\ new \notin TransformedIn(current)
  BY <1>2 DEF Stored, ValidIn, TransformedIn
<1> HIDE DEF new
<1>7. /\ Cardinality(Stored(current))' = Cardinality(Stored(current)) + One(ToSave)
      /\ Cardinality(ValidIn(current))' = Cardinality(ValidIn(current)) + One(ToSaveValid)
      /\ Cardinality(TransformedIn(current))'
           = Cardinality(TransformedIn(current)) + One(ToSaveTransformed)
  <2>1. Cardinality(Stored(current) \union {new}) = Cardinality(Stored(current)) + 1
    BY <1>6, Counts, FS_AddElement
  <2>2. Cardinality(ValidIn(current) \union {new}) = Cardinality(ValidIn(current)) + 1
    BY <1>6, Counts, FS_AddElement
  <2>3. Cardinality(TransformedIn(current) \union {new})
          = Cardinality(TransformedIn(current)) + 1
    BY <1>6, Counts, FS_AddElement
  <2>4. QED
    BY <1>3, <1>5, <2>1, <2>2, <2>3, Counts DEF One
<1>8. MemoryMatches'
  <2>1. /\ Cardinality(Stored(current))' \in Nat
        /\ Cardinality(ValidIn(current))' \in Nat
        /\ Cardinality(TransformedIn(current))' \in Nat
    BY <1>7, Counts DEF One
  <2>2. QED
    BY <1>1, <1>4, <1>7, <2>1 DEF SizesInv, MemoryMatches
<1>9. \A s : s # current => Stored(s)' = Stored(s)
  BY <1>1 DEF Stored, new
<1>10. QED
  BY <1>1, <1>8, <1>9, WithinBatch

LEMMA SaveRecordFailsSizes ==
  ASSUME BInv, SizesInv, SaveRecordFails
  PROVE  SizesInv'
<1>1. /\ pc = "batch" /\ current # 0 /\ hand' = Nothing
      /\ UNCHANGED <<table, pc, current, mem, records, cleaned>>
      /\ spoiled' = spoiled \union {current}
  BY Numbers DEF SaveRecordFails, database, BInv, HandOK, WorkerOK
<1>2. One(ToSave)' = 0 /\ One(ToSaveValid)' = 0
  BY <1>1 DEF One, ToSave, ToSaveValid, Nothing
<1>3. One(ToSave) \in Nat /\ One(ToSaveValid) \in Nat
      /\ mem.size \in Nat /\ mem.validSize \in Nat
  BY DEF One, BInv, WorkerOK, RowType
<1>4. Stored(current)' = Stored(current) /\ ValidIn(current)' = ValidIn(current)
  BY <1>1 DEF Stored, ValidIn
<1>5. MemoryMatches'
  BY <1>1, <1>2, <1>3, <1>4, Counts DEF SizesInv, MemoryMatches
<1>6. QED
  BY <1>1, <1>5, WithinBatch DEF Stored

LEMMA BatchSizes ==
  ASSUME BInv, SizesInv, Batch
  PROVE  SizesInv'
<1>1. CASE BatchArrives
  BY <1>1, SizesAlike DEF BatchArrives, Move, database, history
<1>2. CASE EndBatch
  BY <1>2, StatusStepSizes DEF EndBatch, StatusStep, Move
<1>3. CASE \E s \in Snapshots : \E metadata \in Harvestable[s] :
             s = current /\ Examine(metadata)
  BY <1>3, ExamineSizes
<1>4. CASE SaveResultFails \/ \E f \in Checked : SaveResult(f)
  <2>1. /\ UNCHANGED <<table, records, current, mem, pc, spoiled, cleaned>>
        /\ hand.step = "explain"
        /\ hand' = Nothing \/ hand' = [hand EXCEPT !.unsaved = hand'.unsaved]
    BY <1>4 DEF SaveResultFails, SaveResult, database, history
  <2>2. hand.step # "save" /\ hand'.step # "save"
    BY <2>1 DEF BInv, HandOK, Nothing
  <2>3. QED
    BY <2>1, <2>2, SizesAlike
<1>5. CASE SaveRecord \/ SaveRecordFails
  BY <1>5, SaveRecordSizes, SaveRecordFailsSizes
<1>6. QED
  BY <1>1, <1>2, <1>3, <1>4, <1>5 DEF Batch

LEMMA AdministratorSizes ==
  ASSUME BInv, SizesInv, Administrator
  PROVE  SizesInv'
<1>1. CASE DeleteAllButLGK \/ FindLastGoodKnown
           \/ \E s \in Snapshots : DeleteRecordsBySnapshotID(s)
  <2>1. UNCHANGED <<table, records, current, mem, pc, hand, spoiled, cleaned>>
    BY <1>1 DEF DeleteAllButLGK, FindLastGoodKnown, DeleteRecordsBySnapshotID,
                database, worker, history
  <2>2. QED
    BY <2>1, SizesAlike
<1>2. ASSUME NEW s \in Snapshots, CleanSnapshot(s)
      PROVE  SizesInv'
  <2>1. /\ UNCHANGED <<table, current, mem, pc, hand, spoiled>>
        /\ records' = records \ Stored(s) /\ cleaned' = cleaned \union {s}
    BY <1>2 DEF CleanSnapshot, worker
  <2>2. /\ One(ToSave)' = One(ToSave) /\ One(ToSaveValid)' = One(ToSaveValid)
        /\ One(ToSaveTransformed)' = One(ToSaveTransformed)
    BY <2>1 DEF One, ToSave, ToSaveValid, ToSaveTransformed
  <2>3. MemoryMatches'
    <3>1. CASE s = current
      <4>1. Stored(current)' = {} /\ ValidIn(current)' = {}
        BY <2>1, <3>1 DEF Stored, ValidIn
      <4>2. Cardinality(Stored(current))' = 0 /\ Cardinality(ValidIn(current))' = 0
        BY <4>1, FS_EmptySet
      <4>3. One(ToSave) \in Nat /\ One(ToSaveValid) \in Nat
            /\ mem.size \in Nat /\ mem.validSize \in Nat
        BY DEF One, BInv, WorkerOK, RowType
      <4>4. QED
        BY <2>1, <2>2, <3>1, <4>2, <4>3, Counts DEF SizesInv, MemoryMatches
    <3>2. CASE s # current
      <4>1. /\ Stored(current)' = Stored(current) /\ ValidIn(current)' = ValidIn(current)
            /\ TransformedIn(current)' = TransformedIn(current)
        BY <2>1, <3>2 DEF Stored, ValidIn, TransformedIn
      <4>2. QED
        BY <2>1, <2>2, <3>2, <4>1 DEF SizesInv, MemoryMatches
    <3>3. QED
      BY <3>1, <3>2
  <2>4. ASSUME NEW t \in Rows, t # s, Matches(table[t], t)
        PROVE  Matches(table[t], t)'
    <3>1. Stored(t)' = Stored(t)
      BY <2>1, <2>4 DEF Stored
    <3>2. QED
      BY <2>1, <2>4, <3>1 DEF Matches
  <2>5. RowsMatch'
    BY <2>1, <2>4 DEF SizesInv, RowsMatch, Rows
  <2>6. QED
    BY <2>3, <2>5 DEF SizesInv
<1>3. CASE Commit
  <2>1. /\ UNCHANGED <<records, worker, history>> /\ admin.step = "clean"
        /\ admin.uncleaned = {}
        /\ table' = [s \in Snapshots |->
                       IF s \in DOMAIN admin.copies
                       THEN [admin.copies[s].row EXCEPT !.deleted = TRUE]
                       ELSE table[s]]
    BY <1>3 DEF Commit
  <2>2. \A s \in Snapshots \ cleaned : table'[s] = table[s]
    BY <2>1 DEF BInv, AdminOK
  <2>3. MemoryMatches'
    <3>1. /\ One(ToSave)' = One(ToSave) /\ One(ToSaveValid)' = One(ToSaveValid)
          /\ One(ToSaveTransformed)' = One(ToSaveTransformed)
      BY <2>1 DEF One, ToSave, ToSaveValid, ToSaveTransformed, worker
    <3>2. /\ Stored(current)' = Stored(current) /\ ValidIn(current)' = ValidIn(current)
          /\ TransformedIn(current)' = TransformedIn(current)
      BY <2>1 DEF Stored, ValidIn, TransformedIn, worker
    <3>3. QED
      BY <2>1, <3>1, <3>2 DEF SizesInv, MemoryMatches, worker, history
  <2>4. RowsMatch'
    <3>1. ASSUME NEW s \in Rows', s \notin spoiled \union cleaned,
                 s = current => pc # "batch"
          PROVE  Matches(table[s], s)'
      <4>1. s \in Rows /\ table'[s] = table[s]
        BY <2>2, <3>1 DEF Rows
      <4>2. Matches(table[s], s)
        BY <3>1, <4>1 DEF SizesInv, RowsMatch
      <4>3. QED
        BY <2>1, <4>1, <4>2 DEF Matches, Stored
    <3>2. QED
      BY <2>1, <3>1 DEF RowsMatch, worker, history
  <2>5. QED
    BY <2>3, <2>4 DEF SizesInv
<1>4. QED
  BY <1>1, <1>2, <1>3 DEF Administrator

\* The counters of a row are those of the records stored, while no batch of it
\* is being stored and unless a record was dropped or the snapshot cleaned; and
\* the run counts at least what it stores, whatever is dropped or cleaned
\* (SnapshotWorker 423-532, 549 and 594-601).
THEOREM Sizes == Spec => []SizesAddUp
<1>1. Init => SizesInv
  BY DEF Init, SizesInv, MemoryMatches, RowsMatch, Rows
<1>2. BInv /\ SizesInv /\ [Next]_vars => SizesInv'
  <2>1. ASSUME SizesInv, UNCHANGED vars PROVE SizesInv'
    BY <2>1, SizesAlike DEF vars, database, worker, history
  <2>2. QED
    BY <2>1, RunSizes, BatchSizes, AdministratorSizes DEF Next
<1>3. BInv /\ SizesInv => SizesAddUp
  <2> SUFFICES ASSUME BInv, SizesInv PROVE SizesAddUp
    OBVIOUS
  <2>1. ASSUME current # 0
        PROVE  /\ Cardinality(Stored(current)) <= mem.size
               /\ Cardinality(ValidIn(current)) <= mem.validSize
    <3>1. One(ToSave) \in Nat /\ One(ToSaveValid) \in Nat
          /\ mem.size \in Nat /\ mem.validSize \in Nat
      BY DEF One, BInv, WorkerOK, RowType
    <3>2. QED
      BY <2>1, <3>1, Counts DEF SizesInv, MemoryMatches
  <2>2. QED
    BY <2>1 DEF SizesInv, RowsMatch, SizesAddUp, ValidIn
<1>4. QED
  BY <1>1, <1>2, <1>3, AlwaysBInv, PTL DEF Spec

=============================================================================
