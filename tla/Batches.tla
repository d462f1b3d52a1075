------------------------------- MODULE Batches -------------------------------
(***************************************************************************)
(* What a SnapshotWorker stores of the records it harvests, run after run, *)
(* while the administrator cleans snapshots.                               *)
(*                                                                         *)
(* The worker is its own event listener and is called without a proxy: the *)
(* batch it receives is not one transaction, every save commits by itself. *)
(* The counters of the snapshot live in its in-memory copy, which every    *)
(* change of status writes over the row.  An exception costs the record it *)
(* was raised for.  Cleaning is one transaction of the REST controller,    *)
(* which writes back the row it read when it began.                        *)
(*                                                                         *)
(* Abstractions.  Module Metadata is what is known of a record; of the XML *)
(* a row publishes, the mandatory fields that are invalid in it.  The      *)
(* names appended to dc:source, which no validator reads, and the harvest  *)
(* log are left out.  Stopping a run and the retries inside harvest() are  *)
(* in module SnapshotManager, the index in module Indexing.                *)
(***************************************************************************)
EXTENDS Metadata, FiniteSetsExt

CONSTANTS
  Snapshots,     \* 1..n: a later run creates the larger one
  Configs,       \* the network: [validation, stats, transformers, published,
                 \* indexing, xoai]
  Harvestable,   \* per run, the metadata records can arrive with
  MaxRecords,    \* bound: records of each run
  MaxFailures,   \* bound: saves that fail
  MaxCleanings   \* bound: cleanings the administrator asks for

ASSUME BatchesAssumption ==
  /\ IsFiniteSet(Snapshots) /\ Snapshots = 1..Cardinality(Snapshots)
  /\ Configs # {}
  /\ \A c \in Configs : c.transformers \in Seq(ToSet(c.transformers))
  /\ MaxRecords \in [Snapshots -> Nat]
  /\ MaxFailures \in Nat /\ MaxCleanings \in Nat

VARIABLES
  \* the database
  table,      \* the snapshot rows
  records,    \* [snapshot, number, status, wasTransformed, faults]
  results,    \* oairecord_validation_result: [snapshot, number, field]
  statistics, \* per snapshot, the two totals saved, or NoStatistics
  \* the worker
  conf,       \* its network's configuration
  pc,
  current,    \* its snapshot
  mem,        \* its copy of the snapshot's row
  hand,       \* the record it has examined and is storing
  seen,       \* observations of its two statistics managers
  \* the administrator's transaction
  admin,
  failures, cleanings,
  \* history, read by the properties only
  spoiled,    \* snapshots a record of which was not stored
  cleaned,    \* snapshots whose records were deleted
  silent,     \* records a validation result of which could not be saved
  observed,   \* records whose original each run observed
  emptied     \* what was cleaned: [snapshot, excess, status, running]

history == <<spoiled, cleaned, silent, observed, emptied>>
database == <<table, records, results, statistics>>
worker == <<conf, pc, current, mem, hand, seen>>
vars == <<database, worker, admin, failures, cleanings, history>>

Statuses ==
  {"INITIALIZED", "HARVESTING", "RETRYING", "HARVESTING_FINISHED_ERROR",
   "INDEXING", "INDEXING_FINISHED_ERROR", "VALID"}

Row(status, size, validSize, transformedSize, deleted) ==
  [status |-> status, size |-> size, validSize |-> validSize,
   transformedSize |-> transformedSize, deleted |-> deleted]

NewRow == Row("INITIALIZED", 0, 0, 0, FALSE)
NoRow == Row("ABSENT", 0, 0, 0, FALSE)
NoStatistics == <<>>
Nothing == [step |-> "nothing"]

Stored(s) == {r \in records : r.snapshot = s}
Rows == {s \in Snapshots : table[s] # NoRow}

\* findLastGoodKnowByNetworkID: the valid snapshot that ended last, or 0.
LastGoodKnown ==
  LET good == {s \in Snapshots : table[s].status = "VALID"}
  IN IF good = {} THEN 0 ELSE Max(good)

Init ==
  /\ conf \in Configs
  /\ table = [s \in Snapshots |-> NoRow]
  /\ records = {} /\ results = {}
  /\ statistics = [s \in Snapshots |-> NoStatistics]
  /\ pc = "idle" /\ current = 0 /\ mem = NewRow /\ hand = Nothing
  /\ seen = [original |-> 0, transformed |-> 0]
  /\ admin = Nothing
  /\ failures = 0 /\ cleanings = 0
  /\ spoiled = {} /\ cleaned = {} /\ silent = {} /\ emptied = {}
  /\ observed = [s \in Snapshots |-> 0]

-----------------------------------------------------------------------------
(* run() around its batches. *)

Move(from, to) == pc = from /\ pc' = to

\* Mutant: only the status column is written.
SetStatusOnly(status) ==
  /\ mem' = [mem EXCEPT !.status = status]
  /\ table' = [table EXCEPT ![current].status = status]

\* setSnapshotStatus, and the whole row with it.
SetStatus(status) ==
  /\ mem' = [mem EXCEPT !.status = status]
  /\ table' = [table EXCEPT ![current] = mem']

CreateSnapshot ==
  /\ Move("idle", "load")
  /\ current < Cardinality(Snapshots)
  /\ current' = current + 1
  /\ mem' = NewRow
  /\ table' = [table EXCEPT ![current'] = NewRow]
  /\ UNCHANGED <<records, results, statistics, conf, hand, seen,
                 admin, failures, cleanings, history>>

StatusStep(from, status, to) ==
  /\ Move(from, to)
  /\ SetStatus(status)
  /\ UNCHANGED <<records, results, statistics, conf, current, hand, seen,
                 admin, failures, cleanings, history>>

BeginHarvest == StatusStep("load", "HARVESTING", "harvesting")
Retry == StatusStep("harvesting", "RETRYING", "harvesting")
FatalError ==
  StatusStep("harvesting", "HARVESTING_FINISHED_ERROR", "harvesting")

\* The last origin is harvested: without errors the statistics are stored,
\* those of the transformed records after those of the originals.
EndHarvest ==
  /\ pc = "harvesting"
  /\ IF mem.status = "HARVESTING_FINISHED_ERROR"
     THEN pc' = "ending" /\ UNCHANGED statistics
     ELSE /\ pc' = "closing"
          /\ statistics' =
               IF conf.stats
               THEN [statistics EXCEPT ![current] =
                       <<seen.original, seen.transformed>>]
               ELSE statistics
  /\ UNCHANGED <<table, records, results, conf, current, mem, hand, seen,
                 admin, failures, cleanings, history>>

\* An unpublished network's snapshot is VALID as it is; one of a published
\* network without indexes keeps its status.
Publish ==
  \/ ~conf.published /\ StatusStep("closing", "VALID", "ending")
  \/ /\ conf.published /\ conf.indexing
     /\ StatusStep("closing", "INDEXING", "indexing")
  \/ /\ conf.published /\ ~conf.indexing /\ conf.xoai
     /\ StatusStep("closing", "INDEXING", "indexingXOAI")
  \/ /\ conf.published /\ ~conf.indexing /\ ~conf.xoai
     /\ Move("closing", "ending")
     /\ UNCHANGED <<table, records, results, statistics, conf, current, mem,
                    hand, seen, admin, failures, cleanings, history>>
  \/ StatusStep("toXOAI", "INDEXING", "indexingXOAI")

\* index() returns whether it succeeded; the second index has the last word.
Indexed ==
  \E status \in {"VALID", "INDEXING_FINISHED_ERROR"} :
    \/ StatusStep("indexing", status, IF conf.xoai THEN "toXOAI" ELSE "ending")
    \/ StatusStep("indexingXOAI", status, "ending")

\* The end time is saved, with everything else the worker remembers.
EndRun == StatusStep("ending", mem.status, "idle")

-----------------------------------------------------------------------------
(* harvestingEventOccurred, status OK: the records of a batch, one by one.  *)

BatchArrives ==
  /\ Move("harvesting", "batch")
  /\ UNCHANGED <<database, conf, current, mem, hand, seen,
                 admin, failures, cleanings, history>>

\* Mutant: the transformed record is not validated again.
ExaminedOnce(metadata) ==
  LET before == ValidFields(metadata)
      change == Transform(conf.transformers, metadata, before)
  IN [step |-> "save", origin |-> metadata, dropped |-> change.failed,
      transforms |-> conf.transformers # <<>>,
      status |-> IF Faults(before) = {} THEN "VALID" ELSE "INVALID",
      wasTransformed |-> change.transformed,
      published |-> Faults(ValidFields(change.metadata)),
      unsaved |-> Faults(before)]

\* From the first line of the try block to the save: the record is counted,
\* validated, observed, transformed, validated and observed again, judged; a
\* network that does not transform has no transformers here.
Examined(metadata) ==
  LET before == ValidFields(metadata)
      change == Transform(conf.transformers, metadata, before)
      faults == Faults(ValidFields(change.metadata))
  IN [step |-> "save", origin |-> metadata, dropped |-> change.failed,
      transforms |-> conf.transformers # <<>>,
      status |-> IF faults = {} THEN "VALID" ELSE "INVALID",
      wasTransformed |-> change.transformed,
      published |-> faults, unsaved |-> faults]

\* Mutant: a transformed record is counted whether or not it became valid.
CountedUnjudged(counters, record) ==
  [counters EXCEPT
     !.validSize = @ + (IF record.status = "VALID" THEN 1 ELSE 0),
     !.transformedSize = @ + (IF record.wasTransformed THEN 1 ELSE 0)]

\* The counters once a record that arrived is judged.
Counted(counters, record) ==
  LET valid == IF record.status = "VALID" THEN 1 ELSE 0
  IN [counters EXCEPT !.validSize = @ + valid,
        !.transformedSize = @ + (IF record.wasTransformed THEN valid ELSE 0)]

\* Mutant: the original is observed with the transformed record.
ObservedTogether(record) ==
  IF record.dropped THEN seen
  ELSE [original |-> seen.original + 1,
        transformed |-> seen.transformed + (IF record.transforms THEN 1 ELSE 0)]

\* The originals are observed before the transformation, which may fail, the
\* transformed records after it.
Observed(record) ==
  [original |-> seen.original + 1,
   transformed |-> seen.transformed +
     (IF record.transforms /\ ~record.dropped THEN 1 ELSE 0)]

Examine(metadata) ==
  LET arrived == [mem EXCEPT !.size = @ + 1]
      record == Examined(metadata)
      observes == conf.validation /\ conf.stats
  IN /\ pc = "batch" /\ hand = Nothing
     /\ mem.size < MaxRecords[current]
     /\ IF conf.validation /\ ~record.dropped
        THEN /\ hand' = record
             /\ mem' = Counted(arrived, record)
             /\ spoiled' = spoiled
        ELSE \* nothing saves a record that is not validated
             /\ hand' = hand /\ mem' = arrived
             /\ spoiled' = spoiled \union {current}
     /\ seen' = IF observes THEN Observed(record) ELSE seen
     /\ observed' = IF observes THEN [observed EXCEPT ![current] = @ + 1]
                    ELSE observed
     /\ UNCHANGED <<database, conf, pc, current, admin, failures, cleanings,
                    cleaned, silent, emptied>>

\* recordRepository.save and flush.
SaveRecord ==
  /\ hand.step = "save"
  /\ records' = records \union
       {[snapshot |-> current, number |-> mem.size, status |-> hand.status,
         wasTransformed |-> hand.wasTransformed, faults |-> hand.published]}
  /\ hand' = IF hand.unsaved = {} THEN Nothing
             ELSE [step |-> "explain", unsaved |-> hand.unsaved]
  /\ UNCHANGED <<table, results, statistics, conf, pc, current, mem, seen,
                 admin, failures, cleanings, history>>

\* The save fails: the record is lost, what was counted stays counted.
SaveRecordFails ==
  /\ hand.step = "save"
  /\ failures < MaxFailures
  /\ failures' = failures + 1
  /\ hand' = Nothing
  /\ spoiled' = spoiled \union {current}
  /\ UNCHANGED <<database, conf, pc, current, mem, seen, admin, cleanings,
                 cleaned, silent, observed, emptied>>

HandStored == \E r \in Stored(current) : r.number = mem.size

\* One OAIRecordValidationResult per invalid mandatory field, in any order.
SaveResult(f) ==
  /\ hand.step = "explain" /\ f \in hand.unsaved
  /\ HandStored
  /\ results' = results \union
       {[snapshot |-> current, number |-> mem.size, field |-> f]}
  /\ hand' = IF hand.unsaved = {f} THEN Nothing
             ELSE [hand EXCEPT !.unsaved = @ \ {f}]
  /\ UNCHANGED <<table, records, statistics, conf, pc, current, mem, seen,
                 admin, failures, cleanings, history>>

\* It fails by itself, or because its record has been deleted meanwhile.
SaveResultFails ==
  /\ hand.step = "explain"
  /\ \/ ~HandStored /\ failures' = failures
     \/ HandStored /\ failures < MaxFailures /\ failures' = failures + 1
  /\ hand' = Nothing
  /\ silent' = silent \union {<<current, mem.size>>}
  /\ UNCHANGED <<database, conf, pc, current, mem, seen, admin, cleanings,
                 spoiled, cleaned, observed, emptied>>

EndBatch ==
  /\ hand = Nothing
  /\ StatusStep("batch", "HARVESTING", "harvesting")

-----------------------------------------------------------------------------
(* cleanSnapshot and the two operations that call it. *)

\* The rows of S as the transaction has read them, and whether the run of one
\* was under way then.
Copies(S) ==
  [s \in S |-> [row |-> table[s], running |-> s = current /\ pc # "idle"]]

Cleaning(copies, uncleaned, excess) ==
  [step |-> "clean", copies |-> copies, uncleaned |-> uncleaned, excess |-> excess]

DeleteRecordsBySnapshotID(s) ==
  /\ admin = Nothing /\ cleanings < MaxCleanings
  /\ s \in Rows
  /\ cleanings' = cleanings + 1
  /\ admin' = Cleaning(Copies({s}), {s}, FALSE)
  /\ UNCHANGED <<database, worker, failures, history>>

\* deleteAllButLGKSnapshot: the network comes with its snapshots ...
DeleteAllButLGK ==
  /\ admin = Nothing /\ cleanings < MaxCleanings
  /\ cleanings' = cleanings + 1
  /\ admin' = [step |-> "find", copies |-> Copies(Rows)]
  /\ UNCHANGED <<database, worker, failures, history>>

\* Mutant: the newest snapshot is spared.
ExcessButNewest(copies, lastGoodKnown) ==
  {s \in DOMAIN copies :
     /\ s # Max(DOMAIN copies)
     /\ ~copies[s].row.deleted
     /\ copies[s].row.status \notin {"HARVESTING", "RETRYING", "INDEXING"}}

\* The snapshots to clean, going by their copies.
Excess(copies, lastGoodKnown) ==
  {s \in DOMAIN copies \ {lastGoodKnown} :
     /\ ~copies[s].row.deleted
     /\ copies[s].row.status \notin {"HARVESTING", "RETRYING", "INDEXING"}}

\* Mutant: every row that was read is saved at the end.
FindLastGoodKnownSavingAll ==
  /\ admin.step = "find"
  /\ admin' = Cleaning(admin.copies, Excess(admin.copies, LastGoodKnown), TRUE)
  /\ UNCHANGED <<database, worker, failures, cleanings, history>>

\* ... and the last good known one is asked for after that.
FindLastGoodKnown ==
  /\ admin.step = "find"
  /\ LET excess == Excess(admin.copies, LastGoodKnown)
     IN admin' = Cleaning([s \in excess |-> admin.copies[s]], excess, TRUE)
  /\ UNCHANGED <<database, worker, failures, cleanings, history>>

CleanSnapshot(s) ==
  /\ admin.step = "clean" /\ s \in admin.uncleaned
  /\ admin' = [admin EXCEPT !.uncleaned = @ \ {s}]
  /\ results' = {v \in results : v.snapshot # s}
  /\ statistics' = [statistics EXCEPT ![s] = NoStatistics]
  /\ records' = records \ Stored(s)
  /\ cleaned' = cleaned \union {s}
  /\ emptied' = emptied \union
       {[snapshot |-> s, excess |-> admin.excess,
         status |-> admin.copies[s].row.status, running |-> admin.copies[s].running]}
  /\ UNCHANGED <<table, worker, failures, cleanings, spoiled, silent, observed>>

\* The transaction ends: each row as it was read, marked deleted.
Commit ==
  /\ admin.step = "clean" /\ admin.uncleaned = {}
  /\ table' = [s \in Snapshots |->
                 IF s \in DOMAIN admin.copies
                 THEN [admin.copies[s].row EXCEPT !.deleted = TRUE]
                 ELSE table[s]]
  /\ admin' = Nothing
  /\ UNCHANGED <<records, results, statistics, worker, failures, cleanings,
                 history>>

-----------------------------------------------------------------------------
Run ==
  \/ CreateSnapshot \/ BeginHarvest \/ Retry \/ FatalError
  \/ EndHarvest \/ Publish \/ Indexed \/ EndRun

Batch ==
  \/ BatchArrives \/ EndBatch
  \/ \E s \in Snapshots : \E metadata \in Harvestable[s] :
       s = current /\ Examine(metadata)
  \/ SaveRecord \/ SaveRecordFails
  \/ \E f \in Checked : SaveResult(f)
  \/ SaveResultFails

Administrator ==
  \/ DeleteAllButLGK \/ FindLastGoodKnown \/ Commit
  \/ \E s \in Snapshots : DeleteRecordsBySnapshotID(s) \/ CleanSnapshot(s)

Next == Run \/ Batch \/ Administrator

Spec == Init /\ [][Next]_vars

-----------------------------------------------------------------------------
(* Properties. *)

Steps ==
  {"idle", "load", "harvesting", "batch", "closing", "indexing", "toXOAI",
   "indexingXOAI", "ending"}

RowType ==
  [status : Statuses \union {"ABSENT"}, size : Nat,
   validSize : Nat, transformedSize : Nat,
   deleted : BOOLEAN]

\* What the tables, the worker and the administrator can hold: among it, that
\* no counter passes the size and that a worker's copy is never marked
\* deleted.
TypeOK ==
  /\ table \in [Snapshots -> RowType]
  /\ \A s \in Snapshots : table[s].transformedSize <= table[s].validSize
                          /\ table[s].validSize <= table[s].size
  /\ mem \in RowType /\ ~mem.deleted
  /\ records \subseteq
       [snapshot : Snapshots, number : Nat \ {0},
        status : {"VALID", "INVALID"}, wasTransformed : BOOLEAN,
        faults : SUBSET Checked]
  /\ results \subseteq
       [snapshot : Snapshots, number : Nat \ {0}, field : Checked]
  /\ pc \in Steps /\ current \in Snapshots \union {0}
  /\ hand.step \in {"nothing", "save", "explain"}
  /\ hand # Nothing => pc = "batch"
  /\ admin.step \in {"nothing", "find", "clean"}

\* What was counted of a snapshot and what was stored of it.
Matches(row, s) ==
  LET valid == {r \in Stored(s) : r.status = "VALID"}
  IN /\ row.size = Cardinality(Stored(s))
     /\ row.validSize = Cardinality(valid)
     /\ row.transformedSize = Cardinality({r \in valid : r.wasTransformed})

\* The counters of a snapshot's row are those of its records, whenever no
\* batch of it is being stored, unless a record was dropped on the way or the
\* snapshot was cleaned; and whatever is dropped, the run that stores records
\* has counted every one there is (SnapshotWorker 423-532, 549 and 594-601).
SizesAddUp ==
  /\ \A s \in Rows \ (spoiled \union cleaned) :
       (s = current => pc # "batch") => Matches(table[s], s)
  /\ current # 0 =>
       /\ Cardinality(Stored(current)) <= mem.size
       /\ Cardinality({r \in Stored(current) : r.status = "VALID"})
            <= mem.validSize

\* A record is stored VALID exactly when the metadata published with it, after
\* the transformation, has no invalid mandatory field; an INVALID one has a
\* validation result for every such field and for no other, once it has been
\* dealt with, unless one could not be saved (SnapshotWorker 434-519).
RowsAreJudgedAsPublished ==
  \A r \in records :
    /\ r.status = "VALID" <=> r.faults = {}
    /\ LET told == {v.field : v \in {v \in results : v.snapshot = r.snapshot
                                                     /\ v.number = r.number}}
       IN \/ told = r.faults
          \/ told \subseteq r.faults
             /\ \/ <<r.snapshot, r.number>> \in silent
                \/ r.snapshot = current /\ r.number = mem.size /\ hand # Nothing

\* The snapshot the network is published from is none deleteAllButLGKSnapshot has
\* emptied (BackEndController 387-398), with two exceptions the code leaves.  Its
\* run was under way when the row was read, and the row did not say so: it was
\* INITIALIZED still, or an origin had failed, or, with two indexes, it had the
\* outcome of the first, VALID or not.  Or a later snapshot, VALID after its
\* first index, is so no more because of the second (SnapshotWorker 298-335).
LastGoodSurvives ==
  \A e \in emptied :
    e.excess /\ e.snapshot = LastGoodKnown =>
      \/ /\ e.running
         /\ e.status \in {"VALID", "INDEXING_FINISHED_ERROR"} =>
              conf.indexing /\ conf.xoai
      \/ /\ conf.indexing /\ conf.xoai
         /\ \E s \in Rows : s > LastGoodKnown /\
              table[s].status \in {"INDEXING", "INDEXING_FINISHED_ERROR"}

\* Snapshots cleaned by a transaction that read their row during their run.
Overlapped == {e.snapshot : e \in {e \in emptied : e.running}}

\* A row marked deleted is one whose records, results and statistics are gone,
\* and a row that is not was not cleaned, or is about to be marked; and the row of
\* the last run has the status its worker gave it.  So it is as long as cleanings
\* and runs do not overlap: each side writes whole rows from older readings
\* (BackEndController 253-279, SnapshotWorker 594-601).
MarkedMeansEmptied ==
  \A s \in Rows \ Overlapped :
    /\ table[s].deleted =>
         /\ s \in cleaned /\ Stored(s) = {} /\ statistics[s] = NoStatistics
         /\ \A v \in results : v.snapshot # s
    /\ s \in cleaned =>
         table[s].deleted \/ (admin.step = "clean" /\ s \in DOMAIN admin.copies)
    /\ s = current => table[s].status = mem.status

\* The statistics managers are never reset: the tables saved for a snapshot
\* count the originals of every run of this worker up to it (SnapshotWorker
\* 282-286, BaseCountByFieldStatProcessor 19-30).
StatisticsAccumulate ==
  \A s \in Snapshots :
    statistics[s] # NoStatistics =>
      /\ statistics[s][1] = MapThenSumSet(LAMBDA t : observed[t], 1..s)
      /\ statistics[s][2] <= statistics[s][1]

=============================================================================
