--------------------------- MODULE BatchRuns_proofs ---------------------------
(***************************************************************************)
(* More proofs about Batches: when the network can be published from a     *)
(* snapshot that was emptied, that what is stored has the types the        *)
(* database gives it, and what the statistics of a run count, for any      *)
(* configurations, records, failures and cleanings.                        *)
(*                                                                         *)
(* Recursive definitions are reasoned about by induction on a set of       *)
(* numbers, lemma Induct, which rests on the naturals being well founded.  *)
(***************************************************************************)
EXTENDS Batches_proofs, WellFoundedInduction

-----------------------------------------------------------------------------
(* Natural numbers. *)

\* A set of naturals that is not empty has a least one.
LEMMA Least ==
  ASSUME NEW T, T \subseteq Nat, T # {}
  PROVE  \E m \in T : \A k \in T : ~(k < m)
<1>1. OpToRel(<, Nat) = {p \in Nat \X Nat : p[1] < p[2]}
  BY DEF OpToRel
<1>2. \E m \in T : \A k \in T : ~(<<k, m>> \in OpToRel(<, Nat))
  BY NatLessThanWellFounded, WFMin
<1>3. QED
  BY <1>2 DEF OpToRel

\* Induction: a set that has 0, and with each natural the next, has them all.
LEMMA Induct ==
  ASSUME NEW P, 0 \in P, \A n \in Nat : n \in P => n + 1 \in P
  PROVE  Nat \subseteq P
<1> SUFFICES ASSUME Nat \ P # {} PROVE FALSE
  OBVIOUS
<1>1. PICK m \in Nat \ P : \A k \in Nat \ P : ~(k < m)
  BY Least, Nat \ P \subseteq Nat
<1>2. m # 0 /\ m - 1 \in Nat /\ (m - 1) + 1 = m /\ m - 1 < m
  BY <1>1
<1>3. QED
  BY <1>1, <1>2

\* The largest of some numbers, or of some runs, is one of them.
LEMMA MaxOfNumbers ==
  ASSUME NEW N \in Nat, NEW S \in SUBSET (1..N), S # {}
  PROVE  Max(S) \in S /\ \A s \in S : Max(S) >= s
<1> DEFINE T == {k \in Nat : k <= N /\ N - k \in S}
<1>1. \A s \in S : s \in Nat /\ s <= N /\ N - s \in Nat /\ N - (N - s) = s
  OBVIOUS
<1>2. \A s \in S : N - s \in T
  BY <1>1
<1>3. PICK m \in T : \A k \in T : ~(k < m)
  BY <1>2, Least
<1>4. N - m \in S /\ m \in Nat
  OBVIOUS
<1>5. \A s \in S : N - m >= s
  BY <1>1, <1>2, <1>3
<1>6. QED
  BY <1>4, <1>5 DEF Max

LEMMA MaxOfNext ==
  ASSUME NEW n \in Nat, NEW S \in SUBSET (1..(n + 1)), ~(S \subseteq 1..n)
  PROVE  S # {} /\ Max(S) = n + 1 /\ S \ {Max(S)} \subseteq 1..n
<1>1. n + 1 \in S /\ \A s \in S : n + 1 >= s
  OBVIOUS
<1>2. Max(S) \in S /\ Max(S) >= n + 1
  BY <1>1 DEF Max
<1>3. Max(S) \in 1..(n + 1)
  BY <1>2
<1>4. Max(S) = n + 1
  BY <1>2, <1>3
<1>5. QED
  BY <1>1, <1>4

LEMMA MaxOfRuns ==
  ASSUME NEW S \in SUBSET Snapshots, S # {}
  PROVE  Max(S) \in S /\ \A s \in S : Max(S) >= s
  BY MaxOfNumbers, BatchesAssumption, FS_CardinalityType

-----------------------------------------------------------------------------
(* The snapshot the network is published from. *)

\* The network has two indexes: what the first one says is not the last word.
Twice == conf.indexing /\ conf.xoai

\* What the status of a run can be once it was VALID: the second index takes
\* the place of the first.
Outcome(status) ==
  status = "VALID" \/ (status \in {"INDEXING", "INDEXING_FINISHED_ERROR"} /\ Twice)

\* A run that has been VALID, as far as the worker remembers it.
Done(s) ==
  /\ s \in Snapshots /\ s <= current
  /\ s = current => /\ pc \in {"toXOAI", "indexingXOAI", "ending", "idle"}
                    /\ Outcome(mem.status)

\* The same, and whatever is or will be written to its row says so.
Settled(s) ==
  /\ Done(s) /\ Outcome(table[s].status)
  /\ admin.step # "nothing" /\ s \in DOMAIN admin.copies =>
       Outcome(admin.copies[s].row.status)

Outgrown(s) == \E t \in Snapshots : t > s /\ Settled(t)

\* A run that will not become VALID any more.
Finished(s) ==
  /\ s \in Snapshots /\ s <= current
  /\ s = current => pc = "idle" \/ (pc = "ending" /\ mem.status # "VALID")

\* The same, and nothing that is or will be written to its row says VALID.
Never(s) ==
  /\ Finished(s) /\ table[s].status # "VALID"
  /\ admin.step # "nothing" /\ s \in DOMAIN admin.copies =>
       admin.copies[s].row.status # "VALID"

\* The order in which a run gets its statuses.
StatusOrder ==
  /\ pc = "toXOAI" => Twice
  /\ pc \in {"indexing", "toXOAI"} => conf.indexing /\ conf.published
  /\ pc = "indexingXOAI" => conf.xoai /\ mem.status = "INDEXING"
  /\ pc \in {"closing", "harvesting", "batch", "load"} => mem.status # "VALID"

\* What the outcome in a row, or in a copy of one, says of the run.
OutcomesKnown ==
  /\ \A s \in Snapshots :
       /\ table[s].status = "VALID" => Done(s)
       /\ table[s].status = "INDEXING_FINISHED_ERROR" => Twice \/ Finished(s)
  /\ admin.step # "nothing" =>
       \A s \in DOMAIN admin.copies :
         /\ admin.copies[s].row.status = "VALID" => Settled(s)
         /\ admin.copies[s].row.status = "INDEXING_FINISHED_ERROR" => Twice \/ Never(s)

\* A reading of the row of a run under way that does not say what comes of it.
Premature(running, status) ==
  running /\ (status \in {"VALID", "INDEXING_FINISHED_ERROR"} => Twice)

\* Why a snapshot is in excess.
Justified(s, running, status) ==
  s \in Snapshots /\ (Outgrown(s) \/ Never(s) \/ Premature(running, status))

PublishedInv ==
  /\ StatusOrder /\ OutcomesKnown
  /\ \A e \in emptied : e.excess => Justified(e.snapshot, e.running, e.status)
  /\ admin.step = "clean" /\ admin.excess =>
       \A s \in DOMAIN admin.copies :
         Justified(s, admin.copies[s].running, admin.copies[s].row.status)

\* A step of the worker: what was done stays done, what is finished gets no more
\* VALID, and only its own row changes, to the status it remembers.
LEMMA WorkerPublishes ==
  ASSUME BInv, PublishedInv, UNCHANGED <<admin, emptied, conf>>, StatusOrder',
         \A s \in Snapshots : Done(s) => Done(s)',
         \A s \in Snapshots : Finished(s) =>
           /\ Finished(s)'
           /\ table'[s].status = table[s].status \/ table'[s].status # "VALID",
         \A s \in Snapshots :
           \/ table'[s].status = table[s].status
           \/ /\ s = current' /\ table'[s].status = mem'.status
              /\ mem'.status = "VALID" => Done(s)'
              /\ mem'.status = "INDEXING_FINISHED_ERROR" => Twice \/ Finished(s)'
  PROVE  PublishedInv'
<1>1. ASSUME NEW s \in Snapshots, Settled(s) PROVE Settled(s)'
  <2>1. Done(s)' /\ Outcome(table[s].status)
    BY <1>1 DEF Settled
  <2>2. Outcome(table[s].status)'
    BY <2>1 DEF Done, Outcome, Twice
  <2>3. QED
    BY <1>1, <2>1, <2>2 DEF Settled, Outcome, Twice
<1>2. ASSUME NEW s \in Snapshots, Outgrown(s) PROVE Outgrown(s)'
  BY <1>1, <1>2 DEF Outgrown
<1>3. ASSUME NEW s \in Snapshots, Never(s) PROVE Never(s)'
  BY <1>3 DEF Never
<1>4. ASSUME NEW s, NEW running, NEW status, Justified(s, running, status)
      PROVE  Justified(s, running, status)'
  BY <1>2, <1>3, <1>4 DEF Justified, Premature, Twice
<1>5. ASSUME NEW s \in Snapshots
      PROVE  /\ table'[s].status = "VALID" => Done(s)'
             /\ table'[s].status = "INDEXING_FINISHED_ERROR" => Twice' \/ Finished(s)'
  BY <1>5 DEF PublishedInv, OutcomesKnown, Twice
<1>6. ASSUME admin.step # "nothing", NEW s \in DOMAIN admin.copies
      PROVE  /\ admin.copies[s].row.status = "VALID" => Settled(s)'
             /\ admin.copies[s].row.status = "INDEXING_FINISHED_ERROR" =>
                  Twice' \/ Never(s)'
  <2>1. s \in Snapshots
    BY <1>6 DEF BInv, AdminOK
  <2>2. QED
    BY <1>1, <1>3, <1>6, <2>1 DEF PublishedInv, OutcomesKnown, Twice
<1>7. OutcomesKnown'
  BY <1>5, <1>6 DEF OutcomesKnown
<1>8. QED
  BY <1>4, <1>7 DEF PublishedInv

LEMMA StatusStepPublishes ==
  ASSUME BInv, PublishedInv, NEW from, NEW to, NEW status,
         StatusStep(from, status, to), from \notin {"idle", "ending"}, StatusOrder',
         status = "VALID" => to \in {"toXOAI", "ending"},
         status = "INDEXING_FINISHED_ERROR" => Twice \/ to = "ending",
         from \in {"toXOAI", "indexingXOAI", "ending"} /\ Outcome(mem.status) =>
           to \in {"toXOAI", "indexingXOAI", "ending", "idle"} /\ Outcome(status)
  PROVE  PublishedInv'
<1>1. /\ pc = from /\ pc' = to /\ UNCHANGED <<current, conf, admin, emptied>>
      /\ mem' = [mem EXCEPT !.status = status] /\ table' = [table EXCEPT ![current] = mem']
      /\ current \in Snapshots
  BY DEF StatusStep, Move, SetStatus, history, BInv, WorkerOK
<1>2. mem'.status = status /\ \A s \in Snapshots :
        table'[s] = IF s = current THEN mem' ELSE table[s]
  BY <1>1 DEF BInv, WorkerOK, RowType
<1>3. ASSUME NEW s \in Snapshots, Done(s) PROVE Done(s)'
  BY <1>1, <1>2, <1>3 DEF Done, Outcome, Twice
<1>4. status = "VALID" => Done(current)'
  BY <1>1, <1>2, Numbers DEF Done, Outcome
<1>5. ASSUME NEW s \in Snapshots, Finished(s)
      PROVE  Finished(s)' /\ table'[s].status = table[s].status
  BY <1>1, <1>2, <1>5 DEF Finished
<1>6. status = "INDEXING_FINISHED_ERROR" => Twice \/ Finished(current)'
  BY <1>1, <1>2, Numbers DEF Finished
<1>7. QED
  BY <1>1, <1>2, <1>3, <1>4, <1>5, <1>6, WorkerPublishes

LEMMA RunPublishes ==
  ASSUME BInv, PublishedInv, Run
  PROVE  PublishedInv'
<1>0. StatusOrder
  BY DEF PublishedInv
<1>1. CASE CreateSnapshot
  <2>1. /\ UNCHANGED <<admin, emptied, conf>> /\ pc' = "load" /\ mem' = NewRow
        /\ table' = [table EXCEPT ![current'] = NewRow]
        /\ current \in Nat /\ current' = current + 1
    BY <1>1, Numbers DEF CreateSnapshot, Move, history, BInv, WorkerOK
  <2>2. StatusOrder'
    BY <2>1 DEF StatusOrder, NewRow, Row
  <2>3. ASSUME NEW s \in Snapshots, Done(s) PROVE Done(s)'
    BY <2>1, <2>3, Numbers DEF Done
  <2>4. \A s \in Snapshots :
          \/ table'[s].status = table[s].status
          \/ /\ s = current' /\ table'[s].status = mem'.status
             /\ mem'.status \notin {"VALID", "INDEXING_FINISHED_ERROR"}
    BY <2>1 DEF NewRow, Row, BInv, WorkerOK
  <2>5. ASSUME NEW s \in Snapshots, Finished(s)
        PROVE  Finished(s)' /\ table'[s].status = table[s].status
    BY <2>1, <2>5, Numbers DEF Finished, BInv, WorkerOK
  <2>6. QED
    BY <2>1, <2>2, <2>3, <2>4, <2>5, WorkerPublishes
<1>2. CASE BeginHarvest \/ Retry \/ FatalError
  <2>1. StatusOrder'
    BY <1>2 DEF BeginHarvest, Retry, FatalError, StatusStep, SetStatus, Move, StatusOrder,
                BInv, WorkerOK, RowType
  <2>2. QED
    BY <1>2, <2>1, StatusStepPublishes DEF BeginHarvest, Retry, FatalError
<1>3. CASE Indexed
  <2>1. PICK status \in {"VALID", "INDEXING_FINISHED_ERROR"} :
          \/ StatusStep("indexing", status, IF conf.xoai THEN "toXOAI" ELSE "ending")
          \/ StatusStep("indexingXOAI", status, "ending")
    BY <1>3 DEF Indexed
  <2>2. StatusOrder'
    BY <1>0, <2>1 DEF StatusStep, Move, StatusOrder, Twice
  <2>3. CASE StatusStep("indexing", status, IF conf.xoai THEN "toXOAI" ELSE "ending")
    <3>1. conf.xoai => Twice
      BY <1>0, <2>3 DEF StatusStep, Move, StatusOrder, Twice
    <3>2. QED
      BY <2>2, <2>3, <3>1, StatusStepPublishes
  <2>4. CASE StatusStep("indexingXOAI", status, "ending")
    <3>1. Outcome(mem.status) => Outcome(status)
      BY <1>0, <2>1, <2>4 DEF StatusOrder, Outcome, StatusStep, Move
    <3>2. QED
      BY <2>2, <2>4, <3>1, StatusStepPublishes
  <2>5. QED
    BY <2>1, <2>3, <2>4
<1>4. CASE EndHarvest
  <2>1. /\ UNCHANGED <<admin, emptied, conf, current, mem, table>>
        /\ pc = "harvesting" /\ pc' \in {"ending", "closing"}
    BY <1>4 DEF EndHarvest, history
  <2>2. StatusOrder'
    BY <1>0, <2>1 DEF StatusOrder
  <2>3. ASSUME NEW s \in Snapshots PROVE (Done(s) => Done(s)') /\ (Finished(s) => Finished(s)')
    BY <2>1, <2>3 DEF Done, Finished
  <2>4. QED
    BY <2>1, <2>2, <2>3, WorkerPublishes
<1>5. CASE Publish
  <2>1. CASE ~conf.published /\ StatusStep("closing", "VALID", "ending")
    <3>1. StatusOrder'
      BY <2>1 DEF StatusStep, Move, StatusOrder
    <3>2. QED
      BY <2>1, <3>1, StatusStepPublishes
  <2>2. CASE conf.published /\ conf.indexing /\ StatusStep("closing", "INDEXING", "indexing")
    <3>1. StatusOrder'
      BY <2>2 DEF StatusStep, Move, StatusOrder
    <3>2. QED
      BY <2>2, <3>1, StatusStepPublishes
  <2>3. CASE conf.xoai /\ StatusStep("closing", "INDEXING", "indexingXOAI")
    <3>1. StatusOrder'
      BY <2>3 DEF StatusStep, Move, StatusOrder, SetStatus, BInv, WorkerOK, RowType
    <3>2. QED
      BY <2>3, <3>1, StatusStepPublishes
  <2>4. CASE Move("closing", "ending") /\ UNCHANGED <<table, conf, current, mem,
                                                    admin, history>>
    <3>1. StatusOrder'
      BY <2>4 DEF Move, StatusOrder
    <3>2. ASSUME NEW s \in Snapshots PROVE (Done(s) => Done(s)') /\ (Finished(s) => Finished(s)')
      BY <2>4, <3>2 DEF Done, Finished, Move
    <3>3. QED
      BY <2>4, <3>1, <3>2, WorkerPublishes DEF history
  <2>5. CASE StatusStep("toXOAI", "INDEXING", "indexingXOAI")
    <3>1. StatusOrder'
      BY <1>0, <2>5 DEF StatusStep, Move, StatusOrder, Twice, SetStatus, BInv, WorkerOK, RowType
    <3>2. Outcome("INDEXING")
      BY <1>0, <2>5 DEF StatusOrder, Outcome, StatusStep, Move
    <3>3. QED
      BY <2>5, <3>1, <3>2, StatusStepPublishes
  <2>6. QED
    BY <1>5, <2>1, <2>2, <2>3, <2>4, <2>5 DEF Publish
<1>6. CASE EndRun
  <2>1. /\ UNCHANGED <<admin, emptied, conf, current>> /\ pc = "ending" /\ pc' = "idle"
        /\ mem' = mem /\ table' = [table EXCEPT ![current] = mem] /\ current \in Snapshots
    BY <1>6 DEF EndRun, StatusStep, Move, SetStatus, history, BInv, WorkerOK, RowType
  <2>2. StatusOrder'
    BY <2>1 DEF StatusOrder
  <2>3. ASSUME NEW s \in Snapshots, Done(s) PROVE Done(s)'
    BY <2>1, <2>3 DEF Done, Outcome, Twice
  <2>4. (mem.status = "VALID" => Done(current)') /\ Finished(current)'
    BY <2>1, Numbers DEF Done, Outcome, Finished
  <2>5. \A s \in Snapshots : table'[s] = IF s = current THEN mem' ELSE table[s]
    BY <2>1 DEF BInv, WorkerOK
  <2>6. ASSUME NEW s \in Snapshots, Finished(s)
        PROVE  /\ Finished(s)'
               /\ table'[s].status = table[s].status \/ table'[s].status # "VALID"
    BY <2>1, <2>5, <2>6 DEF Finished
  <2>7. QED
    BY <2>1, <2>2, <2>3, <2>4, <2>5, <2>6, WorkerPublishes
<1>7. QED
  BY <1>1, <1>2, <1>3, <1>4, <1>5, <1>6 DEF Run

\* While batches are stored the worker is not done with its run.
LEMMA BatchPublishes ==
  ASSUME BInv, PublishedInv, Batch
  PROVE  PublishedInv'
<1>1. ASSUME pc = "batch", UNCHANGED <<pc, table, current, conf, admin, emptied>>,
             mem'.status = mem.status
      PROVE  PublishedInv'
  <2>1. StatusOrder'
    BY <1>1 DEF StatusOrder, PublishedInv, Twice
  <2>2. ASSUME NEW s \in Snapshots PROVE (Done(s) => Done(s)') /\ (Finished(s) => Finished(s)')
    BY <1>1, <2>2 DEF Done, Finished
  <2>3. QED
    BY <1>1, <2>1, <2>2, WorkerPublishes
<1>2. CASE BatchArrives
  <2>1. /\ UNCHANGED <<admin, emptied, conf, current, mem, table>>
        /\ pc = "harvesting" /\ pc' = "batch"
    BY <1>2 DEF BatchArrives, Move, history, database
  <2>2. StatusOrder'
    BY <2>1 DEF StatusOrder, PublishedInv, Twice
  <2>3. ASSUME NEW s \in Snapshots PROVE (Done(s) => Done(s)') /\ (Finished(s) => Finished(s)')
    BY <2>1, <2>3 DEF Done, Finished
  <2>4. QED
    BY <2>1, <2>2, <2>3, WorkerPublishes
<1>3. CASE EndBatch
  <2>1. StatusOrder'
    BY <1>3 DEF EndBatch, StatusStep, SetStatus, Move, StatusOrder, BInv, WorkerOK, RowType
  <2>2. QED
    BY <1>3, <2>1, StatusStepPublishes DEF EndBatch
<1>4. ASSUME NEW s \in Snapshots, NEW metadata, s = current, Examine(metadata)
      PROVE  PublishedInv'
  <2> DEFINE arrived == [mem EXCEPT !.size = @ + 1]
             record == Examined(metadata)
  <2>1. arrived \in RowType /\ arrived.status = mem.status
    BY DEF BInv, WorkerOK, RowType
  <2>2. mem' = Counted(arrived, record) \/ mem' = arrived
    BY <1>4 DEF Examine
  <2>3. Counted(arrived, record).status = mem.status
    BY <2>1, CountedFacts
  <2> HIDE DEF arrived, record
  <2>4. mem'.status = mem.status
    BY <2>1, <2>2, <2>3
  <2>5. QED
    BY <1>1, <1>4, <2>4 DEF Examine, database
<1>5. ASSUME SaveRecord \/ SaveRecordFails \/ SaveResultFails
             \/ \E f \in Checked : SaveResult(f)
      PROVE  PublishedInv'
  <2>1. pc = "batch"
    BY <1>5 DEF BInv, HandOK, SaveRecord, SaveRecordFails, SaveResultFails, SaveResult
  <2>2. QED
    BY <1>1, <1>5, <2>1 DEF SaveRecord, SaveRecordFails, SaveResultFails, SaveResult,
                            history, database
<1>6. QED
  BY <1>2, <1>3, <1>4, <1>5 DEF Batch

\* A step of the administrator: the worker is where it was, and what was settled
\* stays so when the rows written and the copies read are of settled runs.
LEMMA AdministratorPublishes ==
  ASSUME BInv, MarkInv, PublishedInv, Administrator
  PROVE  PublishedInv'
<1>0. /\ UNCHANGED <<pc, current, mem, conf>>
      /\ \A s \in Snapshots : (Done(s)' <=> Done(s)) /\ (Finished(s)' <=> Finished(s))
      /\ StatusOrder' /\ Twice' = Twice
  <2>1. UNCHANGED <<pc, current, mem, conf>>
    BY DEF Administrator, DeleteAllButLGK, FindLastGoodKnown, Commit,
           DeleteRecordsBySnapshotID, CleanSnapshot, worker
  <2>2. QED
    BY <2>1 DEF Done, Finished, Outcome, StatusOrder, PublishedInv, Twice
\* What holds after the step, as the facts about snapshots that it must keep.
<1>1. ASSUME \A s \in Snapshots : Settled(s) => Settled(s)',
             \A s \in Snapshots : Never(s) => Never(s)'
      PROVE  /\ \A s \in Snapshots : Outgrown(s) => Outgrown(s)'
             /\ \A s, running, status :
                  Justified(s, running, status) => Justified(s, running, status)'
  <2>1. \A s \in Snapshots : Outgrown(s) => Outgrown(s)'
    BY <1>1 DEF Outgrown
  <2>2. QED
    BY <1>0, <1>1, <2>1 DEF Justified, Premature
<1>2. ASSUME admin = Nothing, UNCHANGED <<table, emptied>>,
             NEW S \in SUBSET Snapshots,
             \/ admin' = [step |-> "find", copies |-> Copies(S)]
             \/ admin' = Cleaning(Copies(S), S, FALSE)
      PROVE  PublishedInv'
  <2>1. /\ admin'.copies = Copies(S) /\ DOMAIN Copies(S) = S
        /\ admin'.step = "clean" => ~admin'.excess
    BY <1>2 DEF Cleaning, Copies
  <2>2. \A s \in S : Copies(S)[s].row = table[s]
    BY DEF Copies
  <2>3. ASSUME NEW s \in Snapshots PROVE (Settled(s) => Settled(s)') /\ (Never(s) => Never(s)')
    BY <1>0, <1>2, <2>1, <2>2 DEF Settled, Never, Outcome
  <2>4. ASSUME NEW s \in S
        PROVE  /\ table[s].status = "VALID" => Settled(s)'
               /\ table[s].status = "INDEXING_FINISHED_ERROR" => Twice' \/ Never(s)'
    BY <1>0, <1>2, <2>1, <2>2, <2>4
    DEF PublishedInv, OutcomesKnown, Settled, Never, Outcome
  <2>5. OutcomesKnown'
    BY <1>0, <1>2, <2>1, <2>2, <2>4 DEF PublishedInv, OutcomesKnown
  <2>6. QED
    BY <1>0, <1>1, <1>2, <2>1, <2>3, <2>5 DEF PublishedInv
<1>3. CASE DeleteAllButLGK
  BY <1>2, <1>3, Rows \subseteq Snapshots DEF DeleteAllButLGK, database, history, Rows
<1>4. ASSUME NEW s \in Snapshots, DeleteRecordsBySnapshotID(s) PROVE PublishedInv'
  BY <1>2, <1>4, {s} \subseteq Snapshots DEF DeleteRecordsBySnapshotID, database, history
<1>5. CASE FindLastGoodKnown
  <2> DEFINE excess == Excess(admin.copies, LastGoodKnown)
  <2>1. /\ admin.step = "find" /\ UNCHANGED <<table, emptied>>
        /\ admin' = Cleaning([s \in excess |-> admin.copies[s]], excess, TRUE)
    BY <1>5 DEF FindLastGoodKnown, database, history
  <2>2. /\ admin'.step = "clean" /\ DOMAIN admin'.copies = excess
        /\ \A s \in excess : admin'.copies[s] = admin.copies[s]
    BY <2>1 DEF Cleaning
  <2>3. excess \subseteq DOMAIN admin.copies \ {LastGoodKnown}
        /\ DOMAIN admin.copies \subseteq Snapshots
    BY <2>1 DEF Excess, BInv, AdminOK
  <2> HIDE DEF excess
  <2>4. ASSUME NEW s \in Snapshots
        PROVE  (Settled(s) => Settled(s)') /\ (Never(s) => Never(s)')
    BY <1>0, <2>1, <2>2, <2>3 DEF Settled, Never, Outcome
  <2>5. OutcomesKnown'
    BY <1>0, <2>1, <2>2, <2>3, <2>4 DEF PublishedInv, OutcomesKnown
  <2>6. ASSUME NEW s \in excess, Settled(s), table[s].status = "VALID"
        PROVE  Outgrown(s)'
    <3> DEFINE valid == {t \in Snapshots : table[t].status = "VALID"}
    <3>1. s \in valid /\ LastGoodKnown = Max(valid)
      BY <2>3, <2>6 DEF LastGoodKnown
    <3>2. Max(valid) \in valid /\ Max(valid) >= s
      BY <3>1, MaxOfRuns, valid \in SUBSET Snapshots
    <3>3. PICK last \in Snapshots : last = LastGoodKnown
      BY <3>1, <3>2
    <3>4. last > s /\ last \notin excess /\ table[last].status = "VALID"
      <4>1. last \in Nat /\ s \in Nat /\ last >= s
        BY <3>1, <3>2, <3>3, Numbers
      <4>2. s # last /\ last \notin excess /\ last \in valid
        BY <2>3, <3>1, <3>2, <3>3
      <4>3. QED
        BY <4>1, <4>2
    <3>5. Settled(last)'
      BY <1>0, <2>1, <2>2, <3>4 DEF Settled, Outcome, PublishedInv, OutcomesKnown
    <3>6. QED
      BY <3>4, <3>5 DEF Outgrown
  <2>7. ASSUME NEW s \in excess
        PROVE  Justified(s, admin.copies[s].running, admin.copies[s].row.status)'
    <3> DEFINE copy == admin.copies[s]
    <3>1. s \in Snapshots /\ s \in DOMAIN admin.copies
      BY <2>3
    <3>2. /\ copy.row.status = "VALID" => Settled(s)
          /\ copy.row.status = "INDEXING_FINISHED_ERROR" => Twice \/ Never(s)
          /\ ~copy.running => Over(s) /\ table[s] = copy.row
      BY <2>1, <3>1 DEF PublishedInv, OutcomesKnown, MarkInv, ReadingsMarked
    <3>3. CASE copy.row.status = "VALID" /\ ~(copy.running /\ Twice)
      <4>1. table[s].status = "VALID"
        BY <3>2, <3>3 DEF Settled, Outcome
      <4>2. QED
        BY <2>6, <3>1, <3>2, <3>3, <4>1 DEF Justified
    <3>4. CASE copy.row.status # "VALID" /\ ~copy.running
      <4>1. Never(s)
        BY <3>1, <3>2, <3>4 DEF Never, Finished, Over
      <4>2. QED
        BY <2>4, <3>1, <4>1 DEF Justified
    <3>5. CASE copy.running /\ copy.row.status = "INDEXING_FINISHED_ERROR" /\ ~Twice
      BY <2>4, <3>1, <3>2, <3>5 DEF Justified
    <3>6. CASE Premature(copy.running, copy.row.status)
      <4>1. Premature(copy.running, copy.row.status)'
        BY <1>0, <2>2, <3>6 DEF Premature
      <4>2. QED
        BY <2>2, <3>1, <4>1 DEF Justified
    <3>7. QED
      BY <3>3, <3>4, <3>5, <3>6 DEF Premature
  <2>8. \A e \in emptied : e.excess => Justified(e.snapshot, e.running, e.status)'
    BY <1>1, <2>4 DEF PublishedInv
  <2>9. QED
    BY <1>0, <2>1, <2>2, <2>5, <2>7, <2>8 DEF PublishedInv
<1>6. ASSUME NEW s \in Snapshots, CleanSnapshot(s) PROVE PublishedInv'
  <2> DEFINE new == [snapshot |-> s, excess |-> admin.excess,
                     status |-> admin.copies[s].row.status,
                     running |-> admin.copies[s].running]
  <2>1. /\ admin.step = "clean" /\ table' = table /\ s \in admin.uncleaned
        /\ admin' = [admin EXCEPT !.uncleaned = @ \ {s}]
        /\ emptied' = emptied \union {new}
        /\ admin = Cleaning(admin.copies, admin.uncleaned, admin.excess)
        /\ s \in DOMAIN admin.copies
    BY <1>6 DEF CleanSnapshot, BInv, AdminOK
  <2>2. /\ admin'.step = "clean" /\ admin'.copies = admin.copies
        /\ admin'.excess = admin.excess
    BY <2>1 DEF Cleaning
  <2>3. ASSUME NEW t \in Snapshots
        PROVE  (Settled(t) => Settled(t)') /\ (Never(t) => Never(t)')
    BY <1>0, <2>1, <2>2 DEF Settled, Never, Outcome
  <2>4. OutcomesKnown'
    BY <1>0, <2>1, <2>2, <2>3 DEF PublishedInv, OutcomesKnown, BInv, AdminOK
  <2>5. \A e \in emptied : e.excess => Justified(e.snapshot, e.running, e.status)'
    BY <1>1, <2>3 DEF PublishedInv
  <2>6. admin.excess => \A t \in DOMAIN admin.copies :
          Justified(t, admin.copies[t].running, admin.copies[t].row.status)
    BY <2>1 DEF PublishedInv
  <2>7. ASSUME admin.excess, NEW t \in DOMAIN admin.copies,
               NEW running, running = admin.copies[t].running,
               NEW status, status = admin.copies[t].row.status
        PROVE  Justified(t, running, status)'
    BY <1>1, <2>3, <2>6, <2>7
  <2>8. admin.excess => Justified(new.snapshot, new.running, new.status)'
    BY <2>1, <2>2, <2>7
  <2>9. QED
    BY <1>0, <2>1, <2>2, <2>4, <2>5, <2>7, <2>8 DEF PublishedInv
<1>7. CASE Commit
  <2>1. /\ admin.step = "clean" /\ UNCHANGED emptied /\ admin' = Nothing
        /\ table' = [s \in Snapshots |->
                       IF s \in DOMAIN admin.copies
                       THEN [admin.copies[s].row EXCEPT !.deleted = TRUE]
                       ELSE table[s]]
    BY <1>7 DEF Commit, history
  <2>2. \A s \in Snapshots : table'[s].status =
          IF s \in DOMAIN admin.copies THEN admin.copies[s].row.status ELSE table[s].status
    BY <2>1 DEF BInv, AdminOK, RowType
  <2>3. ASSUME NEW s \in Snapshots
        PROVE  (Settled(s) => Settled(s)') /\ (Never(s) => Never(s)')
    BY <1>0, <2>1, <2>2 DEF Settled, Never, Outcome, Nothing
  <2>4. OutcomesKnown'
    BY <1>0, <2>1, <2>2 DEF PublishedInv, OutcomesKnown, Settled, Never, Nothing
  <2>5. QED
    BY <1>0, <1>1, <2>1, <2>3, <2>4 DEF PublishedInv, Nothing
<1>8. QED
  BY <1>3, <1>4, <1>5, <1>6, <1>7 DEF Administrator

\* The snapshot the network is published from is none deleteAllButLGKSnapshot has
\* emptied, with two exceptions: its row was read while its run was under way,
\* INITIALIZED or with an outcome that was not its last; or a later snapshot was
\* VALID after its first index and is so no more because of the second
\* (BackEndController 387-398, SnapshotWorker 298-335).
THEOREM Publishing == Spec => []LastGoodSurvives
<1>1. Init => PublishedInv
  BY DEF Init, PublishedInv, StatusOrder, OutcomesKnown, NoRow, Row, Nothing
<1>2. BInv /\ MarkInv /\ PublishedInv /\ [Next]_vars => PublishedInv'
  <2>1. ASSUME PublishedInv, UNCHANGED vars PROVE PublishedInv'
    BY <2>1 DEF vars, database, worker, history, PublishedInv, StatusOrder, OutcomesKnown,
                Justified, Premature, Outgrown, Settled, Never, Done, Finished, Outcome,
                Twice
  <2>2. QED
    BY <2>1, RunPublishes, BatchPublishes, AdministratorPublishes DEF Next
<1>3. BInv /\ PublishedInv => LastGoodSurvives
  <2> SUFFICES ASSUME BInv, PublishedInv,
                      NEW e \in emptied, e.excess, e.snapshot = LastGoodKnown,
                      ~Premature(e.running, e.status)
               PROVE  /\ Twice
                      /\ \E s \in Rows : s > LastGoodKnown /\
                           table[s].status \in {"INDEXING", "INDEXING_FINISHED_ERROR"}
    BY DEF LastGoodSurvives, Premature, Twice
  <2> DEFINE valid == {s \in Snapshots : table[s].status = "VALID"}
  <2>1. LastGoodKnown \in Snapshots /\ (Outgrown(LastGoodKnown) \/ Never(LastGoodKnown))
    BY DEF PublishedInv, Justified
  <2>2. valid # {} /\ LastGoodKnown = Max(valid)
    BY <2>1, Numbers DEF LastGoodKnown
  <2>3. LastGoodKnown \in valid /\ \A s \in valid : LastGoodKnown >= s
    BY <2>2, MaxOfRuns, valid \in SUBSET Snapshots
  <2>4. PICK t \in Snapshots : t > LastGoodKnown /\ Settled(t)
    BY <2>1, <2>3 DEF Outgrown, Never
  <2>5. table[t].status # "VALID"
    BY <2>1, <2>3, <2>4, Numbers
  <2>6. t \in Rows
    BY <2>4, <2>5 DEF Settled, Outcome, Rows, NoRow, Row
  <2>7. QED
    BY <2>4, <2>5, <2>6 DEF Settled, Outcome
<1>4. QED
  BY <1>1, <1>2, <1>3, AlwaysBInv, AlwaysMarkInv, PTL DEF Spec

-----------------------------------------------------------------------------
(* Types. *)

\* A transformer's turn, in TransformerImpl's loop.
AfterTurn(t, sofar, valid) ==
  IF sofar.failed \/ (~t.applyIfValid /\ t.field \in valid)
  THEN sofar
  ELSE IF ~t.applyIfValid /\ t.field \notin Checked
  THEN [sofar EXCEPT !.failed = TRUE]
  ELSE [metadata |-> Apply(t, sofar.metadata).metadata,
        transformed |-> sofar.transformed \/ Apply(t, sofar.metadata).transformed,
        failed |-> FALSE]

Untransformed(metadata) ==
  [metadata |-> metadata, transformed |-> FALSE, failed |-> FALSE]

\* The loop, turn by turn.
LEMMA TransformTurns ==
  ASSUME NEW ts, NEW N \in Nat, DOMAIN ts = 1..N, NEW metadata, NEW valid
  PROVE  \E h : /\ h[0] = Untransformed(metadata)
                /\ \A k \in 1..N : h[k] = AfterTurn(ts[k], h[k - 1], valid)
                /\ Transform(ts, metadata, valid) = h[N]
<1> DEFINE base == Untransformed(metadata)
           Step(sofar, t) == AfterTurn(t, sofar, valid)
           F(g, S) == IF S = {} THEN base ELSE Step(g[S \ {Max(S)}], ts[Max(S)])
           IsFold(g, n) == g = [S \in SUBSET (1..n) |-> F(g, S)]
<1>1. Transform(ts, metadata, valid) =
        (CHOOSE g : g = [S \in SUBSET (DOMAIN ts) |-> F(g, S)])[DOMAIN ts]
  BY DEF Transform, FoldLeft, MapThenFoldSet, AfterTurn, Untransformed
<1> HIDE DEF Step, base
<1>2. \A n \in Nat : \E g : IsFold(g, n)
  <2> DEFINE P == {n \in Nat : \E g : IsFold(g, n)}
  <2>1. 0 \in P
    <3> DEFINE g == [S \in SUBSET (1..0) |-> base]
    <3>1. SUBSET (1..0) = {{}}
      OBVIOUS
    <3>2. IsFold(g, 0)
      BY <3>1
    <3>3. QED
      BY <3>2
  <2>2. ASSUME NEW n \in Nat, n \in P PROVE n + 1 \in P
    <3>0. n + 1 \in Nat
      OBVIOUS
    <3>1. PICK g : IsFold(g, n)
      BY <2>2
    <3> DEFINE h == [S \in SUBSET (1..(n + 1)) |-> IF S \subseteq 1..n THEN g[S] ELSE F(g, S)]
    <3>2. ASSUME NEW S \in SUBSET (1..(n + 1)) PROVE h[S] = F(h, S)
      <4>1. CASE S \subseteq 1..n
        <5>1. h[S] = F(g, S)
          BY <3>1, <4>1
        <5>2. S # {} => h[S \ {Max(S)}] = g[S \ {Max(S)}]
          BY <4>1
        <5>3. QED
          BY <5>1, <5>2
      <4>2. CASE ~(S \subseteq 1..n)
        <5>1. S # {} /\ S \ {Max(S)} \subseteq 1..n
          BY <4>2, MaxOfNext
        <5>2. h[S \ {Max(S)}] = g[S \ {Max(S)}]
          BY <5>1
        <5>3. QED
          BY <4>2, <5>1, <5>2
      <4>3. QED
        BY <4>1, <4>2
    <3>3. IsFold(h, n + 1)
      BY <3>2
    <3> HIDE DEF h, IsFold
    <3>4. QED
      BY <3>0, <3>3
  <2>3. QED
    BY <2>1, <2>2, Induct
<1>3. PICK g : IsFold(g, N) /\ Transform(ts, metadata, valid) = g[1..N]
  BY <1>1, <1>2
<1> DEFINE h == [k \in 0..N |-> g[1..k]]
<1>4. h[0] = base
  BY <1>3
<1>5. ASSUME NEW k \in 1..N PROVE h[k] = Step(h[k - 1], ts[k])
  <2>1. (1..k) \in SUBSET (1..((k - 1) + 1)) /\ ~((1..k) \subseteq 1..(k - 1)) /\ k - 1 \in Nat
    OBVIOUS
  <2>0. Max(1..k) = (k - 1) + 1
    BY <2>1, MaxOfNext
  <2>2. Max(1..k) = k
    BY <2>0
  <2>3. (1..k) \ {k} = 1..(k - 1) /\ 1..k \in SUBSET (1..N) /\ 1..k # {}
    OBVIOUS
  <2>4. g[1..k] = Step(g[1..(k - 1)], ts[k])
    BY <1>3, <2>2, <2>3
  <2>5. QED
    BY <2>4
<1>6. h[N] = g[1..N]
  OBVIOUS
<1> HIDE DEF h
<1>7. QED
  BY <1>3, <1>4, <1>5, <1>6 DEF Step, base

\* Transforming tells whether it changed anything: TransformerImpl's loop keeps
\* a flag from the first transformer to the last.
LEMMA TransformTells ==
  ASSUME NEW ts, ts \in Seq(ToSet(ts)), NEW metadata, NEW valid
  PROVE  Transform(ts, metadata, valid).transformed \in BOOLEAN
<1> DEFINE Typed(x) == /\ x.transformed \in BOOLEAN
                       /\ DOMAIN x = {"metadata", "transformed", "failed"}
<1>1. PICK N \in Nat : DOMAIN ts = 1..N
  OBVIOUS
<1>2. PICK h : /\ h[0] = Untransformed(metadata)
               /\ \A k \in 1..N : h[k] = AfterTurn(ts[k], h[k - 1], valid)
               /\ Transform(ts, metadata, valid) = h[N]
  BY <1>1, TransformTurns
<1>3. Typed(Untransformed(metadata))
  BY DEF Untransformed
<1>4. ASSUME NEW x, NEW t, Typed(x) PROVE Typed(AfterTurn(t, x, valid))
  <2>1. CASE x.failed \/ (~t.applyIfValid /\ t.field \in valid)
    BY <1>4, <2>1 DEF AfterTurn
  <2>2. Typed([x EXCEPT !.failed = TRUE])
    BY <1>4
  <2>3. ASSUME NEW m, NEW b
        PROVE Typed([metadata |-> m, transformed |-> x.transformed \/ b, failed |-> FALSE])
    OBVIOUS
  <2> HIDE DEF Typed
  <2>4. QED
    BY <2>1, <2>2, <2>3 DEF AfterTurn
<1> HIDE DEF Typed
<1> DEFINE P == {k \in Nat : k <= N => Typed(h[k])}
<1>5. 0 \in P
  BY <1>2, <1>3
<1>6. ASSUME NEW k \in Nat, k \in P PROVE k + 1 \in P
  <2> SUFFICES ASSUME k + 1 <= N PROVE Typed(h[k + 1])
    OBVIOUS
  <2>1. k + 1 \in 1..N /\ (k + 1) - 1 = k /\ k <= N
    OBVIOUS
  <2>2. h[k + 1] = AfterTurn(ts[k + 1], h[k], valid)
    BY <1>2, <2>1
  <2>3. QED
    BY <1>4, <1>6, <2>1, <2>2
<1>7. N \in P
  BY <1>5, <1>6, Induct
<1>8. QED
  BY <1>2, <1>7 DEF Typed

\* The counters of a row are in order, and a worker's copy is never marked
\* deleted; what is in hand is of a record that was counted.
Ordered(row) ==
  row.transformedSize <= row.validSize /\ row.validSize <= row.size

TypeInv ==
  /\ conf \in Configs
  /\ \A s \in Snapshots : Ordered(table[s])
  /\ Ordered(mem) /\ ~mem.deleted
  /\ admin.step # "nothing" => \A s \in DOMAIN admin.copies : Ordered(admin.copies[s].row)
  /\ hand.step # "nothing" => mem.size # 0
  /\ hand.step = "save" => hand.wasTransformed \in BOOLEAN
  /\ hand.step = "explain" => hand.unsaved \subseteq Checked
  /\ records \subseteq
       [snapshot : Snapshots, number : Nat \ {0},
        status : {"VALID", "INVALID"}, wasTransformed : BOOLEAN,
        faults : SUBSET Checked]
  /\ results \subseteq [snapshot : Snapshots, number : Nat \ {0}, field : Checked]

LEMMA StatusStepTypes ==
  ASSUME BInv, TypeInv, hand = Nothing, pc # "idle",
         NEW from, NEW to, NEW status \in Statuses, StatusStep(from, status, to)
  PROVE  TypeInv'
<1>1. /\ UNCHANGED <<conf, current, admin, hand, records, results>>
      /\ mem' = [mem EXCEPT !.status = status] /\ table' = [table EXCEPT ![current] = mem']
  BY DEF StatusStep, SetStatus, Move, history
<1>2. mem \in RowType /\ table \in [Snapshots -> RowType]
  BY DEF BInv, WorkerOK
<1>3. Ordered(mem') /\ ~mem'.deleted
  BY <1>1, <1>2 DEF Ordered, RowType, TypeInv
<1>4. \A s \in Snapshots : Ordered(table'[s])
  BY <1>1, <1>2, <1>3 DEF TypeInv
<1>5. QED
  BY <1>1, <1>3, <1>4 DEF TypeInv, Nothing

LEMMA RunTypes ==
  ASSUME BInv, TypeInv, Run
  PROVE  TypeInv'
<1>1. CASE CreateSnapshot
  <2>1. /\ UNCHANGED <<conf, admin, hand, records, results>> /\ mem' = NewRow
        /\ table' = [table EXCEPT ![current'] = NewRow] /\ hand = Nothing
    BY <1>1, HandIsEmpty DEF CreateSnapshot, Move
  <2>2. Ordered(NewRow) /\ ~NewRow.deleted
    BY DEF Ordered, NewRow, Row
  <2>3. \A s \in Snapshots : Ordered(table'[s])
    BY <2>1, <2>2 DEF TypeInv, BInv, WorkerOK
  <2>4. QED
    BY <2>1, <2>2, <2>3 DEF TypeInv, Nothing
<1>2. CASE BeginHarvest \/ Retry \/ FatalError \/ Indexed
  BY <1>2, StatusStepTypes, HandIsEmpty
  DEF BeginHarvest, Retry, FatalError, Indexed, StatusStep, Move, Statuses
<1>3. ASSUME UNCHANGED <<conf, mem, table, admin, hand, records, results>>
      PROVE  TypeInv'
  BY <1>3 DEF TypeInv
<1>4. CASE EndHarvest
  BY <1>3, <1>4 DEF EndHarvest
<1>5. CASE Publish
  <2>1. hand = Nothing /\ pc # "idle"
    BY <1>5, HandIsEmpty DEF Publish, StatusStep, Move
  <2>2. QED
    BY <1>3, <1>5, <2>1, StatusStepTypes DEF Publish, Statuses
<1>6. CASE EndRun
  <2>1. hand = Nothing /\ pc # "idle"
    BY <1>6, HandIsEmpty DEF EndRun, StatusStep, Move
  <2>2. /\ mem' = mem /\ table' = [table EXCEPT ![current] = mem]
        /\ UNCHANGED <<conf, admin, hand, records, results>>
    BY <1>6 DEF EndRun, StatusStep, SetStatus, BInv, WorkerOK, RowType
  <2>3. \A s \in Snapshots : Ordered(table'[s])
    BY <2>2 DEF TypeInv, BInv, WorkerOK
  <2>4. QED
    BY <2>1, <2>2, <2>3 DEF TypeInv
<1>7. QED
  BY <1>1, <1>2, <1>4, <1>5, <1>6 DEF Run

LEMMA ExamineTypes ==
  ASSUME BInv, TypeInv, NEW metadata, Examine(metadata)
  PROVE  TypeInv'
<1> DEFINE record == Examined(metadata)
           arrived == [mem EXCEPT !.size = @ + 1]
<1>1. /\ hand = Nothing /\ UNCHANGED <<conf, table, admin, records, results>>
      /\ \/ hand' = record /\ mem' = Counted(arrived, record)
         \/ hand' = hand /\ mem' = arrived
  BY DEF Examine, database
<1>2. record.step = "save" /\ record.wasTransformed \in BOOLEAN
  <2>1. conf.transformers \in Seq(ToSet(conf.transformers))
    BY BatchesAssumption DEF TypeInv
  <2>2. QED
    BY <2>1, TransformTells DEF Examined
<1>3. /\ arrived \in RowType /\ arrived.size = mem.size + 1 /\ mem.size \in Nat
      /\ Ordered(arrived) /\ arrived.validSize <= mem.size /\ ~arrived.deleted
  BY DEF BInv, WorkerOK, RowType, Ordered, TypeInv
<1> DEFINE v == One(record.status = "VALID")
           t == IF record.wasTransformed THEN v ELSE 0
           counted == Counted(arrived, record)
<1>4. v \in 0..1 /\ t \in 0..v
  BY DEF One
<1>5. /\ counted \in RowType /\ counted.size = arrived.size
      /\ counted.validSize = arrived.validSize + v
      /\ counted.transformedSize = arrived.transformedSize + t
  BY <1>3, CountedFacts
<1>6. counted.deleted = arrived.deleted
  BY <1>3 DEF Counted, RowType
<1>7. mem' = counted \/ mem' = arrived
  BY <1>1
<1> HIDE DEF record, arrived, counted, v, t
<1>8. Ordered(counted)
  <2>1. arrived.validSize \in Nat /\ arrived.transformedSize \in Nat /\ v \in Nat /\ t \in Nat
        /\ arrived.transformedSize <= arrived.validSize /\ t <= v /\ v <= 1
    BY <1>3, <1>4 DEF RowType, Ordered
  <2>2. QED
    BY <1>3, <1>5, <2>1 DEF Ordered
<1>9. Ordered(mem') /\ ~mem'.deleted /\ mem'.size # 0
  BY <1>3, <1>5, <1>6, <1>7, <1>8
<1>10. hand' = record \/ hand' = Nothing
  BY <1>1
<1>11. QED
  BY <1>1, <1>2, <1>9, <1>10 DEF TypeInv, Nothing

LEMMA BatchTypes ==
  ASSUME BInv, TypeInv, Batch
  PROVE  TypeInv'
<1>1. CASE BatchArrives
  BY <1>1 DEF BatchArrives, database, history, TypeInv
<1>2. CASE EndBatch
  <2>1. pc # "idle"
    BY <1>2 DEF EndBatch, StatusStep, Move
  <2>2. QED
    BY <1>2, <2>1, StatusStepTypes DEF EndBatch, Statuses
<1>3. ASSUME NEW s \in Snapshots, NEW metadata, s = current, Examine(metadata)
      PROVE  TypeInv'
  BY <1>3, ExamineTypes
<1>4. CASE SaveRecord
  <2> DEFINE new == [snapshot |-> current, number |-> mem.size, status |-> hand.status,
                     wasTransformed |-> hand.wasTransformed, faults |-> hand.published]
  <2>1. /\ hand.step = "save" /\ records' = records \union {new}
        /\ UNCHANGED <<conf, table, mem, admin, results>>
        /\ \/ hand' = Nothing
           \/ hand' = [step |-> "explain", unsaved |-> hand.unsaved]
    BY <1>4 DEF SaveRecord, history
  <2>2. /\ current \in Snapshots /\ mem.size \in Nat \ {0}
        /\ hand.status \in {"VALID", "INVALID"} /\ hand.wasTransformed \in BOOLEAN
        /\ hand.published \in SUBSET Checked /\ hand.unsaved \subseteq Checked
    BY <2>1 DEF BInv, WorkerOK, HandOK, TypeInv, RowType
  <2>3. QED
    BY <2>1, <2>2 DEF TypeInv, Nothing
<1>5. CASE SaveRecordFails \/ SaveResultFails
  BY <1>5 DEF SaveRecordFails, SaveResultFails, database, TypeInv, Nothing
<1>6. ASSUME NEW f \in Checked, SaveResult(f) PROVE TypeInv'
  <2>1. /\ hand.step = "explain" /\ UNCHANGED <<conf, table, mem, admin, records>>
        /\ results' = results \union
             {[snapshot |-> current, number |-> mem.size, field |-> f]}
        /\ \/ hand' = Nothing
           \/ hand' = [hand EXCEPT !.unsaved = @ \ {f}]
    BY <1>6 DEF SaveResult, history
  <2>2. /\ current \in Snapshots /\ mem.size \in Nat \ {0}
        /\ hand = [step |-> "explain", unsaved |-> hand.unsaved]
    BY <2>1 DEF BInv, WorkerOK, HandOK, TypeInv, RowType
  <2>3. hand' = Nothing \/ hand' = [step |-> "explain", unsaved |-> hand.unsaved \ {f}]
    BY <2>1, <2>2
  <2>4. QED
    BY <2>1, <2>2, <2>3 DEF TypeInv, Nothing
<1>7. QED
  BY <1>1, <1>2, <1>3, <1>4, <1>5, <1>6 DEF Batch

LEMMA AdministratorTypes ==
  ASSUME BInv, TypeInv, Administrator
  PROVE  TypeInv'
<1>1. UNCHANGED worker
  BY DEF Administrator, DeleteAllButLGK, FindLastGoodKnown, Commit,
         DeleteRecordsBySnapshotID, CleanSnapshot
<1>2. ASSUME UNCHANGED <<table, records, results>>, NEW S \in SUBSET Snapshots,
             \/ admin' = [step |-> "find", copies |-> Copies(S)]
             \/ admin' = Cleaning(Copies(S), S, FALSE)
      PROVE  TypeInv'
  <2>1. admin'.copies = Copies(S)
    BY <1>2 DEF Cleaning
  <2>2. \A s \in DOMAIN admin'.copies : s \in Snapshots /\ admin'.copies[s].row = table[s]
    BY <2>1 DEF Copies
  <2>3. QED
    BY <1>1, <1>2, <2>2 DEF TypeInv, worker
<1>3. CASE DeleteAllButLGK
  BY <1>2, <1>3, Rows \subseteq Snapshots DEF DeleteAllButLGK, database, Rows
<1>4. ASSUME NEW s \in Snapshots, DeleteRecordsBySnapshotID(s) PROVE TypeInv'
  BY <1>2, <1>4, {s} \subseteq Snapshots DEF DeleteRecordsBySnapshotID, database
<1>5. CASE FindLastGoodKnown
  <2> DEFINE excess == Excess(admin.copies, LastGoodKnown)
  <2>1. /\ admin.step = "find" /\ UNCHANGED <<table, records, results>>
        /\ admin'.copies = [s \in excess |-> admin.copies[s]]
    BY <1>5 DEF FindLastGoodKnown, database, Cleaning
  <2>2. excess \subseteq DOMAIN admin.copies
    BY DEF Excess
  <2> HIDE DEF excess
  <2>3. \A s \in DOMAIN admin'.copies :
          s \in DOMAIN admin.copies /\ admin'.copies[s] = admin.copies[s]
    BY <2>1, <2>2
  <2>4. QED
    BY <1>1, <2>1, <2>3 DEF TypeInv, worker
<1>6. ASSUME NEW s \in Snapshots, CleanSnapshot(s) PROVE TypeInv'
  <2>1. /\ admin.step = "clean" /\ table' = table
        /\ admin' = [admin EXCEPT !.uncleaned = @ \ {s}]
        /\ records' \subseteq records /\ results' \subseteq results
        /\ admin = Cleaning(admin.copies, admin.uncleaned, admin.excess)
    BY <1>6 DEF CleanSnapshot, BInv, AdminOK
  <2>2. admin'.copies = admin.copies
    BY <2>1 DEF Cleaning
  <2>3. QED
    BY <1>1, <2>1, <2>2 DEF TypeInv, worker
<1>7. CASE Commit
  <2>1. /\ admin.step = "clean" /\ UNCHANGED <<records, results>> /\ admin' = Nothing
        /\ table' = [s \in Snapshots |->
                       IF s \in DOMAIN admin.copies
                       THEN [admin.copies[s].row EXCEPT !.deleted = TRUE]
                       ELSE table[s]]
    BY <1>7 DEF Commit
  <2>2. \A s \in DOMAIN admin.copies :
          admin.copies[s].row \in RowType /\ Ordered(admin.copies[s].row)
    BY <2>1 DEF BInv, AdminOK, TypeInv
  <2>3. \A s \in Snapshots : Ordered(table'[s])
    BY <2>1, <2>2 DEF TypeInv, Ordered, RowType
  <2>4. QED
    BY <1>1, <2>1, <2>3 DEF TypeInv, worker, Nothing
<1>8. QED
  BY <1>3, <1>4, <1>5, <1>6, <1>7 DEF Administrator

\* What the tables, the worker and the administrator hold has its type: the
\* counters of every row are in order, and what is told of a record is a truth
\* value, a verdict and faults of fields that are checked.
THEOREM Typing == Spec => []TypeOK
<1>1. Init => TypeInv
  BY DEF Init, TypeInv, Ordered, NoRow, NewRow, Row, Nothing
<1>2. BInv /\ TypeInv /\ [Next]_vars => TypeInv'
  <2>1. ASSUME TypeInv, UNCHANGED vars PROVE TypeInv'
    BY <2>1 DEF vars, database, worker, TypeInv
  <2>2. QED
    BY <2>1, RunTypes, BatchTypes, AdministratorTypes DEF Next
<1>3. BInv /\ TypeInv => TypeOK
  BY DEF BInv, WorkerOK, HandOK, AdminOK, TypeInv, TypeOK, Ordered, Nothing
<1>4. QED
  BY <1>1, <1>2, <1>3, AlwaysBInv, PTL DEF Spec
-----------------------------------------------------------------------------
(* Statistics. *)

\* The sum of f over 1..n, as the property has it, and what a function that
\* gives the sum over each of its subsets does.
Total(f, n) == MapThenSumSet(LAMBDA t : f[t], 1..n)

Adds(g, f, n) ==
  /\ g[{}] = 0
  /\ \A S \in SUBSET (1..n) : g[S] \in Nat /\ \A x \in S : g[S] = f[x] + g[S \ {x}]

LEMMA SumsExist ==
  ASSUME NEW f, NEW N \in Nat, \A t \in 1..N : f[t] \in Nat
  PROVE  \E g : Adds(g, f, N)
<1> DEFINE P == {n \in Nat : n <= N => \E g : Adds(g, f, n)}
<1>1. 0 \in P
  <2>1. Adds([S \in {{}} |-> 0], f, 0)
    BY DEF Adds
  <2>2. QED
    BY <2>1
<1>2. ASSUME NEW n \in Nat, n \in P PROVE n + 1 \in P
  <2> SUFFICES ASSUME n + 1 <= N PROVE \E g : Adds(g, f, n + 1)
    OBVIOUS
  <2>1. PICK g : Adds(g, f, n)
    BY <1>2
  <2>2. f[n + 1] \in Nat
    OBVIOUS
  <2> DEFINE h == [S \in SUBSET (1..(n + 1)) |->
                     IF n + 1 \in S THEN f[n + 1] + g[S \ {n + 1}] ELSE g[S]]
  <2>3. \A S \in SUBSET (1..(n + 1)) :
          h[S] = IF n + 1 \in S THEN f[n + 1] + g[S \ {n + 1}] ELSE g[S]
    OBVIOUS
  <2> HIDE DEF h
  <2>4. h[{}] = 0
    BY <2>1, <2>3 DEF Adds
  <2>5. ASSUME NEW S \in SUBSET (1..(n + 1)), NEW x \in S
        PROVE  h[S] \in Nat /\ h[S] = f[x] + h[S \ {x}]
    <3> DEFINE R == S \ {n + 1}
    <3>0. R \in SUBSET (1..n) /\ (S \ {x}) \in SUBSET (1..(n + 1))
      OBVIOUS
    <3>1. g[R] \in Nat
      BY <2>1, <3>0 DEF Adds
    <3>2. CASE n + 1 \notin S
      <4>1. R = S /\ h[S] = g[S] /\ h[S \ {x}] = g[S \ {x}]
        BY <2>3, <3>0, <3>2
      <4>2. g[S] = f[x] + g[S \ {x}]
        BY <2>1, <3>0, <4>1 DEF Adds
      <4>3. QED
        BY <3>1, <4>1, <4>2
    <3>3. CASE n + 1 \in S /\ x = n + 1
      <4>1. S \ {x} = R /\ n + 1 \notin R
        BY <3>3
      <4>2. h[S] = f[x] + g[R] /\ h[R] = g[R]
        BY <2>3, <3>0, <3>3, <4>1
      <4>3. QED
        BY <2>2, <3>1, <3>3, <4>1, <4>2
    <3>4. CASE n + 1 \in S /\ x # n + 1
      <4>0. (S \ {x}) \ {n + 1} = R \ {x} /\ x \in R /\ n + 1 \in S \ {x}
        BY <3>4
      <4>1. R \ {x} \in SUBSET (1..n) /\ x \in 1..n
        BY <3>0, <4>0
      <4>2. g[R] = f[x] + g[R \ {x}] /\ g[R \ {x}] \in Nat /\ f[x] \in Nat
        <5>1. f[x] \in Nat
          BY <4>1
        <5>2. g[R] = f[x] + g[R \ {x}]
          BY <2>1, <3>0, <4>0 DEF Adds
        <5>3. g[R \ {x}] \in Nat
          BY <2>1, <4>1 DEF Adds
        <5>4. QED
          BY <5>1, <5>2, <5>3
      <4>3. h[S] = f[n + 1] + g[R] /\ h[S \ {x}] = f[n + 1] + g[R \ {x}]
        BY <2>3, <3>0, <3>4, <4>0, <4>1
      <4>4. QED
        BY <2>2, <3>1, <4>2, <4>3
    <3>5. QED
      BY <3>2, <3>3, <3>4
  <2>6. ASSUME NEW S \in SUBSET (1..(n + 1)) PROVE h[S] \in Nat
    <3>1. CASE S = {}
      BY <2>4, <3>1
    <3>2. ASSUME NEW x \in S PROVE h[S] \in Nat
      BY <2>5
    <3>3. QED
      BY <3>1, <3>2
  <2>7. Adds(h, f, n + 1)
    BY <2>4, <2>5, <2>6 DEF Adds
  <2>8. QED
    BY <2>7
<1>3. N \in P
  BY <1>1, <1>2, Induct
<1>4. QED
  BY <1>3

\* Whatever the sum folds in first, it is what such a function gives.
LEMMA TotalIs ==
  ASSUME NEW f, NEW n \in Nat, NEW g, Adds(g, f, n)
  PROVE  Total(f, n) = g[1..n]
<1> DEFINE Pick(S) == CHOOSE x \in S : TRUE
           F(h, S) == IF S = {} THEN 0 ELSE f[Pick(S)] + h[S \ {Pick(S)}]
           IsFold(h) == h = [S \in SUBSET (1..n) |-> F(h, S)]
           iter == CHOOSE h : IsFold(h)
<1>1. Total(f, n) = iter[1..n]
  BY DEF Total, MapThenSumSet, MapThenFoldSet
<1>2. \A S : S # {} => Pick(S) \in S
  OBVIOUS
<1> HIDE DEF Pick
<1>3. \E h : IsFold(h)
  <2> DEFINE h == [S \in SUBSET (1..n) |-> g[S]]
  <2>1. ASSUME NEW S \in SUBSET (1..n) PROVE h[S] = F(h, S)
    BY <1>2 DEF Adds
  <2>2. IsFold(h)
    BY <2>1
  <2>3. QED
    BY <2>2
<1>4. IsFold(iter)
  BY <1>3
<1> HIDE DEF iter
<1> DEFINE P == {c \in Nat : \A S \in SUBSET (1..n) : Cardinality(S) <= c => iter[S] = g[S]}
<1>5. ASSUME NEW S \in SUBSET (1..n) PROVE IsFiniteSet(S) /\ Cardinality(S) \in Nat
  <2>1. IsFiniteSet(1..n)
    BY FS_Interval
  <2>2. QED
    BY <2>1, FS_Subset, FS_CardinalityType
<1>6. 0 \in P
  <2>1. ASSUME NEW S \in SUBSET (1..n), Cardinality(S) <= 0 PROVE iter[S] = g[S]
    <3>1. S = {}
      BY <1>5, <2>1, FS_EmptySet
    <3>2. QED
      BY <1>4, <3>1 DEF Adds
  <2>2. QED
    BY <2>1
<1>7. ASSUME NEW c \in Nat, c \in P PROVE c + 1 \in P
  <2> SUFFICES ASSUME NEW S \in SUBSET (1..n), Cardinality(S) <= c + 1
               PROVE  iter[S] = g[S]
    OBVIOUS
  <2>1. CASE S = {}
    BY <1>4, <2>1 DEF Adds
  <2>2. CASE S # {}
    <3>1. Pick(S) \in S /\ S \ {Pick(S)} \in SUBSET (1..n)
      BY <1>2, <2>2
    <3>2. Cardinality(S \ {Pick(S)}) = Cardinality(S) - 1
      BY <1>5, <3>1, FS_RemoveElement
    <3>3. Cardinality(S \ {Pick(S)}) <= c
      BY <1>5, <3>2
    <3>4. iter[S \ {Pick(S)}] = g[S \ {Pick(S)}]
      BY <1>7, <3>1, <3>3
    <3>5. g[S] = f[Pick(S)] + g[S \ {Pick(S)}]
      BY <3>1 DEF Adds
    <3>6. iter[S] = f[Pick(S)] + iter[S \ {Pick(S)}]
      BY <1>4, <2>2
    <3>7. QED
      BY <3>4, <3>5, <3>6
  <2>3. QED
    BY <2>1, <2>2
<1>8. Cardinality(1..n) = n
  BY FS_Interval
<1>9. iter[1..n] = g[1..n]
  <2>1. n \in P
    BY <1>6, <1>7, Induct
  <2>2. (1..n) \in SUBSET (1..n) /\ Cardinality(1..n) <= n
    BY <1>8
  <2>3. QED
    BY <2>1, <2>2
<1>10. QED
  BY <1>1, <1>9

\* The sum over no run is 0; over one run more, its number is added; and the
\* sum over some runs depends on their numbers only.
LEMMA TotalNext ==
  ASSUME NEW f, NEW n \in Nat, \A t \in 1..(n + 1) : f[t] \in Nat
  PROVE  /\ Total(f, n) \in Nat /\ Total(f, 0) = 0
         /\ Total(f, n + 1) = Total(f, n) + f[n + 1]
<1>1. n + 1 \in Nat
  OBVIOUS
<1>2. PICK g : Adds(g, f, n + 1)
  BY <1>1, SumsExist
<1>3. Adds(g, f, n) /\ Adds(g, f, 0)
  <2>1. SUBSET (1..n) \subseteq SUBSET (1..(n + 1))
        /\ SUBSET (1..0) \subseteq SUBSET (1..(n + 1))
    OBVIOUS
  <2>2. QED
    BY <1>2, <2>1 DEF Adds
<1>4. Total(f, n + 1) = g[1..(n + 1)] /\ Total(f, n) = g[1..n] /\ Total(f, 0) = g[1..0]
  BY <1>1, <1>2, <1>3, TotalIs
<1>5. 1..0 = {} /\ (1..(n + 1)) \ {n + 1} = 1..n /\ n + 1 \in 1..(n + 1)
  OBVIOUS
<1>6. g[1..(n + 1)] = f[n + 1] + g[1..n] /\ g[1..n] \in Nat /\ g[{}] = 0
  <2>1. (1..(n + 1)) \in SUBSET (1..(n + 1)) /\ (1..n) \in SUBSET (1..n)
    OBVIOUS
  <2>2. g[1..n] \in Nat /\ g[{}] = 0
    BY <1>3, <2>1 DEF Adds
  <2>3. g[1..(n + 1)] = f[n + 1] + g[(1..(n + 1)) \ {n + 1}]
    BY <1>2, <1>5, <2>1 DEF Adds
  <2>4. QED
    BY <1>5, <2>2, <2>3
<1>7. f[n + 1] \in Nat
  BY <1>5
<1>8. QED
  BY <1>4, <1>5, <1>6, <1>7

LEMMA TotalAlike ==
  ASSUME NEW f, NEW h, NEW n \in Nat,
         \A t \in 1..n : f[t] \in Nat /\ h[t] = f[t]
  PROVE  Total(h, n) = Total(f, n)
<1>1. PICK g : Adds(g, f, n)
  BY SumsExist
<1>2. Adds(g, h, n)
  BY <1>1 DEF Adds
<1>3. QED
  BY <1>1, <1>2, TotalIs

\* What has been counted: the managers hold the originals of every run so far,
\* and what was saved of a run is the sum up to it, which no later run changes.
StatisticsInv ==
  /\ observed \in [Snapshots -> Nat]
  /\ seen.original \in Nat /\ seen.transformed \in Nat
  /\ seen.transformed <= seen.original
  /\ seen.original = Total(observed, current)
  /\ \A s \in Snapshots : s > current => observed[s] = 0
  /\ statistics \in [Snapshots -> {NoStatistics} \union (Nat \X Nat)]
  /\ \A s \in Snapshots :
       statistics[s] # NoStatistics =>
         /\ s <= current /\ (s = current => pc \notin {"load", "harvesting", "batch"})
         /\ statistics[s][1] = Total(observed, s)
         /\ statistics[s][2] <= statistics[s][1]

\* A step that observes nothing and saves nothing.
LEMMA NothingObserved ==
  ASSUME BInv, StatisticsInv, UNCHANGED <<seen, observed, statistics, current>>,
         pc' \in {"load", "harvesting", "batch"} => pc \in {"load", "harvesting", "batch"}
  PROVE  StatisticsInv'
  BY DEF StatisticsInv

\* Runs so far and the next are numbered without a gap.
LEMMA RunsSoFar ==
  ASSUME BInv, NEW s \in Snapshots
  PROVE  \A t \in 1..s : t \in Snapshots
<1>1. s \in Nat /\ \A t \in Nat : t # 0 /\ t <= s => t \in Snapshots
  BY Numbers
<1>2. QED
  BY <1>1

LEMMA StatusStepStatistics ==
  ASSUME BInv, StatisticsInv, NEW from, NEW to, NEW status,
         StatusStep(from, status, to),
         to \in {"load", "harvesting", "batch"} => from \in {"load", "harvesting", "batch"}
  PROVE  StatisticsInv'
  BY NothingObserved DEF StatusStep, Move, history

LEMMA RunStatistics ==
  ASSUME BInv, StatisticsInv, Run
  PROVE  StatisticsInv'
<1>1. CASE CreateSnapshot
  <2>1. /\ current \in Nat /\ current' = current + 1 /\ current' \in Snapshots
        /\ UNCHANGED <<seen, observed, statistics>>
    BY <1>1, Numbers DEF CreateSnapshot, history, BInv, WorkerOK
  <2>2. \A t \in 1..(current + 1) : observed[t] \in Nat
    BY <2>1, RunsSoFar DEF StatisticsInv
  <2>3. Total(observed, current + 1) = Total(observed, current) + observed[current + 1]
        /\ Total(observed, current) \in Nat
    BY <2>1, <2>2, TotalNext
  <2>4. observed[current + 1] = 0
    BY <2>1 DEF StatisticsInv
  <2>5. seen'.original = Total(observed', current')
    BY <2>1, <2>3, <2>4 DEF StatisticsInv
  <2>6. \A s \in Snapshots : s > current' => observed'[s] = 0
    BY <2>1, Numbers DEF StatisticsInv
  <2>7. ASSUME NEW s \in Snapshots, statistics'[s] # NoStatistics
        PROVE  s <= current' /\ s # current' /\ statistics'[s][1] = Total(observed', s)
               /\ statistics'[s][2] <= statistics'[s][1]
    BY <2>1, <2>7, Numbers DEF StatisticsInv
  <2>8. QED
    BY <2>1, <2>5, <2>6, <2>7 DEF StatisticsInv
<1>2. CASE BeginHarvest \/ Retry \/ FatalError \/ Indexed \/ EndRun
  BY <1>2, StatusStepStatistics DEF BeginHarvest, Retry, FatalError, Indexed, EndRun
<1>3. CASE EndHarvest
  <2>1. /\ UNCHANGED <<seen, observed, current>> /\ pc' \in {"ending", "closing"}
        /\ \/ statistics' = statistics
           \/ statistics' = [statistics EXCEPT ![current] = <<seen.original, seen.transformed>>]
        /\ current \in Snapshots
    BY <1>3 DEF EndHarvest, history, BInv, WorkerOK
  <2>2. CASE statistics' = statistics
    BY <2>1, <2>2, NothingObserved
  <2>3. CASE statistics' = [statistics EXCEPT ![current] = <<seen.original, seen.transformed>>]
    <3>1. /\ statistics' \in [Snapshots -> {NoStatistics} \union (Nat \X Nat)]
          /\ \A s \in Snapshots : statistics'[s] =
               IF s = current THEN <<seen.original, seen.transformed>> ELSE statistics[s]
      BY <2>1, <2>3 DEF StatisticsInv
    <3>2. current \in Nat
      BY <2>1, Numbers
    <3>3. ASSUME NEW s \in Snapshots, statistics'[s] # NoStatistics
          PROVE  s <= current' /\ statistics'[s][1] = Total(observed', s)
                 /\ statistics'[s][2] <= statistics'[s][1]
      BY <2>1, <3>1, <3>2, <3>3 DEF StatisticsInv
    <3>4. QED
      BY <2>1, <3>1, <3>3 DEF StatisticsInv
  <2>4. QED
    BY <2>1, <2>2, <2>3
<1>4. CASE Publish
  <2>1. CASE Move("closing", "ending") /\ UNCHANGED <<seen, observed, statistics, current>>
    BY <2>1, NothingObserved DEF Move
  <2>2. QED
    BY <1>4, <2>1, StatusStepStatistics DEF Publish, history
<1>5. QED
  BY <1>1, <1>2, <1>3, <1>4 DEF Run

\* An original observed is counted in its run, which has saved nothing yet.
LEMMA ExamineStatistics ==
  ASSUME BInv, StatisticsInv, NEW metadata, Examine(metadata), current \in Snapshots
  PROVE  StatisticsInv'
<1> DEFINE record == Examined(metadata)
<1>1. /\ pc = "batch" /\ UNCHANGED <<pc, current, statistics>>
      /\ \/ seen' = seen /\ observed' = observed
         \/ seen' = Observed(record) /\ observed' = [observed EXCEPT ![current] = @ + 1]
  BY DEF Examine, database
<1>2. CASE seen' = seen /\ observed' = observed
  BY <1>1, <1>2, NothingObserved
<1>3. CASE seen' = Observed(record) /\ observed' = [observed EXCEPT ![current] = @ + 1]
  <2>1. /\ seen'.original = seen.original + 1
        /\ seen'.transformed \in {seen.transformed, seen.transformed + 1}
        /\ seen.original \in Nat /\ seen.transformed \in Nat
        /\ seen.transformed <= seen.original
    BY <1>3 DEF Observed, StatisticsInv
  <2>2. seen'.transformed \in Nat /\ seen'.original \in Nat
        /\ seen'.transformed <= seen'.original
    BY <2>1
  <2>3. /\ observed' \in [Snapshots -> Nat] /\ observed'[current] = observed[current] + 1
        /\ \A s \in Snapshots : s # current => observed'[s] = observed[s]
    BY <1>3 DEF StatisticsInv
  <2>4. PICK n \in Nat : current = n + 1
    <3>1. current \in Nat /\ current # 0
      BY Numbers
    <3>2. current - 1 \in Nat /\ current = (current - 1) + 1
      BY <3>1
    <3>3. QED
      BY <3>2
  <2>5. \A t \in 1..(n + 1) : observed[t] \in Nat /\ observed'[t] \in Nat
    BY <2>3, <2>4, RunsSoFar DEF StatisticsInv
  <2>6. /\ Total(observed, n + 1) = Total(observed, n) + observed[n + 1]
        /\ Total(observed, n) \in Nat
    BY <2>5, TotalNext
  <2>7. Total(observed', n + 1) = Total(observed', n) + observed'[n + 1]
    BY <2>5, TotalNext
  <2>8. ASSUME NEW s \in Nat, s <= n PROVE Total(observed', s) = Total(observed, s)
    <3>1. \A t \in 1..s : t \in Snapshots /\ t # current
      BY <2>4, <2>8, RunsSoFar
    <3>2. \A t \in 1..s : observed[t] \in Nat /\ observed'[t] = observed[t]
      BY <2>3, <3>1 DEF StatisticsInv
    <3>3. QED
      BY <3>2, TotalAlike
  <2>9. seen'.original = Total(observed', current')
    <3>1. Total(observed', n) = Total(observed, n)
      BY <2>8
    <3>2. observed[n + 1] \in Nat /\ observed'[n + 1] = observed[n + 1] + 1
          /\ seen.original = Total(observed, n + 1)
      BY <2>3, <2>4 DEF StatisticsInv
    <3>3. Total(observed', n + 1) = Total(observed, n + 1) + 1
      BY <2>6, <2>7, <3>1, <3>2
    <3>4. QED
      BY <1>1, <2>1, <2>4, <3>2, <3>3
  <2>10. \A s \in Snapshots : s > current' => observed'[s] = 0
    BY <1>1, <2>3, <2>4, Numbers DEF StatisticsInv
  <2>11. ASSUME NEW s \in Snapshots, statistics'[s] # NoStatistics
         PROVE  s <= current' /\ s # current' /\ statistics'[s][1] = Total(observed', s)
                /\ statistics'[s][2] <= statistics'[s][1]
    <3>1. /\ s <= current /\ s # current /\ statistics[s][1] = Total(observed, s)
          /\ statistics[s][2] <= statistics[s][1]
      BY <1>1, <2>11 DEF StatisticsInv
    <3>2. s \in Nat /\ s <= n
      BY <2>4, <3>1, Numbers
    <3>3. QED
      BY <1>1, <2>8, <3>1, <3>2
  <2>12. QED
    BY <1>1, <2>2, <2>3, <2>9, <2>10, <2>11 DEF StatisticsInv
<1>4. QED
  BY <1>1, <1>2, <1>3

LEMMA BatchStatistics ==
  ASSUME BInv, StatisticsInv, Batch
  PROVE  StatisticsInv'
<1>1. CASE BatchArrives
  BY <1>1, NothingObserved DEF BatchArrives, Move, database, history
<1>2. CASE EndBatch
  BY <1>2, StatusStepStatistics DEF EndBatch
<1>3. ASSUME NEW s \in Snapshots, NEW metadata, s = current, Examine(metadata)
      PROVE  StatisticsInv'
  BY <1>3, ExamineStatistics
<1>4. ASSUME SaveRecord \/ SaveRecordFails \/ SaveResultFails
             \/ \E f \in Checked : SaveResult(f)
      PROVE  StatisticsInv'
  BY <1>4, NothingObserved
  DEF SaveRecord, SaveRecordFails, SaveResultFails, SaveResult, database, history
<1>5. QED
  BY <1>1, <1>2, <1>3, <1>4 DEF Batch

LEMMA AdministratorStatistics ==
  ASSUME BInv, StatisticsInv, Administrator
  PROVE  StatisticsInv'
<1>1. UNCHANGED <<worker, observed>>
  BY DEF Administrator, DeleteAllButLGK, FindLastGoodKnown, Commit,
         DeleteRecordsBySnapshotID, CleanSnapshot, history
<1>2. CASE UNCHANGED statistics
  BY <1>1, <1>2, NothingObserved DEF worker
<1>3. ASSUME NEW s \in Snapshots, statistics' = [statistics EXCEPT ![s] = NoStatistics]
      PROVE  StatisticsInv'
  <2>1. /\ statistics' \in [Snapshots -> {NoStatistics} \union (Nat \X Nat)]
        /\ \A t \in Snapshots : statistics'[t] =
             IF t = s THEN NoStatistics ELSE statistics[t]
    BY <1>3 DEF StatisticsInv
  <2>2. QED
    BY <1>1, <2>1 DEF StatisticsInv, worker
<1>4. QED
  BY <1>2, <1>3 DEF Administrator, DeleteAllButLGK, FindLastGoodKnown, Commit,
                    DeleteRecordsBySnapshotID, CleanSnapshot, database

\* The statistics saved for a snapshot count the originals of every run of this
\* worker up to it, not of its own only, and never fewer than the transformed
\* (SnapshotWorker 282-286, BaseCountByFieldStatProcessor 19-30).
THEOREM Accumulating == Spec => []StatisticsAccumulate
<1>1. Init => StatisticsInv
  <2> SUFFICES ASSUME Init PROVE StatisticsInv
    OBVIOUS
  <2>1. Total(observed, 0) = 0
    <3> DEFINE g == [S \in {{}} |-> 0]
    <3>1. Adds(g, observed, 0) /\ g[1..0] = 0
      BY DEF Adds
    <3> HIDE DEF g
    <3>2. QED
      BY <3>1, TotalIs
  <2>2. QED
    BY <2>1 DEF Init, StatisticsInv, NoStatistics
<1>2. BInv /\ StatisticsInv /\ [Next]_vars => StatisticsInv'
  <2>1. ASSUME BInv, StatisticsInv, UNCHANGED vars PROVE StatisticsInv'
    BY <2>1, NothingObserved DEF vars, database, worker, history
  <2>2. QED
    BY <2>1, RunStatistics, BatchStatistics, AdministratorStatistics DEF Next
<1>3. StatisticsInv => StatisticsAccumulate
  BY DEF StatisticsInv, StatisticsAccumulate, Total
<1>4. QED
  BY <1>1, <1>2, <1>3, AlwaysBInv, PTL DEF Spec

=============================================================================
