--------------------------- MODULE Indexing_proofs ---------------------------
(***************************************************************************)
(* Proofs about Indexing: its types, that Solr is left clean outside the   *)
(* monitor, and that the calls of the indexer implement SearchIndex, for   *)
(* any number of networks, snapshots, pages, callers and failures.         *)
(***************************************************************************)
EXTENDS Indexing, TLAPS

LEMMA InitTypes == Init => TypeOK
<1> SUFFICES ASSUME Init PROVE TypeOK
  OBVIOUS
<1> USE IndexerAssumption, IndexingAssumption
<1>1. PICK n \in Networks : TRUE
  OBVIOUS
<1>2. AnyCall \in Calls
  <2>1. [network |-> n, snapshot |-> None, deleteOnly |-> TRUE] \in Calls
    BY DEF Calls
  <2>2. QED
    BY <2>1 DEF AnyCall
<1>3. AnyJob \in [network : Networks, deleteOnly : BOOLEAN]
  <2>1. [network |-> n, deleteOnly |-> TRUE] \in [network : Networks, deleteOnly : BOOLEAN]
    OBVIOUS
  <2>2. QED
    BY <2>1 DEF AnyJob
<1>4. IndexerTypeOK
  BY <1>2 DEF Init, IndexerInit, IndexerTypeOK, Steps, Nothing
<1>5. PagesCounted
  BY DEF Init, IndexerInit, PagesCounted
<1>6. QED
  BY <1>3, <1>4, <1>5 DEF Init, TypeOK, Statuses, Rows

-----------------------------------------------------------------------------
(* What a step may do to the variables of Indexer. *)

CallsIndex(t) ==
  \E n \in Networks, s \in Snapshots \union {None}, d \in BOOLEAN :
    (s # None => NetworkOf[s] = n) /\ Call(t, n, s, d)

LosesRecords ==
  /\ \/ \E s \in Snapshots : records' = records \ {s}
     \/ \E n \in Networks : records' = {s \in records : NetworkOf[s] # n}
  /\ UNCHANGED <<core, monitor, step, callVars, failed, damaged>>

IndexerNext ==
  \/ \E t \in Tasks : Index(t) \/ CallsIndex(t)
  \/ AutoCommit
  \/ LosesRecords
  \/ UNCHANGED indexerVars

LEMMA StepOfIndexer == TypeOK /\ [Next]_vars => IndexerNext
<1> SUFFICES ASSUME TypeOK, [Next]_vars PROVE IndexerNext
  OBVIOUS
<1> USE IndexerAssumption, IndexingAssumption
<1>1. CASE UNCHANGED vars
  BY <1>1 DEF vars, IndexerNext
<1>2. ASSUME NEW t \in Tasks, Indexes(t) PROVE IndexerNext
  BY <1>2 DEF Indexes, IndexerNext
<1>3. ASSUME NEW s \in Snapshots, SnapshotWorker(s) PROVE IndexerNext
  <2>1. CASE BeginIndexing(s)
    <3>1. NetworkOf[s] \in Networks /\ Call(s, NetworkOf[s], s, FALSE)
      BY <2>1 DEF BeginIndexing
    <3>2. CallsIndex(s)
      BY <3>1 DEF CallsIndex
    <3>3. QED
      BY <3>2 DEF IndexerNext
  <2>2. CASE ~BeginIndexing(s)
    <3>1. UNCHANGED indexerVars
      BY <1>3, <2>2 DEF SnapshotWorker, ValidWithoutIndexing, EndIndexing, FinalSave, RunFails
    <3>2. QED
      BY <3>1 DEF IndexerNext
  <2>3. QED
    BY <2>1, <2>2
<1>4. ASSUME NEW j \in Jobs, IndexerWorker(j) PROVE IndexerNext
  <2>1. job[j].network \in Networks
    BY DEF TypeOK
  <2>2. CASE ClearNetwork(j)
    <3>1. Call(j, job[j].network, None, TRUE)
      BY <2>2 DEF ClearNetwork
    <3>2. CallsIndex(j)
      BY <2>1, <3>1 DEF CallsIndex
    <3>3. QED
      BY <3>2 DEF IndexerNext
  <2>3. CASE IndexLastGoodKnown(j)
    <3>1. PICK s \in LastGoodKnown(job[j].network) \union {None} :
            Call(j, job[j].network, s, FALSE)
      BY <2>3 DEF IndexLastGoodKnown
    <3>2. s \in Snapshots \union {None} /\ (s # None => NetworkOf[s] = job[j].network)
      BY <3>1 DEF LastGoodKnown, ValidOf
    <3>3. CallsIndex(j)
      BY <2>1, <3>1, <3>2 DEF CallsIndex
    <3>4. QED
      BY <3>3 DEF IndexerNext
  <2>4. CASE ~ClearNetwork(j) /\ ~IndexLastGoodKnown(j)
    <3>1. UNCHANGED indexerVars
      BY <1>4, <2>4 DEF IndexerWorker, FindNetwork, NoNetwork, EndJob
    <3>2. QED
      BY <3>1 DEF IndexerNext
  <2>5. QED
    BY <2>2, <2>3, <2>4
<1>5. CASE Administrator
  <2>1. ASSUME NEW j \in Jobs, NEW n \in Networks,
               AskForIndexing(j, n) \/ DeleteNetworkLaunches(j, n)
        PROVE IndexerNext
    BY <2>1 DEF AskForIndexing, DeleteNetworkLaunches, IndexerNext
  <2>2. ASSUME NEW n \in Networks, DeleteNetworkCommits(n) PROVE IndexerNext
    BY <2>2 DEF DeleteNetworkCommits, LosesRecords, IndexerNext
  <2>3. ASSUME NEW s \in Snapshots, CleanSnapshotReads(s) PROVE IndexerNext
    BY <2>3 DEF CleanSnapshotReads, IndexerNext
  <2>4. ASSUME NEW s \in Snapshots, CleanSnapshotCommits(s) PROVE IndexerNext
    BY <2>4 DEF CleanSnapshotCommits, LosesRecords, IndexerNext
  <2>5. QED
    BY <1>5, <2>1, <2>2, <2>3, <2>4 DEF Administrator
<1>6. CASE SolrCommits
  BY <1>6 DEF SolrCommits, IndexerNext
<1>7. QED
  BY <1>1, <1>2, <1>3, <1>4, <1>5, <1>6 DEF Next, Run

LEMMA IndexerTypes == IndexerTypeOK /\ IndexerNext => IndexerTypeOK'
<1> SUFFICES ASSUME IndexerTypeOK, IndexerNext PROVE IndexerTypeOK'
  OBVIOUS
<1> USE IndexerAssumption DEF IndexerTypeOK, Steps, Go, ForgetLocals, AfterDelete
<1>0. ASSUME NEW t \in Tasks
      PROVE /\ call[t].network \in Networks
            /\ call[t].snapshot \in Snapshots \union {None}
            /\ Nothing \in [1..MaxPages -> Snapshots \union {None}]
            /\ Emptied(call[t].network)
                 \in [Networks -> [1..MaxPages -> Snapshots \union {None}]]
            /\ \A p \in Nat : WithPage(call[t], p)
                 \in [Networks -> [1..MaxPages -> Snapshots \union {None}]]
  BY DEF Calls, Nothing, Emptied, WithPage
<1>f. ASSUME NEW kind, Fail(kind) PROVE failed' \in 0..MaxFailures
  BY <1>f DEF Fail
<1>1. ASSUME NEW t \in Tasks, Index(t) PROVE IndexerTypeOK'
  <2>1. CASE Enter(t)
    BY <2>1 DEF Enter, core, callVars
  <2>2. CASE Leave(t)
    BY <2>2 DEF Leave, core
  <2>3. CASE SendDelete(t)
    BY <1>0, <2>3 DEF SendDelete, callVars
  <2>4. CASE CommitDelete(t)
    BY <2>4 DEF CommitDelete
  <2>5. CASE FailDelete(t)
    <3>1. step' \in [Tasks -> Steps]
      BY <2>5 DEF FailDelete
    <3>2. /\ committed' \in [Networks -> [1..MaxPages -> Snapshots \union {None}]]
          /\ pending' \in [Networks -> [1..MaxPages -> Snapshots \union {None}]]
      BY <1>0, <2>5 DEF FailDelete
    <3>3. /\ failed' \in 0..MaxFailures /\ damaged' \in SUBSET Networks
          /\ UNCHANGED <<records, monitor, callVars>>
      BY <1>0, <1>f, <2>5 DEF FailDelete
    <3>4. QED
      BY <3>1, <3>2, <3>3 DEF callVars
  <2>6. CASE RollbackDelete(t)
    BY <2>6 DEF RollbackDelete, callVars
  <2>7. CASE CountPages(t)
    <3>1. PagesNow(call[t].snapshot) \in 0..MaxPages
      BY <1>0, <2>7 DEF CountPages, PagesNow
    <3>2. QED
      BY <2>7, <3>1 DEF CountPages, core
  <2>8. CASE NoSnapshot(t)
    BY <2>8 DEF NoSnapshot, core, callVars
  <2>9. CASE SendPage(t)
    BY <1>0, <2>9 DEF SendPage
  <2>10. CASE LosePage(t)
    <3>1. /\ step' \in [Tasks -> Steps]
          /\ failed' \in 0..MaxFailures
          /\ damaged' \in SUBSET Networks
          /\ UNCHANGED <<committed, records, monitor, call, total, valid>>
      BY <1>0, <1>f, <2>10 DEF LosePage
    <3>2. sent[t] + 1 \in Nat /\ sent[t] + 1 \in 0..MaxPages
      BY <2>10 DEF LosePage
    <3>3. /\ sent' \in [Tasks -> 0..MaxPages]
          /\ pending' \in [Networks -> [1..MaxPages -> Snapshots \union {None}]]
      BY <1>0, <2>10, <3>2 DEF LosePage
    <3>4. QED
      BY <3>1, <3>3
  <2>11. CASE CommitPages(t)
    BY <2>11 DEF CommitPages
  <2>12. CASE FailIndexing(t)
    <3>1. step' \in [Tasks -> Steps]
      BY <2>12 DEF FailIndexing
    <3>2. /\ committed' \in {committed, pending} /\ failed' \in 0..MaxFailures
          /\ UNCHANGED <<pending, records, monitor, callVars, damaged>>
      BY <1>f, <2>12 DEF FailIndexing
    <3>3. QED
      BY <3>1, <3>2 DEF callVars
  <2>13. CASE RollbackPages(t)
    BY <2>13 DEF RollbackPages, callVars
  <2>14. CASE FailRollback(t)
    <3>1. step' \in [Tasks -> Steps]
      <4>1. \E to \in Steps : step' = [step EXCEPT ![t] = to]
        BY <2>14 DEF FailRollback
      <4>2. QED
        BY <4>1
    <3>2. /\ monitor' \in Tasks \union {None}
          /\ sent' \in [Tasks -> 0..MaxPages] /\ total' \in [Tasks -> 0..MaxPages]
      <4>1. /\ monitor' \in {monitor, None}
            /\ \/ UNCHANGED <<sent, total>>
               \/ sent' = [sent EXCEPT ![t] = 0] /\ total' = [total EXCEPT ![t] = 0]
        BY <2>14 DEF FailRollback
      <4>2. monitor' \in Tasks \union {None}
        BY <4>1
      <4>3. sent' \in [Tasks -> 0..MaxPages]
        BY <4>1
      <4>4. total' \in [Tasks -> 0..MaxPages]
        BY <4>1
      <4>5. QED
        BY <4>2, <4>3, <4>4
    <3>3. failed' \in 0..MaxFailures /\ damaged' \in SUBSET Networks
      BY <1>0, <1>f, <2>14 DEF FailRollback
    <3>4. UNCHANGED <<core, records, call, valid>>
      BY <2>14 DEF FailRollback
    <3>5. QED
      BY <3>1, <3>2, <3>3, <3>4 DEF core
  <2>15. QED
    BY <1>1, <2>1, <2>2, <2>3, <2>4, <2>5, <2>6, <2>7, <2>8, <2>9, <2>10,
       <2>11, <2>12, <2>13, <2>14 DEF Index
<1>2. ASSUME NEW t \in Tasks, CallsIndex(t) PROVE IndexerTypeOK'
  BY <1>2 DEF CallsIndex, Call, Calls, core
<1>3. CASE AutoCommit
  BY <1>f, <1>3 DEF AutoCommit, callVars
<1>4. CASE LosesRecords
  BY <1>4 DEF LosesRecords, core, callVars
<1>5. CASE UNCHANGED indexerVars
  BY <1>5 DEF indexerVars, core, callVars
<1>6. QED
  BY <1>1, <1>2, <1>3, <1>4, <1>5 DEF IndexerNext

(* A page is sent only while pages that were counted are left.             *)
LEMMA PagesStep ==
  ASSUME IndexerTypeOK, PagesCounted, IndexerNext
  PROVE  PagesCounted'
<1> USE DEF IndexerTypeOK, PagesCounted, Go, callVars
<1>1. ASSUME NEW t \in Tasks, Index(t) PROVE PagesCounted'
  <2>1. CASE Enter(t) \/ SendDelete(t) \/ FailDelete(t)
    BY <2>1 DEF Enter, SendDelete, FailDelete
  <2>2. CASE CommitDelete(t) \/ RollbackDelete(t)
    BY <2>2 DEF CommitDelete, RollbackDelete, AfterDelete
  <2>3. CASE CountPages(t)
    <3>1. PagesNow(call[t].snapshot) \in Nat
      BY <2>3, IndexerAssumption DEF CountPages, PagesNow, Calls
    <3>2. sent[t] = 0
      BY <2>3 DEF CountPages
    <3>3. QED
      BY <2>3, <3>1, <3>2 DEF CountPages
  <2>4. CASE SendPage(t) \/ LosePage(t)
    <3>1. /\ step[t] = "page" /\ step' = [step EXCEPT ![t] = "page"]
          /\ sent' = [sent EXCEPT ![t] = @ + 1] /\ UNCHANGED total /\ sent[t] < total[t]
      BY <2>4 DEF SendPage, LosePage
    <3>2. sent[t] \in Nat /\ total[t] \in Nat
      BY IndexerAssumption
    <3>3. sent[t] + 1 <= total[t]
      BY <3>1, <3>2
    <3>4. QED
      BY <3>1, <3>3
  <2>5. CASE NoSnapshot(t) \/ CommitPages(t) \/ FailIndexing(t) \/ RollbackPages(t)
    BY <2>5 DEF NoSnapshot, CommitPages, FailIndexing, RollbackPages
  <2>6. CASE Leave(t)
    BY <2>6 DEF Leave, ForgetLocals
  <2>7. CASE FailRollback(t)
    <3>1. CASE /\ UNCHANGED <<sent, total>>
               /\ Go(t, "rollbackDelete", AfterDelete(t)) \/ Go(t, "rollback", "leave")
      BY <3>1 DEF AfterDelete
    <3>2. CASE ForgetLocals(t) /\ \E from : Go(t, from, "thrown")
      BY <3>2 DEF ForgetLocals
    <3>3. QED
      BY <2>7, <3>1, <3>2 DEF FailRollback
  <2>8. QED
    BY <1>1, <2>1, <2>2, <2>3, <2>4, <2>5, <2>6, <2>7 DEF Index
<1>2. ASSUME NEW t \in Tasks, CallsIndex(t) PROVE PagesCounted'
  BY <1>2 DEF CallsIndex, Call
<1>3. CASE AutoCommit \/ LosesRecords \/ UNCHANGED indexerVars
  BY <1>3 DEF AutoCommit, LosesRecords, indexerVars
<1>4. QED
  BY <1>1, <1>2, <1>3 DEF IndexerNext

(* The variables of the callers and of the database. *)
LEMMA CallerTypes ==
  TypeOK /\ [Next]_vars /\ IndexerTypeOK' /\ PagesCounted' => TypeOK'
<1> SUFFICES ASSUME TypeOK, [Next]_vars, IndexerTypeOK', PagesCounted' PROVE TypeOK'
  OBVIOUS
<1> USE IndexerAssumption, IndexingAssumption DEF TypeOK, Statuses, Rows, Move
<1>1. CASE UNCHANGED vars
  BY <1>1 DEF vars, rows, adminVars
<1>2. ASSUME NEW t \in Tasks, Indexes(t) PROVE TypeOK'
  BY <1>2 DEF Indexes, rows, adminVars
<1>3. ASSUME NEW s \in Snapshots, SnapshotWorker(s) PROVE TypeOK'
  <2>1. CASE BeginIndexing(s)
    BY <2>1 DEF BeginIndexing, Save, SaveEnding, Exists, adminVars
  <2>2. CASE ValidWithoutIndexing(s)
    BY <2>2 DEF ValidWithoutIndexing, Save, SaveEnding, Exists, adminVars
  <2>3. CASE EndIndexing(s)
    BY <2>3 DEF EndIndexing, Save, Exists, adminVars
  <2>4. CASE FinalSave(s)
    BY <2>4 DEF FinalSave, Save, SaveEnding, Exists, adminVars
  <2>5. CASE RunFails(s)
    BY <2>5 DEF RunFails, rows, adminVars
  <2>6. QED
    BY <1>3, <2>1, <2>2, <2>3, <2>4, <2>5 DEF SnapshotWorker
<1>4. ASSUME NEW j \in Jobs, IndexerWorker(j) PROVE TypeOK'
  BY <1>4 DEF IndexerWorker, FindNetwork, NoNetwork, ClearNetwork,
              IndexLastGoodKnown, EndJob, rows, adminVars
<1>5. CASE Administrator
  <2>1. ASSUME NEW j \in Jobs, NEW n \in Networks,
               AskForIndexing(j, n) \/ DeleteNetworkLaunches(j, n)
        PROVE TypeOK'
    <3>1. \E d \in BOOLEAN : LaunchIndexerWorker(j, n, d)
      BY <2>1 DEF AskForIndexing, DeleteNetworkLaunches
    <3>2. /\ job' \in [Jobs -> [network : Networks, deleteOnly : BOOLEAN]]
          /\ place' \in [Tasks -> {"idle", "queued", "lookup", "harvested",
                                   "indexing", "save", "done"}]
      BY <3>1 DEF LaunchIndexerWorker
    <3>3. deleting' \in SUBSET Networks /\ UNCHANGED <<rows, mem, cleaning>>
      BY <2>1 DEF AskForIndexing, DeleteNetworkLaunches, adminVars
    <3>4. QED
      BY <3>2, <3>3 DEF rows
  <2>2. ASSUME NEW n \in Networks, DeleteNetworkCommits(n) PROVE TypeOK'
    BY <2>2 DEF DeleteNetworkCommits
  <2>3. ASSUME NEW s \in Snapshots, CleanSnapshotReads(s) PROVE TypeOK'
    BY <2>3 DEF CleanSnapshotReads, Exists, rows
  <2>4. ASSUME NEW s \in Snapshots, CleanSnapshotCommits(s) PROVE TypeOK'
    <3>1. /\ cleaning[s].status \in Statuses
          /\ cleaning[s].endTime \in Nat
      BY <2>4 DEF CleanSnapshotCommits
    <3>2. QED
      BY <2>4, <3>1 DEF CleanSnapshotCommits
  <2>5. QED
    BY <1>5, <2>1, <2>2, <2>3, <2>4 DEF Administrator
<1>6. CASE SolrCommits
  BY <1>6 DEF SolrCommits, rows, adminVars
<1>7. QED
  BY <1>1, <1>2, <1>3, <1>4, <1>5, <1>6 DEF Next, Run

(* Every variable keeps its type, and no call sends more pages than it     *)
(* counted, whatever fails and whoever calls (IndexerImpl 69-149).         *)
THEOREM TypeCorrect == Spec => []TypeOK
<1>1. TypeOK /\ [Next]_vars => TypeOK'
  BY StepOfIndexer, IndexerTypes, PagesStep, CallerTypes DEF TypeOK
<1>2. QED
  BY <1>1, InitTypes, PTL DEF Spec

-----------------------------------------------------------------------------
(* The state of Solr inside and outside the monitor. *)

Inside == {"delete", "commitDelete", "rollbackDelete", "count", "page",
           "rollback", "leave"}

MonitorInv == \A t \in Tasks : step[t] \in Inside <=> monitor = t

CallInv ==
  \A t \in Tasks :
    /\ step[t] # "out" /\ call[t].snapshot # None =>
         NetworkOf[call[t].snapshot] = call[t].network
    /\ step[t] = "page" => call[t].snapshot # None
    /\ step[t] \notin {"page", "rollback", "leave"} => sent[t] = 0

\* The steps at which a call may have sent what it has not committed.
Sending == {"commitDelete", "page", "rollback"}

Sends(t, n) ==
  call[t].network = n /\ step[t] \in Sending

CleanInv ==
  \A n \in Networks :
    n \in damaged \/ pending[n] = committed[n] \/ \E t \in Tasks : Sends(t, n)

\* What was sent: a page less only if the records are gone.
PagesSent(t) ==
  LET s == call[t].snapshot IN
  \E k \in 0..PagesOf[s] :
    /\ pending[call[t].network] = Readers!Prefix(s, k)
    /\ s \in records => k = sent[t] /\ total[t] = PagesOf[s]

Progress(t) ==
  LET n == call[t].network IN
  /\ step[t] = "commitDelete" => pending[n] = Nothing
  /\ step[t] = "rollbackDelete" => n \in damaged
  /\ step[t] = "count" /\ n \notin damaged =>
       committed[n] = Nothing /\ pending[n] = Nothing
  /\ step[t] = "page" /\ n \notin damaged =>
       committed[n] = Nothing /\ PagesSent(t)

ProgressInv == \A t \in Tasks : Progress(t)

IInv == MonitorInv /\ CallInv /\ CleanInv /\ ProgressInv

LEMMA MonitorStep ==
  ASSUME IndexerTypeOK, MonitorInv, IndexerNext
  PROVE  MonitorInv'
<1> USE IndexerAssumption DEF IndexerTypeOK, Steps, Go, AfterDelete, MonitorInv, Inside, callVars
<1>1. ASSUME NEW t \in Tasks, Index(t) PROVE MonitorInv'
  <2>1. CASE Enter(t)
    BY <2>1 DEF Enter
  <2>2. CASE Leave(t)
    BY <2>2 DEF Leave
  <2>3. CASE SendDelete(t)
    BY <2>3 DEF SendDelete
  <2>4. CASE CommitDelete(t)
    BY <2>4 DEF CommitDelete
  <2>5. CASE FailDelete(t)
    BY <2>5 DEF FailDelete
  <2>6. CASE RollbackDelete(t)
    BY <2>6 DEF RollbackDelete
  <2>7. CASE CountPages(t)
    BY <2>7 DEF CountPages
  <2>8. CASE NoSnapshot(t)
    BY <2>8 DEF NoSnapshot
  <2>9. CASE SendPage(t)
    BY <2>9 DEF SendPage
  <2>10. CASE LosePage(t)
    BY <2>10 DEF LosePage
  <2>11. CASE CommitPages(t)
    BY <2>11 DEF CommitPages
  <2>12. CASE FailIndexing(t)
    BY <2>12 DEF FailIndexing
  <2>13. CASE RollbackPages(t)
    BY <2>13 DEF RollbackPages
  <2>14. CASE FailRollback(t)
    BY <2>14 DEF FailRollback
  <2>15. QED
    BY <1>1, <2>1, <2>2, <2>3, <2>4, <2>5, <2>6, <2>7, <2>8, <2>9, <2>10,
       <2>11, <2>12, <2>13, <2>14 DEF Index
<1>2. ASSUME NEW t \in Tasks, CallsIndex(t) PROVE MonitorInv'
  BY <1>2 DEF CallsIndex, Call
<1>3. CASE AutoCommit
  BY <1>3 DEF AutoCommit
<1>4. CASE LosesRecords
  BY <1>4 DEF LosesRecords
<1>5. CASE UNCHANGED indexerVars
  BY <1>5 DEF indexerVars
<1>6. QED
  BY <1>1, <1>2, <1>3, <1>4, <1>5 DEF IndexerNext

LEMMA CallStep ==
  ASSUME IndexerTypeOK, CallInv, IndexerNext
  PROVE  CallInv'
<1> USE IndexerAssumption DEF IndexerTypeOK, Steps, Go, ForgetLocals, AfterDelete, core, callVars, CallInv
<1>1. ASSUME NEW t \in Tasks, Index(t) PROVE CallInv'
  <2>1. CASE Enter(t)
    BY <2>1 DEF Enter
  <2>2. CASE Leave(t)
    BY <2>2 DEF Leave
  <2>3. CASE SendDelete(t)
    BY <2>3 DEF SendDelete
  <2>4. CASE CommitDelete(t)
    BY <2>4 DEF CommitDelete
  <2>5. CASE FailDelete(t)
    BY <2>5 DEF FailDelete
  <2>6. CASE RollbackDelete(t)
    BY <2>6 DEF RollbackDelete
  <2>7. CASE CountPages(t)
    BY <2>7 DEF CountPages
  <2>8. CASE NoSnapshot(t)
    BY <2>8 DEF NoSnapshot
  <2>9. CASE SendPage(t)
    BY <2>9 DEF SendPage
  <2>10. CASE LosePage(t)
    BY <2>10 DEF LosePage
  <2>11. CASE CommitPages(t)
    BY <2>11 DEF CommitPages
  <2>12. CASE FailIndexing(t)
    BY <2>12 DEF FailIndexing
  <2>13. CASE RollbackPages(t)
    BY <2>13 DEF RollbackPages
  <2>14. CASE FailRollback(t)
    BY <2>14 DEF FailRollback
  <2>15. QED
    BY <1>1, <2>1, <2>2, <2>3, <2>4, <2>5, <2>6, <2>7, <2>8, <2>9, <2>10,
       <2>11, <2>12, <2>13, <2>14 DEF Index
<1>2. ASSUME NEW t \in Tasks, CallsIndex(t) PROVE CallInv'
  BY <1>2 DEF CallsIndex, Call
<1>3. CASE AutoCommit
  BY <1>3 DEF AutoCommit
<1>4. CASE LosesRecords
  BY <1>4 DEF LosesRecords
<1>5. CASE UNCHANGED indexerVars
  BY <1>5 DEF indexerVars
<1>6. QED
  BY <1>1, <1>2, <1>3, <1>4, <1>5 DEF IndexerNext

\* Whatever the call in the monitor has not sent is committed.
LEMMA OthersClean ==
  ASSUME IndexerTypeOK, MonitorInv, CleanInv,
         NEW t \in Tasks, step[t] \in Inside,
         NEW n \in Networks, ~Sends(t, n), n \notin damaged
  PROVE  pending[n] = committed[n]
<1>1. ASSUME NEW u \in Tasks, Sends(u, n) PROVE FALSE
  BY <1>1 DEF Sends, Sending, MonitorInv, Inside
<1>2. QED
  BY <1>1 DEF CleanInv

LEMMA CleanStep ==
  ASSUME IndexerTypeOK, MonitorInv, CleanInv, ProgressInv, IndexerNext
  PROVE  CleanInv'
<1> USE IndexerAssumption DEF IndexerTypeOK, Steps, Go, ForgetLocals, AfterDelete, core, callVars
<1>1. ASSUME NEW t \in Tasks, Index(t) PROVE CleanInv'
  <2>1. CASE Enter(t)
    <3> SUFFICES ASSUME NEW n \in Networks, n \notin damaged', pending'[n] # committed'[n]
                 PROVE  \E u \in Tasks : Sends(u, n)'
      BY DEF CleanInv
    <3>1. n \notin damaged /\ pending[n] # committed[n] /\ step[t] \notin Sending
      BY <2>1 DEF Enter, Sending
    <3>2. PICK u \in Tasks : Sends(u, n)
      BY <3>1 DEF CleanInv
    <3>3. u # t /\ step'[u] = step[u] /\ call' = call
      BY <2>1, <3>1, <3>2 DEF Enter, Sends, Sending
    <3>4. QED
      BY <3>2, <3>3 DEF Sends
  <2>2. CASE Leave(t)
    <3> SUFFICES ASSUME NEW n \in Networks, n \notin damaged', pending'[n] # committed'[n]
                 PROVE  \E u \in Tasks : Sends(u, n)'
      BY DEF CleanInv
    <3>1. n \notin damaged /\ pending[n] # committed[n] /\ step[t] \notin Sending
      BY <2>2 DEF Leave, Sending
    <3>2. PICK u \in Tasks : Sends(u, n)
      BY <3>1 DEF CleanInv
    <3>3. u # t /\ step'[u] = step[u] /\ call' = call
      BY <2>2, <3>1, <3>2 DEF Leave, Sends, Sending
    <3>4. QED
      BY <3>2, <3>3 DEF Sends
  <2>3. CASE SendDelete(t)
    <3> SUFFICES ASSUME NEW n \in Networks, n \notin damaged', pending'[n] # committed'[n]
                 PROVE  \E u \in Tasks : Sends(u, n)'
      BY DEF CleanInv
    <3>1. step[t] \in Inside /\ step'[t] \in Sending /\ call' = call
      BY <2>3 DEF SendDelete, Inside, Sending
    <3>2. n # call[t].network =>
            n \notin damaged /\ pending[n] = pending'[n] /\ committed[n] = committed'[n]
      BY <2>3 DEF SendDelete, Emptied
    <3>3. n = call[t].network
      BY <3>1, <3>2, OthersClean DEF Sends
    <3>4. QED
      BY <3>1, <3>3 DEF Sends, Sending
  <2>4. CASE CommitDelete(t)
    <3>1. pending' = committed'
      BY <2>4 DEF CommitDelete
    <3>2. QED
      BY <3>1 DEF CleanInv
  <2>5. CASE FailDelete(t)
    <3> SUFFICES ASSUME NEW n \in Networks, n \notin damaged', pending'[n] # committed'[n]
                 PROVE  \E u \in Tasks : Sends(u, n)'
      BY DEF CleanInv
    <3>1. step[t] \in Inside /\ n # call[t].network /\ n \notin damaged
      BY <2>5 DEF FailDelete, Inside
    <3>2. pending[n] = committed[n] /\ pending'[n] = pending[n]
      BY <2>5, <3>1, OthersClean DEF FailDelete, Sends, Emptied
    <3>3. committed'[n] \in {committed[n], pending[n]}
      BY <2>5 DEF FailDelete
    <3>4. QED
      BY <3>2, <3>3
  <2>6. CASE RollbackDelete(t)
    <3>1. pending' = committed'
      BY <2>6 DEF RollbackDelete
    <3>2. QED
      BY <3>1 DEF CleanInv
  <2>7. CASE CountPages(t)
    <3> SUFFICES ASSUME NEW n \in Networks, n \notin damaged', pending'[n] # committed'[n]
                 PROVE  \E u \in Tasks : Sends(u, n)'
      BY DEF CleanInv
    <3>1. n \notin damaged /\ pending[n] # committed[n] /\ step[t] \notin Sending
      BY <2>7 DEF CountPages, Sending
    <3>2. PICK u \in Tasks : Sends(u, n)
      BY <3>1 DEF CleanInv
    <3>3. u # t /\ step'[u] = step[u] /\ call' = call
      BY <2>7, <3>1, <3>2 DEF CountPages, Sends, Sending
    <3>4. QED
      BY <3>2, <3>3 DEF Sends
  <2>8. CASE NoSnapshot(t)
    <3> SUFFICES ASSUME NEW n \in Networks, n \notin damaged', pending'[n] # committed'[n]
                 PROVE  \E u \in Tasks : Sends(u, n)'
      BY DEF CleanInv
    <3>1. n \notin damaged /\ pending[n] # committed[n] /\ step[t] \notin Sending
      BY <2>8 DEF NoSnapshot, Sending
    <3>2. PICK u \in Tasks : Sends(u, n)
      BY <3>1 DEF CleanInv
    <3>3. u # t /\ step'[u] = step[u] /\ call' = call
      BY <2>8, <3>1, <3>2 DEF NoSnapshot, Sends, Sending
    <3>4. QED
      BY <3>2, <3>3 DEF Sends
  <2>9. CASE SendPage(t)
    <3> SUFFICES ASSUME NEW n \in Networks, n \notin damaged', pending'[n] # committed'[n]
                 PROVE  \E u \in Tasks : Sends(u, n)'
      BY DEF CleanInv
    <3>1. step[t] \in Inside /\ step'[t] \in Sending /\ call' = call
      BY <2>9 DEF SendPage, Inside, Sending
    <3>2. n # call[t].network =>
            n \notin damaged /\ pending[n] = pending'[n] /\ committed[n] = committed'[n]
      BY <2>9 DEF SendPage, WithPage
    <3>3. n = call[t].network
      BY <3>1, <3>2, OthersClean DEF Sends
    <3>4. QED
      BY <3>1, <3>3 DEF Sends, Sending
  <2>10. CASE LosePage(t)
    <3> SUFFICES ASSUME NEW n \in Networks, n \notin damaged', pending'[n] # committed'[n]
                 PROVE  \E u \in Tasks : Sends(u, n)'
      BY DEF CleanInv
    <3>1. step[t] \in Inside /\ n # call[t].network /\ n \notin damaged
      BY <2>10 DEF LosePage, Inside
    <3>2. pending[n] = committed[n] /\ pending'[n] = pending[n]
      BY <2>10, <3>1, OthersClean DEF LosePage, Sends, WithPage
    <3>3. committed'[n] \in {committed[n], pending[n]}
      BY <2>10 DEF LosePage
    <3>4. QED
      BY <3>2, <3>3
  <2>11. CASE CommitPages(t)
    <3>1. pending' = committed'
      BY <2>11 DEF CommitPages
    <3>2. QED
      BY <3>1 DEF CleanInv
  <2>12. CASE FailIndexing(t)
    <3> SUFFICES ASSUME NEW n \in Networks, n \notin damaged', pending'[n] # committed'[n]
                 PROVE  \E u \in Tasks : Sends(u, n)'
      BY DEF CleanInv
    <3>1. /\ step[t] \in Inside /\ step'[t] = "rollback" /\ call' = call
          /\ n \notin damaged /\ pending'[n] = pending[n]
          /\ committed'[n] \in {committed[n], pending[n]}
      BY <2>12 DEF FailIndexing, Inside
    <3>2. n = call[t].network
      BY <3>1, OthersClean DEF Sends
    <3>3. QED
      BY <3>1, <3>2 DEF Sends, Sending
  <2>13. CASE RollbackPages(t)
    <3>1. pending' = committed'
      BY <2>13 DEF RollbackPages
    <3>2. QED
      BY <3>1 DEF CleanInv
  <2>14. CASE FailRollback(t)
    <3> SUFFICES ASSUME NEW n \in Networks, n \notin damaged', pending'[n] # committed'[n]
                 PROVE  \E u \in Tasks : Sends(u, n)'
      BY DEF CleanInv
    <3>1. step[t] \in Inside /\ n # call[t].network /\ n \notin damaged
      BY <2>14 DEF FailRollback, Inside
    <3>2. pending[n] = committed[n] /\ pending'[n] = pending[n]
      BY <2>14, <3>1, OthersClean DEF FailRollback, Sends
    <3>3. committed'[n] \in {committed[n], pending[n]}
      BY <2>14 DEF FailRollback
    <3>4. QED
      BY <3>2, <3>3
  <2>15. QED
    BY <1>1, <2>1, <2>2, <2>3, <2>4, <2>5, <2>6, <2>7, <2>8, <2>9, <2>10,
       <2>11, <2>12, <2>13, <2>14 DEF Index
<1>2. ASSUME NEW t \in Tasks, CallsIndex(t) PROVE CleanInv'
  <2> SUFFICES ASSUME NEW n \in Networks, n \notin damaged', pending'[n] # committed'[n]
               PROVE  \E u \in Tasks : Sends(u, n)'
    BY DEF CleanInv
  <2>1. n \notin damaged /\ pending[n] # committed[n] /\ step[t] = "out"
    BY <1>2 DEF CallsIndex, Call
  <2>2. PICK u \in Tasks : Sends(u, n)
    BY <2>1 DEF CleanInv
  <2>3. u # t /\ step'[u] = step[u] /\ call'[u] = call[u]
    BY <1>2, <2>1, <2>2 DEF CallsIndex, Call, Sends, Sending
  <2>4. QED
    BY <2>2, <2>3 DEF Sends
<1>3. CASE AutoCommit
  BY <1>3 DEF AutoCommit, CleanInv
<1>4. CASE LosesRecords
  BY <1>4 DEF LosesRecords, CleanInv, Sends
<1>5. CASE UNCHANGED indexerVars
  BY <1>5 DEF indexerVars, CleanInv, Sends
<1>6. QED
  BY <1>1, <1>2, <1>3, <1>4, <1>5 DEF IndexerNext

LEMMA NothingIsPrefix == ASSUME NEW s PROVE Nothing = Readers!Prefix(s, 0)
  BY IndexerAssumption DEF Nothing, Readers!Prefix

LEMMA NextPrefix ==
  ASSUME NEW s, NEW k \in Nat, k + 1 <= MaxPages
  PROVE  [Readers!Prefix(s, k) EXCEPT ![k + 1] = s] = Readers!Prefix(s, k + 1)
<1> DEFINE f == [Readers!Prefix(s, k) EXCEPT ![k + 1] = s]
           g == Readers!Prefix(s, k + 1)
<1> USE IndexerAssumption DEF Readers!Prefix
<1>1. /\ f = [p \in 1..MaxPages |-> f[p]]
      /\ g = [p \in 1..MaxPages |-> g[p]]
  OBVIOUS
<1>2. ASSUME NEW p \in 1..MaxPages PROVE f[p] = g[p]
  <2>1. k + 1 \in 1..MaxPages
    OBVIOUS
  <2>2. g[p] = IF p <= k + 1 THEN s ELSE None
    OBVIOUS
  <2>3. f[p] = IF p = k + 1 THEN s ELSE IF p <= k THEN s ELSE None
    BY <2>1
  <2>4. p <= k + 1 <=> p = k + 1 \/ p <= k
    OBVIOUS
  <2>5. QED
    BY <2>2, <2>3, <2>4
<1> HIDE DEF f, g
<1>3. f = g
  BY <1>1, <1>2
<1>4. QED
  BY <1>3 DEF f, g

LEMMA ProgressStep ==
  ASSUME IndexerTypeOK, MonitorInv, CallInv, ProgressInv, IndexerNext
  PROVE  ProgressInv'
<1> USE IndexerAssumption DEF IndexerTypeOK, Steps, Go, ForgetLocals, AfterDelete, core, callVars
<1>1. ASSUME NEW t \in Tasks, Index(t) PROVE ProgressInv'
  <2>1. CASE Enter(t)
    <3>1. ASSUME NEW u \in Tasks, u # t PROVE Progress(u)'
      <4>1. step'[u] = step[u] /\ step[u] \notin Inside
        BY <2>1, <3>1 DEF Enter, MonitorInv, Inside
      <4>2. QED
        BY <4>1 DEF Progress, Inside
    <3>2. Progress(t)'
      BY <2>1 DEF Enter, Progress, ProgressInv
    <3>3. QED
      BY <3>1, <3>2 DEF ProgressInv
  <2>2. CASE Leave(t)
    <3>1. ASSUME NEW u \in Tasks, u # t PROVE Progress(u)'
      <4>1. step'[u] = step[u] /\ step[u] \notin Inside
        BY <2>2, <3>1 DEF Leave, MonitorInv, Inside
      <4>2. QED
        BY <4>1 DEF Progress, Inside
    <3>2. Progress(t)'
      BY <2>2 DEF Leave, Progress, ProgressInv
    <3>3. QED
      BY <3>1, <3>2 DEF ProgressInv
  <2>3. CASE SendDelete(t)
    <3>1. ASSUME NEW u \in Tasks, u # t PROVE Progress(u)'
      <4>1. step'[u] = step[u] /\ step[u] \notin Inside
        BY <2>3, <3>1 DEF SendDelete, MonitorInv, Inside
      <4>2. QED
        BY <4>1 DEF Progress, Inside
    <3>2. Progress(t)'
      <4>1. call[t].network \in Networks
        BY DEF Calls
      <4>2. /\ step'[t] = "commitDelete" /\ call' = call
            /\ pending' = [pending EXCEPT ![call[t].network] = Nothing]
        BY <2>3 DEF SendDelete, Emptied
      <4>3. QED
        BY <4>1, <4>2 DEF Progress
    <3>3. QED
      BY <3>1, <3>2 DEF ProgressInv
  <2>4. CASE CommitDelete(t)
    <3>1. ASSUME NEW u \in Tasks, u # t PROVE Progress(u)'
      <4>1. step'[u] = step[u] /\ step[u] \notin Inside
        BY <2>4, <3>1 DEF CommitDelete, MonitorInv, Inside
      <4>2. QED
        BY <4>1 DEF Progress, Inside
    <3>2. Progress(t)'
      BY <2>4 DEF CommitDelete, Progress, ProgressInv
    <3>3. QED
      BY <3>1, <3>2 DEF ProgressInv
  <2>5. CASE FailDelete(t)
    <3>1. ASSUME NEW u \in Tasks, u # t PROVE Progress(u)'
      <4>1. step'[u] = step[u] /\ step[u] \notin Inside
        BY <2>5, <3>1 DEF FailDelete, MonitorInv, Inside
      <4>2. QED
        BY <4>1 DEF Progress, Inside
    <3>2. Progress(t)'
      BY <2>5 DEF FailDelete, Progress, ProgressInv
    <3>3. QED
      BY <3>1, <3>2 DEF ProgressInv
  <2>6. CASE RollbackDelete(t)
    <3>1. ASSUME NEW u \in Tasks, u # t PROVE Progress(u)'
      <4>1. step'[u] = step[u] /\ step[u] \notin Inside
        BY <2>6, <3>1 DEF RollbackDelete, MonitorInv, Inside
      <4>2. QED
        BY <4>1 DEF Progress, Inside
    <3>2. Progress(t)'
      BY <2>6 DEF RollbackDelete, Progress, ProgressInv
    <3>3. QED
      BY <3>1, <3>2 DEF ProgressInv
  <2>7. CASE CountPages(t)
    <3>1. ASSUME NEW u \in Tasks, u # t PROVE Progress(u)'
      <4>1. step'[u] = step[u] /\ step[u] \notin Inside
        BY <2>7, <3>1 DEF CountPages, MonitorInv, Inside
      <4>2. QED
        BY <4>1 DEF Progress, Inside
    <3>2. Progress(t)'
      <4> DEFINE n == call[t].network
                 s == call[t].snapshot
      <4>1. /\ step[t] = "count" /\ step'[t] = "page" /\ sent[t] = 0 /\ s \in Snapshots
            /\ UNCHANGED <<committed, pending, records, call, sent, damaged>>
            /\ total'[t] = PagesNow(s)
        BY <2>7 DEF CountPages, CallInv, Calls
      <4>2. CASE n \in damaged
        BY <4>1, <4>2 DEF Progress
      <4>3. CASE n \notin damaged
        <5>1. committed[n] = Nothing /\ pending[n] = Readers!Prefix(s, 0)
          BY <4>1, <4>3, NothingIsPrefix DEF ProgressInv, Progress
        <5>2. 0 \in 0..PagesOf[s] /\ (s \in records => total'[t] = PagesOf[s])
          BY <4>1 DEF PagesNow
        <5>3. PagesSent(t)'
          BY <4>1, <5>1, <5>2 DEF PagesSent
        <5>4. QED
          BY <4>1, <5>1, <5>3 DEF Progress
      <4>4. QED
        BY <4>2, <4>3
    <3>3. QED
      BY <3>1, <3>2 DEF ProgressInv
  <2>8. CASE NoSnapshot(t)
    <3>1. ASSUME NEW u \in Tasks, u # t PROVE Progress(u)'
      <4>1. step'[u] = step[u] /\ step[u] \notin Inside
        BY <2>8, <3>1 DEF NoSnapshot, MonitorInv, Inside
      <4>2. QED
        BY <4>1 DEF Progress, Inside
    <3>2. Progress(t)'
      BY <2>8 DEF NoSnapshot, Progress, ProgressInv
    <3>3. QED
      BY <3>1, <3>2 DEF ProgressInv
  <2>9. CASE SendPage(t)
    <3>1. ASSUME NEW u \in Tasks, u # t PROVE Progress(u)'
      <4>1. step'[u] = step[u] /\ step[u] \notin Inside
        BY <2>9, <3>1 DEF SendPage, MonitorInv, Inside
      <4>2. QED
        BY <4>1 DEF Progress, Inside
    <3>2. Progress(t)'
      <4> DEFINE n == call[t].network
                 s == call[t].snapshot
      <4>1. /\ step[t] = "page" /\ step'[t] = "page" /\ sent[t] < total[t]
            /\ sent'[t] = sent[t] + 1 /\ pending' = WithPage(call[t], sent[t] + 1)
            /\ UNCHANGED <<committed, records, call, total, damaged>>
            /\ n \in Networks /\ sent[t] \in Nat /\ total[t] \in Nat
        BY <2>9 DEF SendPage, Calls
      <4>2. CASE n \in damaged
        BY <4>1, <4>2 DEF Progress
      <4>3. CASE n \notin damaged
        <5>1. committed[n] = Nothing /\ PagesSent(t) /\ s \in Snapshots
          BY <4>1, <4>3 DEF ProgressInv, Progress, CallInv, Calls
        <5>2. PICK k \in 0..PagesOf[s] :
                /\ pending[n] = Readers!Prefix(s, k)
                /\ s \in records => k = sent[t] /\ total[t] = PagesOf[s]
          BY <5>1 DEF PagesSent
        <5>3. CASE s \in records
          <6>1. k + 1 <= PagesOf[s] /\ k + 1 <= MaxPages /\ k \in Nat /\ k = sent[t]
            BY <4>1, <5>1, <5>2, <5>3
          <6>2. pending'[n] = Readers!Prefix(s, k + 1)
            BY <4>1, <5>2, <5>3, <6>1, NextPrefix DEF WithPage
          <6>3. k + 1 \in 0..PagesOf[s]
            BY <5>1, <6>1
          <6>4. PagesSent(t)'
            BY <4>1, <5>2, <5>3, <6>1, <6>2, <6>3 DEF PagesSent
          <6>5. QED
            BY <4>1, <5>1, <6>4 DEF Progress
        <5>4. CASE s \notin records
          <6>1. pending' = pending
            BY <4>1, <5>4 DEF WithPage
          <6>2. PagesSent(t)'
            BY <4>1, <5>2, <5>4, <6>1 DEF PagesSent
          <6>3. QED
            BY <4>1, <5>1, <6>2 DEF Progress
        <5>5. QED
          BY <5>3, <5>4
      <4>4. QED
        BY <4>2, <4>3
    <3>3. QED
      BY <3>1, <3>2 DEF ProgressInv
  <2>10. CASE LosePage(t)
    <3>1. ASSUME NEW u \in Tasks, u # t PROVE Progress(u)'
      <4>1. step'[u] = step[u] /\ step[u] \notin Inside
        BY <2>10, <3>1 DEF LosePage, MonitorInv, Inside
      <4>2. QED
        BY <4>1 DEF Progress, Inside
    <3>2. Progress(t)'
      BY <2>10 DEF LosePage, Progress, ProgressInv
    <3>3. QED
      BY <3>1, <3>2 DEF ProgressInv
  <2>11. CASE CommitPages(t)
    <3>1. ASSUME NEW u \in Tasks, u # t PROVE Progress(u)'
      <4>1. step'[u] = step[u] /\ step[u] \notin Inside
        BY <2>11, <3>1 DEF CommitPages, MonitorInv, Inside
      <4>2. QED
        BY <4>1 DEF Progress, Inside
    <3>2. Progress(t)'
      BY <2>11 DEF CommitPages, Progress, ProgressInv
    <3>3. QED
      BY <3>1, <3>2 DEF ProgressInv
  <2>12. CASE FailIndexing(t)
    <3>1. ASSUME NEW u \in Tasks, u # t PROVE Progress(u)'
      <4>1. step'[u] = step[u] /\ step[u] \notin Inside
        BY <2>12, <3>1 DEF FailIndexing, MonitorInv, Inside
      <4>2. QED
        BY <4>1 DEF Progress, Inside
    <3>2. Progress(t)'
      BY <2>12 DEF FailIndexing, Progress, ProgressInv
    <3>3. QED
      BY <3>1, <3>2 DEF ProgressInv
  <2>13. CASE RollbackPages(t)
    <3>1. ASSUME NEW u \in Tasks, u # t PROVE Progress(u)'
      <4>1. step'[u] = step[u] /\ step[u] \notin Inside
        BY <2>13, <3>1 DEF RollbackPages, MonitorInv, Inside
      <4>2. QED
        BY <4>1 DEF Progress, Inside
    <3>2. Progress(t)'
      BY <2>13 DEF RollbackPages, Progress, ProgressInv
    <3>3. QED
      BY <3>1, <3>2 DEF ProgressInv
  <2>14. CASE FailRollback(t)
    <3>1. ASSUME NEW u \in Tasks, u # t PROVE Progress(u)'
      <4>1. step'[u] = step[u] /\ step[u] \notin Inside
        BY <2>14, <3>1 DEF FailRollback, MonitorInv, Inside
      <4>2. QED
        BY <4>1 DEF Progress, Inside
    <3>2. Progress(t)'
      BY <2>14 DEF FailRollback, Progress, ProgressInv
    <3>3. QED
      BY <3>1, <3>2 DEF ProgressInv
  <2>15. QED
    BY <1>1, <2>1, <2>2, <2>3, <2>4, <2>5, <2>6, <2>7, <2>8, <2>9, <2>10,
       <2>11, <2>12, <2>13, <2>14 DEF Index
<1>2. ASSUME NEW t \in Tasks, CallsIndex(t) PROVE ProgressInv'
  <2>1. step[t] = "out" /\ step'[t] = "waiting"
    BY <1>2 DEF CallsIndex, Call
  <2>2. ASSUME NEW u \in Tasks, u # t PROVE Progress(u)'
    <3>1. /\ step'[u] = step[u] /\ call'[u] = call[u]
          /\ UNCHANGED <<committed, pending, records, sent, total, damaged>>
      BY <1>2, <2>2 DEF CallsIndex, Call
    <3>2. QED
      BY <3>1 DEF ProgressInv, Progress, PagesSent
  <2>3. QED
    BY <2>1, <2>2 DEF ProgressInv, Progress
<1>3. CASE AutoCommit
  <2> SUFFICES ASSUME NEW u \in Tasks PROVE Progress(u)'
    BY DEF ProgressInv
  <2> DEFINE n == call[u].network
  <2>1. /\ UNCHANGED <<pending, records, step, call, sent, total>>
        /\ n \in damaged => n \in damaged'
        /\ n \notin damaged' => committed'[n] = committed[n]
    BY <1>3 DEF AutoCommit, Calls
  <2>2. PagesSent(u) => PagesSent(u)'
    BY <2>1 DEF PagesSent
  <2>3. QED
    BY <2>1, <2>2 DEF ProgressInv, Progress
<1>4. CASE LosesRecords
  <2> SUFFICES ASSUME NEW u \in Tasks PROVE Progress(u)'
    BY DEF ProgressInv
  <2>1. /\ UNCHANGED <<committed, pending, step, call, sent, total, damaged>>
        /\ records' \subseteq records
    BY <1>4 DEF LosesRecords
  <2>2. PagesSent(u) => PagesSent(u)'
    BY <2>1 DEF PagesSent
  <2>3. QED
    BY <2>1, <2>2 DEF ProgressInv, Progress
<1>5. CASE UNCHANGED indexerVars
  BY <1>5 DEF indexerVars, ProgressInv, Progress, PagesSent
<1>6. QED
  BY <1>1, <1>2, <1>3, <1>4, <1>5 DEF IndexerNext

LEMMA InitIInv == Init => IInv
<1> SUFFICES ASSUME Init PROVE IInv
  OBVIOUS
<1>1. /\ monitor = None /\ pending = committed
      /\ \A t \in Tasks : step[t] = "out" /\ sent[t] = 0
  BY DEF Init, IndexerInit
<1>2. QED
  BY <1>1, IndexerAssumption
  DEF IInv, MonitorInv, Inside, CallInv, CleanInv, ProgressInv, Progress

LEMMA NextIInv == TypeOK /\ IInv /\ [Next]_vars => IInv'
  BY StepOfIndexer, MonitorStep, CallStep, CleanStep, ProgressStep DEF IInv, TypeOK

(* Outside the monitor Solr holds nothing that was not committed, whatever *)
(* failed, unless the rollback itself did (IndexerImpl 144-172): so the    *)
(* commit of one network never publishes what another one left behind.     *)
THEOREM SolrLeftClean == Spec => []NothingLeftPending
<1>1. IInv => NothingLeftPending
  BY IndexerAssumption
  DEF IInv, NothingLeftPending, MonitorInv, Inside, CleanInv, Sends, Sending
<1>2. QED
  BY <1>1, InitTypes, InitIInv, NextIInv, TypeCorrect, PTL DEF Spec

-----------------------------------------------------------------------------
(* The calls of the indexer implement SearchIndex. *)

\* A commit by the call in the monitor touches no sound network but its own.
LEMMA OwnNetworkOnly ==
  ASSUME IndexerTypeOK, MonitorInv, CleanInv,
         NEW t \in Tasks, step[t] \in Inside, committed' \in {committed, pending}
  PROVE  Readers!Elsewhere(call[t].network)
<1>1. ASSUME NEW m \in Networks, m \notin damaged, m # call[t].network
      PROVE  pending[m] = committed[m]
  BY <1>1, OthersClean DEF Sends
<1>2. QED
  BY <1>1 DEF Readers!Elsewhere

\* Publishing what the call has sent.
LEMMA Publishing ==
  ASSUME IndexerTypeOK, MonitorInv, CallInv, CleanInv, ProgressInv,
         NEW t \in Tasks, step[t] = "page", sent[t] = total[t],
         committed' = pending, UNCHANGED <<damaged, records>>
  PROVE  Readers!Next
<1> DEFINE n == call[t].network
           s == call[t].snapshot
<1> USE IndexerAssumption
<1>1. /\ n \in Networks /\ s \in Snapshots /\ NetworkOf[s] = n
      /\ step[t] \in Inside
  BY DEF IndexerTypeOK, Calls, CallInv, Inside
<1>2. Readers!Elsewhere(n)
  BY <1>1, OwnNetworkOnly
<1>3. CASE n \in damaged
  <2>1. Readers!Suffer(n)
    BY <1>2, <1>3 DEF Readers!Suffer
  <2>2. QED
    BY <1>1, <2>1 DEF Readers!Next
<1>4. CASE n \notin damaged
  <2>1. committed[n] = Readers!Nothing /\ PagesSent(t)
    BY <1>4 DEF ProgressInv, Progress, Nothing, Readers!Nothing
  <2>2. PICK k \in 0..PagesOf[s] :
          /\ pending[n] = Readers!Prefix(s, k)
          /\ s \in records => k = PagesOf[s]
    BY <2>1 DEF PagesSent
  <2>3. Readers!Publish(n, s)
    BY <1>1, <1>2, <2>1, <2>2 DEF Readers!Publish
  <2>4. QED
    BY <1>1, <2>3 DEF Readers!Next
<1>5. QED
  BY <1>3, <1>4

LEMMA ReadersStep ==
  ASSUME IndexerTypeOK, MonitorInv, CallInv, CleanInv, ProgressInv, IndexerNext
  PROVE  [Readers!Next]_(Readers!vars)
<1> USE IndexerAssumption DEF Go
<1>1. ASSUME NEW t \in Tasks, Index(t) PROVE [Readers!Next]_(Readers!vars)
  <2> DEFINE n == call[t].network
  <2>0. n \in Networks
    BY DEF IndexerTypeOK, Calls
  <2>1. CASE CommitDelete(t)
    <3>1. /\ step[t] = "commitDelete" /\ step[t] \in Inside /\ committed' = pending
          /\ damaged' = damaged \ {n} /\ UNCHANGED records
      BY <2>1 DEF CommitDelete, Inside
    <3>2. committed'[n] = Readers!Nothing
      BY <3>1 DEF ProgressInv, Progress, Nothing, Readers!Nothing
    <3>3. Readers!Clear(n)
      BY <3>1, <3>2, OwnNetworkOnly DEF Readers!Clear
    <3>4. QED
      BY <2>0, <3>3 DEF Readers!Next
  <2>2. CASE FailDelete(t) \/ LosePage(t) \/ FailRollback(t)
    <3>1. /\ step[t] \in Inside /\ committed' \in {committed, pending}
          /\ damaged' = damaged \union {n} /\ UNCHANGED records
      BY <2>2 DEF FailDelete, LosePage, FailRollback, Inside, core
    <3>2. Readers!Suffer(n)
      BY <3>1, OwnNetworkOnly DEF Readers!Suffer
    <3>3. QED
      BY <2>0, <3>2 DEF Readers!Next
  <2>3. CASE CommitPages(t)
    <3>1. /\ step[t] = "page" /\ sent[t] = total[t] /\ committed' = pending
          /\ UNCHANGED <<damaged, records>>
      BY <2>3 DEF CommitPages
    <3>2. QED
      BY <3>1, Publishing
  <2>4. CASE FailIndexing(t)
    <3>1. /\ UNCHANGED <<damaged, records>>
          /\ \/ UNCHANGED committed
             \/ step[t] = "page" /\ sent[t] = total[t] /\ committed' = pending
      BY <2>4 DEF FailIndexing
    <3>2. QED
      BY <3>1, Publishing DEF Readers!vars
  <2>5. CASE \/ Enter(t) \/ Leave(t) \/ SendDelete(t) \/ RollbackDelete(t)
             \/ CountPages(t) \/ NoSnapshot(t) \/ SendPage(t) \/ RollbackPages(t)
    BY <2>5 DEF Enter, Leave, SendDelete, RollbackDelete, CountPages, NoSnapshot,
                SendPage, RollbackPages, core, Readers!vars
  <2>6. QED
    BY <1>1, <2>1, <2>2, <2>3, <2>4, <2>5 DEF Index
<1>2. ASSUME NEW t \in Tasks, CallsIndex(t) PROVE [Readers!Next]_(Readers!vars)
  BY <1>2 DEF CallsIndex, Call, core, Readers!vars
<1>3. CASE AutoCommit
  <2>1. PICK n \in Networks : pending[n] # committed[n]
    BY <1>3 DEF AutoCommit, IndexerTypeOK
  <2>2. CASE \A m \in Networks : pending[m] # committed[m] => m \in damaged
    <3>1. damaged' = damaged \union {n}
      BY <1>3, <2>1, <2>2 DEF AutoCommit
    <3>2. Readers!Suffer(n)
      BY <1>3, <2>2, <3>1 DEF AutoCommit, Readers!Suffer, Readers!Elsewhere
    <3>3. QED
      BY <3>2 DEF Readers!Next
  <2>3. ASSUME NEW m \in Networks, pending[m] # committed[m], m \notin damaged
        PROVE  Readers!Next
    <3>1. PICK t \in Tasks : Sends(t, m)
      BY <2>3 DEF CleanInv
    <3>2. step[t] \in Inside /\ call[t].network = m
      BY <3>1 DEF Sends, Sending, Inside
    <3>3. ASSUME NEW o \in Networks, o \notin damaged, o # m PROVE pending[o] = committed[o]
      BY <3>2, <3>3, OthersClean DEF Sends
    <3>4. damaged' = damaged \union {m}
      BY <1>3, <2>3, <3>3 DEF AutoCommit
    <3>5. Readers!Suffer(m)
      BY <1>3, <3>3, <3>4 DEF AutoCommit, Readers!Suffer, Readers!Elsewhere
    <3>6. QED
      BY <3>5 DEF Readers!Next
  <2>4. QED
    BY <2>2, <2>3
<1>4. CASE LosesRecords
  <2>1. ASSUME NEW s \in Snapshots, records' = records \ {s} PROVE Readers!Next
    BY <1>4, <2>1 DEF LosesRecords, core, Readers!Next, Readers!Forget
  <2>2. ASSUME NEW n \in Networks, records' = {s \in records : NetworkOf[s] # n}
        PROVE  Readers!Next
    BY <1>4, <2>2 DEF LosesRecords, core, Readers!Next, Readers!ForgetNetwork
  <2>3. QED
    BY <1>4, <2>1, <2>2 DEF LosesRecords
<1>5. CASE UNCHANGED indexerVars
  BY <1>5 DEF indexerVars, core, Readers!vars
<1>6. QED
  BY <1>1, <1>2, <1>3, <1>4, <1>5 DEF IndexerNext

(* Readers of the core see a network cleared, or one snapshot of it and    *)
(* whole, for any number of callers, of which each commits what all of     *)
(* them have sent (IndexerImpl 69-175).                                    *)
THEOREM ImplementsSearchIndex == Spec => PublishesSnapshots
<1>1. Init => Readers!Init
  BY DEF Init, IndexerInit, Readers!Init, Nothing, Readers!Nothing
<1>2. TypeOK /\ IInv /\ [Next]_vars => [Readers!Next]_(Readers!vars)
  BY StepOfIndexer, ReadersStep DEF TypeOK, IInv
<1>3. QED
  BY <1>1, <1>2, InitTypes, InitIInv, NextIInv, TypeCorrect, PTL
  DEF Spec, PublishesSnapshots, Readers!Spec

=============================================================================
