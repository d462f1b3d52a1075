------------------------------ MODULE Indexing -------------------------------
(***************************************************************************)
(* Who calls the indexer of one Solr core, and what happens to the         *)
(* database meanwhile.                                                     *)
(*                                                                         *)
(* A SnapshotWorker whose harvest ended well indexes its own snapshot and  *)
(* writes VALID or INDEXING_FINISHED_ERROR after the result.  The          *)
(* administrator's requests schedule IndexerWorkers, which clear a network *)
(* or index its last good known snapshot (LGK), the valid one with the     *)
(* largest end time.  The administrator also deletes the records of        *)
(* snapshots, and whole networks.                                          *)
(*                                                                         *)
(* A task is a thread: the worker of a snapshot, named by the snapshot, or *)
(* an IndexerWorker.  The harvest itself is module SnapshotManager.        *)
(***************************************************************************)
EXTENDS Indexer

CONSTANTS
  Jobs,        \* the IndexerWorkers
  Cleanable,   \* bound: the snapshots whose records may be deleted
  Administered \* bound: the networks the administrator works on

ASSUME IndexingAssumption ==
  /\ Tasks = Snapshots \union Jobs
  /\ Snapshots \intersect Jobs = {}
  /\ Cleanable \subseteq Snapshots
  /\ Administered \subseteq Networks

VARIABLES
  networks,   \* the networks in the database
  status,     \* the status of each snapshot's row
  endTime,    \* its end time, 0 for null
  clock,      \* the last end time given, per network: no others are compared
  mem,        \* each SnapshotWorker's in-memory snapshot
  place,      \* where each task's run() is
  job,        \* what each IndexerWorker was scheduled for
  cleaning,   \* the rows read by the cleanSnapshot transactions under way
  deleting    \* the networks whose deleteNetwork is under way

rows == <<networks, status, endTime, clock>>
adminVars == <<cleaning, deleting>>
vars == <<indexerVars, rows, mem, place, job, adminVars>>

Statuses == {"HARVESTING", "INDEXING", "VALID", "INDEXING_FINISHED_ERROR"}

Rows == [status : Statuses, endTime : Nat]

TypeOK ==
  /\ IndexerTypeOK /\ PagesCounted
  /\ networks \in SUBSET Networks
  /\ status \in [Snapshots -> Statuses \union {"ABSENT"}]
  /\ clock \in [Networks -> Nat]
  /\ endTime \in [Snapshots -> Nat]
  /\ mem \in [Snapshots -> Rows]
  /\ place \in [Tasks -> {"idle", "queued", "lookup", "harvested", "indexing",
                          "save", "done"}]
  /\ job \in [Jobs -> [network : Networks, deleteOnly : BOOLEAN]]
  /\ cleaning \in [Snapshots -> Rows \union {None}]
  /\ deleting \in SUBSET Networks

AnyJob == CHOOSE d \in [network : Networks, deleteOnly : BOOLEAN] : TRUE

Init ==
  /\ IndexerInit
  /\ networks = Networks
  /\ status = [s \in Snapshots |-> "HARVESTING"]
  /\ endTime = [s \in Snapshots |-> 0]
  /\ clock = [n \in Networks |-> 0]
  /\ mem = [s \in Snapshots |-> [status |-> "HARVESTING", endTime |-> 0]]
  /\ place = [t \in Tasks |-> IF t \in Jobs THEN "idle" ELSE "harvested"]
  /\ job = [j \in Jobs |-> AnyJob]
  /\ cleaning = [s \in Snapshots |-> None]
  /\ deleting = {}

Move(t, from, to) ==
  /\ place[t] = from
  /\ place' = [place EXCEPT ![t] = to]

-----------------------------------------------------------------------------
(* A SnapshotWorker, once its harvest has ended well. *)

Exists(s) == status[s] # "ABSENT"

\* Every save writes the whole row; new Date() is the next end time.
Save(s, st, end) ==
  /\ Exists(s)
  /\ mem' = [mem EXCEPT ![s] = [status |-> st, endTime |-> end]]
  /\ status' = [status EXCEPT ![s] = st]
  /\ endTime' = [endTime EXCEPT ![s] = end]

SaveEnding(s, st) ==
  /\ Save(s, st, clock[NetworkOf[s]] + 1)
  /\ clock' = [clock EXCEPT ![NetworkOf[s]] = @ + 1]

BeginIndexing(s) ==
  /\ Move(s, "harvested", "indexing")
  /\ SaveEnding(s, "INDEXING")
  /\ Call(s, NetworkOf[s], s, FALSE)
  /\ UNCHANGED <<networks, job, adminVars>>

\* The network is not published, or is indexed with success in the other core.
ValidWithoutIndexing(s) ==
  /\ Move(s, "harvested", "save")
  /\ SaveEnding(s, "VALID")
  /\ UNCHANGED <<indexerVars, networks, job, adminVars>>

EndIndexing(s) ==
  /\ step[s] = "returned"
  /\ Move(s, "indexing", "save")
  /\ Save(s, IF valid[s] THEN "VALID" ELSE "INDEXING_FINISHED_ERROR",
             mem[s].endTime)
  /\ UNCHANGED <<indexerVars, networks, clock, job, adminVars>>

FinalSave(s) ==
  /\ Move(s, "save", "done")
  /\ SaveEnding(s, mem[s].status)
  /\ UNCHANGED <<indexerVars, networks, job, adminVars>>

\* The row is gone and cannot be saved, or index() threw.
RunFails(s) ==
  /\ \/ ~Exists(s) /\ place[s] \in {"harvested", "save"}
     \/ ~Exists(s) /\ place[s] = "indexing" /\ step[s] = "returned"
     \/ place[s] = "indexing" /\ step[s] = "thrown"
  /\ place' = [place EXCEPT ![s] = "done"]
  /\ UNCHANGED <<indexerVars, rows, mem, job, adminVars>>

SnapshotWorker(s) ==
  \/ BeginIndexing(s) \/ ValidWithoutIndexing(s) \/ EndIndexing(s)
  \/ FinalSave(s) \/ RunFails(s)

-----------------------------------------------------------------------------
(* IndexerWorkers. *)

ValidOf(n) == {s \in Snapshots : NetworkOf[s] = n /\ status[s] = "VALID"}

\* findLastGoodKnowByNetworkID, as a set of at most one snapshot.
LastGoodKnown(n) ==
  {s \in ValidOf(n) : \A r \in ValidOf(n) : endTime[s] >= endTime[r]}

\* launchIndexerWorker.
LaunchIndexerWorker(j, n, deleteOnly) ==
  /\ deleteOnly \/ LastGoodKnown(n) # {}
  /\ Move(j, "idle", "queued")
  /\ job' = [job EXCEPT ![j] = [network |-> n, deleteOnly |-> deleteOnly]]

\* indexLGKByNetworkID, deleteNetworkFromIndexByID.
AskForIndexing(j, n) ==
  /\ n \in networks \intersect Administered
  /\ \E deleteOnly \in BOOLEAN : LaunchIndexerWorker(j, n, deleteOnly)
  /\ UNCHANGED <<indexerVars, rows, mem, adminVars>>

FindNetwork(j) ==
  /\ job[j].network \in networks
  /\ ~job[j].deleteOnly
  /\ Move(j, "queued", "lookup")
  /\ UNCHANGED <<indexerVars, rows, mem, job, adminVars>>

\* A network that is gone is printed and then dereferenced.
NoNetwork(j) ==
  /\ job[j].network \notin networks
  /\ Move(j, "queued", "done")
  /\ UNCHANGED <<indexerVars, rows, mem, job, adminVars>>

ClearNetwork(j) ==
  /\ job[j].network \in networks
  /\ job[j].deleteOnly
  /\ Move(j, "queued", "indexing")
  /\ Call(j, job[j].network, None, TRUE)
  /\ UNCHANGED <<rows, mem, job, adminVars>>

IndexLastGoodKnown(j) ==
  /\ Move(j, "lookup", "indexing")
  /\ \/ \E s \in LastGoodKnown(job[j].network) :
          Call(j, job[j].network, s, FALSE)
     \/ /\ LastGoodKnown(job[j].network) = {}
        /\ Call(j, job[j].network, None, FALSE)
  /\ UNCHANGED <<rows, mem, job, adminVars>>

\* The result is not looked at.
EndJob(j) ==
  /\ step[j] \in {"returned", "thrown"}
  /\ Move(j, "indexing", "done")
  /\ UNCHANGED <<indexerVars, rows, mem, job, adminVars>>

IndexerWorker(j) ==
  \/ FindNetwork(j) \/ NoNetwork(j) \/ ClearNetwork(j)
  \/ IndexLastGoodKnown(j) \/ EndJob(j)

-----------------------------------------------------------------------------
(* Transactions of the administrator: what they read, and their commit. *)

\* Bound: the records of a snapshot are deleted once.
CleanSnapshotReads(s) ==
  /\ s \in records \intersect Cleanable
  /\ Exists(s)
  /\ cleaning[s] = None
  /\ cleaning' = [cleaning EXCEPT ![s] =
                    [status |-> status[s], endTime |-> endTime[s]]]
  /\ UNCHANGED <<indexerVars, rows, mem, place, job, deleting>>

\* The whole row is saved, with what was read of it.
CleanSnapshotCommits(s) ==
  /\ cleaning[s] # None
  /\ records' = records \ {s}
  /\ status' = [status EXCEPT ![s] = cleaning[s].status]
  /\ endTime' = [endTime EXCEPT ![s] = cleaning[s].endTime]
  /\ cleaning' = [cleaning EXCEPT ![s] = None]
  /\ UNCHANGED <<core, monitor, step, callVars, failed, damaged, networks, clock, mem,
                 place, job, deleting>>

\* deleteNetwork first schedules a worker that is to clear the index.
DeleteNetworkLaunches(j, n) ==
  /\ n \in (networks \ deleting) \intersect Administered
  /\ LaunchIndexerWorker(j, n, TRUE)
  /\ deleting' = deleting \union {n}
  /\ UNCHANGED <<indexerVars, rows, mem, cleaning>>

DeleteNetworkCommits(n) ==
  /\ n \in deleting
  /\ deleting' = deleting \ {n}
  /\ networks' = networks \ {n}
  /\ status' = [s \in Snapshots |->
                  IF NetworkOf[s] = n THEN "ABSENT" ELSE status[s]]
  /\ records' = {s \in records : NetworkOf[s] # n}
  /\ cleaning' = [s \in Snapshots |->
                    IF NetworkOf[s] = n THEN None ELSE cleaning[s]]
  /\ UNCHANGED <<core, monitor, step, callVars, failed, damaged, endTime, clock, mem,
                 place, job>>

-----------------------------------------------------------------------------
(* The specification. *)

Indexes(t) ==
  /\ Index(t)
  /\ UNCHANGED <<rows, mem, place, job, adminVars>>

SolrCommits ==
  /\ AutoCommit
  /\ UNCHANGED <<rows, mem, place, job, adminVars>>

Run(t) ==
  \/ Indexes(t)
  \/ t \in Snapshots /\ SnapshotWorker(t)
  \/ t \in Jobs /\ IndexerWorker(t)

Administrator ==
  \/ \E j \in Jobs, n \in Networks : AskForIndexing(j, n) \/ DeleteNetworkLaunches(j, n)
  \/ \E n \in Networks : DeleteNetworkCommits(n)
  \/ \E s \in Snapshots : CleanSnapshotReads(s) \/ CleanSnapshotCommits(s)

Next ==
  \/ \E t \in Tasks : Run(t)
  \/ Administrator
  \/ SolrCommits

\* A scheduled task gets a thread, and Solr answers its requests.  Each task
\* calls index() once, so nobody can keep it out of the monitor for ever.
Spec == Init /\ [][Next]_vars /\ \A t \in Tasks : WF_vars(Run(t))

-----------------------------------------------------------------------------
(* Properties. *)

(* Readers see a network cleared or one snapshot of it, whole, although    *)
(* commits publish what any client has sent: the monitor keeps the calls   *)
(* apart and every failure ends in a rollback (IndexerImpl 69-175).  What  *)
(* a refused request damages is repaired by the next delete.               *)
PublishesSnapshots == Readers!Spec

(* Outside the monitor nothing is left in Solr for the commit of another   *)
(* network to publish, unless a rollback failed (IndexerImpl 148-217).     *)
NothingLeftPending ==
  monitor = None =>
    \A n \in Networks : pending[n] = committed[n] \/ n \in damaged

(* Every task that was scheduled ends, whatever fails: the monitor is left *)
(* on every path, an exception out of the rollback included (IndexerImpl   *)
(* 70, 209-217; SnapshotWorker 300-360; IndexerWorker 52-83).              *)
EveryTaskEnds ==
  <>[](\A t \in Tasks : place[t] \in {"idle", "done"})

(* "Si el indexado es exitoso marca el snap válido" (SnapshotWorker 303):  *)
(* a call that returns success has the whole snapshot in the core.         *)
SuccessIsIndexed ==
  \A t \in Tasks :
    LET c == call[t] IN
    step[t] = "leave" /\ valid[t] /\ ~c.deleteOnly /\ c.snapshot \in records =>
      \A p \in 1..MaxPages :
        committed[c.network][p] = c.snapshot <=> p <= PagesOf[c.snapshot]

=============================================================================
