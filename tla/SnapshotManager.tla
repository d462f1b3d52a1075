--------------------------- MODULE SnapshotManager ---------------------------
(***************************************************************************)
(* SnapshotManager, its SnapshotWorkers and the snapshot table.            *)
(*                                                                         *)
(* A worker is a bean run by a thread of the task scheduler: it creates a  *)
(* snapshot row (or takes up a stopped one), registers itself in the       *)
(* manager's map, harvests every origin of its network, indexes what it    *)
(* harvested and unregisters.  The administrator's stop goes through the   *)
(* map to the worker's harvester or, when the map has no worker for the    *)
(* snapshot, straight to the row.  The worker never reads its row again:   *)
(* every save writes its in-memory copy over it.                           *)
(*                                                                         *)
(* A step of a worker is one database or map operation together with the   *)
(* thread-local code around it.  The steps inside harvest() are those of   *)
(* module Harvester.                                                       *)
(*                                                                         *)
(* Abstractions.  Of a row only the status is kept.  An origin, or a set   *)
(* of one, is a target: a call of harvest().  Validation, transformation,  *)
(* statistics and the index itself are modules of their own.               *)
(***************************************************************************)
EXTENDS Harvester, FiniteSets

CONSTANTS
  Cron,         \* the workers the scheduler runs again and again
  Snapshots,    \* identifiers the database can give out
  Targets,      \* calls of harvest() a whole harvest makes
  Configs,      \* the networks' switches: [published, runIndexing, runXOAI]
  Relaunch,     \* whether relauchHarvesting is called
  MaxAborts,    \* bound: exceptions that escape run()
  MaxCrashes,   \* bound: restarts of the server
  None          \* no worker, no snapshot

ASSUME ManagerAssumption ==
  /\ Cron \subseteq Workers
  /\ Targets \in Nat
  /\ Configs \subseteq
       [published : BOOLEAN, runIndexing : BOOLEAN, runXOAI : BOOLEAN]
  /\ Configs # {}
  /\ Relaunch \in BOOLEAN
  /\ MaxAborts \in Nat
  /\ MaxCrashes \in Nat
  /\ None \notin Workers
  /\ None \notin Snapshots

VARIABLES
  row,        \* the status column of each snapshot, "ABSENT" without a row
  registry,   \* workersBySnapshotID
  pc,         \* where each worker's run() is
  mode,       \* "whole", "bySet" or "resume"
  snap,       \* the snapshot of each worker
  mem,        \* the status of the worker's in-memory snapshot
  conf,       \* the switches of the worker's in-memory network
  target,     \* calls of harvest() made
  admin,      \* where stopHarvesting is
  aborts, crashes,
  whole,      \* history: targets of this run listed to their last page
  failed,     \* history: targets of this run that ended in ERROR_FATAL
  lost,       \* history: snapshots whose registered run died
  signalled   \* history: where harvest() was when a stop reached this run

rowVars == <<row, mem>>
runVars == <<mode, snap, conf>>
progress == <<target, whole, failed>>
otherVars == <<admin, aborts, crashes, lost, signalled>>
vars == <<harvesterVars, rowVars, runVars, progress, otherVars, registry, pc>>

Statuses ==
  {"INITIALIZED", "HARVESTING", "RETRYING", "HARVESTING_FINISHED_ERROR",
   "HARVESTING_STOPPED", "INDEXING", "INDEXING_FINISHED_ERROR", "VALID"}

\* The statuses stopHarvesting takes for a snapshot that is being worked on.
Stoppable == {"HARVESTING", "INDEXING", "RETRYING"}

\* run() before it registers, while it is registered, and after.
Unregistered == {"scheduled", "resume", "load", "register"}
Registered ==
  {"mark", "reset", "harvesting", "indexing", "startXOAI", "indexingXOAI",
   "save", "unregister"}
Places == {"idle", "done", "dead"} \union Unregistered \union Registered

AdminSteps ==
  [step : {"none"}] \union
  [step : {"signal"}, worker : Workers] \union
  [step : {"find", "save"}, snapshot : Snapshots]

AdminIdle == [step |-> "none"]

TypeOK ==
  /\ HarvesterTypeOK
  /\ row \in [Snapshots -> Statuses \union {"ABSENT"}]
  /\ registry \in [Snapshots -> Workers \union {None}]
  /\ pc \in [Workers -> Places]
  /\ mode \in [Workers -> {"whole", "bySet", "resume"}]
  /\ snap \in [Workers -> Snapshots \union {None}]
  /\ mem \in [Workers -> Statuses]
  /\ conf \in [Workers -> Configs]
  /\ target \in [Workers -> 0..Targets]
  /\ admin \in AdminSteps
  /\ aborts \in 0..MaxAborts
  /\ crashes \in 0..MaxCrashes
  /\ whole \in [Workers -> SUBSET (1..Targets)]
  /\ failed \in [Workers -> SUBSET (1..Targets)]
  /\ lost \in SUBSET Snapshots
  /\ signalled \in [Workers -> {"no", "between", "within"}]

Init ==
  /\ HarvesterInit
  /\ row = [s \in Snapshots |-> "ABSENT"]
  /\ registry = [s \in Snapshots |-> None]
  /\ pc = [w \in Workers |-> "idle"]
  /\ mode = [w \in Workers |-> "whole"]
  /\ snap = [w \in Workers |-> None]
  /\ mem = [w \in Workers |-> "INITIALIZED"]
  /\ conf = [w \in Workers |-> CHOOSE c \in Configs : TRUE]
  /\ target = [w \in Workers |-> 0]
  /\ admin = AdminIdle
  /\ aborts = 0
  /\ crashes = 0
  /\ whole = [w \in Workers |-> {}]
  /\ failed = [w \in Workers |-> {}]
  /\ lost = {}
  /\ signalled = [w \in Workers |-> "no"]

Move(w, from, to) ==
  /\ pc[w] = from
  /\ pc' = [pc EXCEPT ![w] = to]

\* setSnapshotStatus: the in-memory status, then the whole row.
Save(w, status) ==
  /\ mem' = [mem EXCEPT ![w] = status]
  /\ row' = [row EXCEPT ![snap[w]] = status]

-----------------------------------------------------------------------------
(* The manager schedules workers. *)

\* Bound: every worker waiting for a new snapshot finds a free identifier.
RoomForSnapshot ==
  Cardinality({w \in Workers : pc[w] = "scheduled" /\ mode[w] # "resume"})
    < Cardinality({s \in Snapshots : row[s] = "ABSENT"})

\* lauchHarvesting, lauchSetBySetHarvesting: a new bean.
Launch(w) ==
  /\ w \notin Cron
  /\ RoomForSnapshot
  /\ Move(w, "idle", "scheduled")
  /\ \E m \in {"whole", "bySet"} : mode' = [mode EXCEPT ![w] = m]
  /\ UNCHANGED <<harvesterVars, rowVars, snap, conf, progress, registry, otherVars>>

\* The trigger set by scheduleAllNetworks runs the same bean again.
CronFires(w) ==
  /\ w \in Cron
  /\ RoomForSnapshot
  /\ pc[w] \in {"idle", "done", "dead"}
  /\ pc' = [pc EXCEPT ![w] = "scheduled"]
  /\ UNCHANGED <<harvesterVars, rowVars, runVars, progress, registry, otherVars>>

\* relauchHarvesting: a new bean for a stopped snapshot.
Relaunches(w, s) ==
  /\ Relaunch
  /\ w \notin Cron
  /\ row[s] = "HARVESTING_STOPPED"
  /\ Move(w, "idle", "scheduled")
  /\ mode' = [mode EXCEPT ![w] = "resume"]
  /\ snap' = [snap EXCEPT ![w] = s]
  /\ UNCHANGED <<harvesterVars, rowVars, conf, progress, registry, otherVars>>

-----------------------------------------------------------------------------
(* run(), up to the harvest. *)

\* The network is read and a row is inserted for a new snapshot.
CreateSnapshot(w) ==
  /\ mode[w] # "resume"
  /\ Move(w, "scheduled", "load")
  /\ \E s \in Snapshots, c \in Configs :
       /\ row[s] = "ABSENT"
       /\ row' = [row EXCEPT ![s] = "INITIALIZED"]
       /\ snap' = [snap EXCEPT ![w] = s]
       /\ conf' = [conf EXCEPT ![w] = c]
  /\ mem' = [mem EXCEPT ![w] = "INITIALIZED"]
  /\ UNCHANGED <<harvesterVars, mode, progress, registry, otherVars>>

\* The network is gone, or the snapshot to take up is not a stopped one.
NothingToDo(w) ==
  /\ mode[w] = "resume" => row[snap[w]] # "HARVESTING_STOPPED"
  /\ Move(w, "scheduled", "done")
  /\ UNCHANGED <<harvesterVars, rowVars, runVars, progress, registry, otherVars>>

FindStopped(w) ==
  /\ mode[w] = "resume"
  /\ row[snap[w]] = "HARVESTING_STOPPED"
  /\ Move(w, "scheduled", "resume")
  /\ mem' = [mem EXCEPT ![w] = "HARVESTING_STOPPED"]
  /\ \E c \in Configs : conf' = [conf EXCEPT ![w] = c]
  /\ UNCHANGED <<harvesterVars, row, mode, snap, progress, registry, otherVars>>

TakeUp(w) ==
  /\ Move(w, "resume", "load")
  /\ Save(w, "HARVESTING")
  /\ UNCHANGED <<harvesterVars, runVars, progress, registry, otherVars>>

\* Mutated: the status is written before the worker registers.
LoadBeansMarking(w) ==
  /\ Move(w, "load", "register")
  /\ Save(w, "HARVESTING")
  /\ UNCHANGED <<harvesterVars, runVars, progress, registry, otherVars>>

\* getBean of the network's validator and transformer.
LoadBeans(w) ==
  /\ Move(w, "load", "register")
  /\ UNCHANGED <<harvesterVars, rowVars, runVars, progress, registry, otherVars>>

LoadBeansFails(w) ==
  /\ Move(w, "load", "done")
  /\ Save(w, "HARVESTING_FINISHED_ERROR")
  /\ UNCHANGED <<harvesterVars, runVars, progress, registry, otherVars>>

RegisterBegin(w) ==
  /\ Move(w, "register", "mark")
  /\ registry' = [registry EXCEPT ![snap[w]] = w]
  /\ UNCHANGED <<harvesterVars, rowVars, runVars, progress, otherVars>>

MarkHarvesting(w) ==
  /\ Move(w, "mark", "reset")
  /\ Save(w, "HARVESTING")
  /\ UNCHANGED <<harvesterVars, runVars, progress, registry, otherVars>>

\* harvester.reset(); the histories of the run start here.
ResetHarvester(w) ==
  /\ Move(w, "reset", "harvesting")
  /\ ResetStop(w)
  /\ target' = [target EXCEPT ![w] = 0]
  /\ whole' = [whole EXCEPT ![w] = {}]
  /\ failed' = [failed EXCEPT ![w] = {}]
  /\ signalled' = [signalled EXCEPT ![w] = "no"]
  /\ UNCHANGED <<rowVars, runVars, registry, admin, aborts, crashes, lost>>

-----------------------------------------------------------------------------
(* The harvest: one call of harvest() per target, and its listener. *)

NextTarget(w) ==
  /\ pc[w] = "harvesting"
  /\ target[w] < Targets
  /\ StartHarvest(w)
  /\ target' = [target EXCEPT ![w] = @ + 1]
  /\ UNCHANGED <<rowVars, runVars, whole, failed, registry, pc, otherVars>>

\* listSets failed: it returns no set and says nothing.
SkipTarget(w) ==
  /\ pc[w] = "harvesting"
  /\ at[w] = "idle"
  /\ mode[w] = "bySet"
  /\ target[w] < Targets
  /\ target' = [target EXCEPT ![w] = @ + 1]
  /\ UNCHANGED <<harvesterVars, rowVars, runVars, whole, failed, registry, pc,
                 otherVars>>

\* The steps of harvest() that fire no event.
Loop(w) ==
  /\ EnterLoop(w) \/ LeaveLoop(w) \/ Respond(w) \/ FailRequest(w) \/ Continue(w)
  /\ UNCHANGED <<rowVars, runVars, progress, registry, pc, otherVars>>

OnOK(w) ==
  /\ AcceptBatch(w)
  /\ Save(w, "HARVESTING")
  /\ whole' = [whole EXCEPT ![w] =
                 IF resumptionToken[w] = NoToken THEN @ \union {target[w]} ELSE @]
  /\ UNCHANGED <<runVars, target, failed, registry, pc, otherVars>>

\* The database fails under the OK event.  OnRetry or Abort comes next and
\* overwrites or forgets what the event did to the in-memory status.
OnOKThrows(w) ==
  /\ RejectBatch(w)
  /\ UNCHANGED <<rowVars, runVars, progress, registry, pc, otherVars>>

OnRetry(w) ==
  /\ Retry(w)
  /\ Save(w, "RETRYING")
  /\ UNCHANGED <<runVars, progress, registry, pc, otherVars>>

OnFatal(w) ==
  /\ GiveUp(w)
  /\ Save(w, "HARVESTING_FINISHED_ERROR")
  /\ failed' = [failed EXCEPT ![w] = @ \union {target[w]}]
  /\ UNCHANGED <<runVars, target, whole, registry, pc, otherVars>>

OnStop(w) ==
  /\ HonourStop(w)
  /\ Save(w, "HARVESTING_STOPPED")
  /\ UNCHANGED <<runVars, progress, registry, pc, otherVars>>

-----------------------------------------------------------------------------
(* run(), after the harvest. *)

HarvestOver(w) ==
  /\ at[w] = "idle"
  /\ target[w] = Targets

\* Mutated: the final error of the harvest is not looked at.
OnlyStopped == {"HARVESTING_STOPPED"}

Unsuccessful == {"HARVESTING_STOPPED", "HARVESTING_FINISHED_ERROR"}

EndUnsuccessful(w) ==
  /\ HarvestOver(w)
  /\ mem[w] \in Unsuccessful
  /\ Move(w, "harvesting", "save")
  /\ UNCHANGED <<harvesterVars, rowVars, runVars, progress, registry, otherVars>>

EndUnpublished(w) ==
  /\ HarvestOver(w)
  /\ mem[w] \notin Unsuccessful
  /\ ~conf[w].published
  /\ Move(w, "harvesting", "save")
  /\ Save(w, "VALID")
  /\ UNCHANGED <<harvesterVars, runVars, progress, registry, otherVars>>

BeginIndexing(w) ==
  /\ HarvestOver(w)
  /\ mem[w] \notin Unsuccessful
  /\ conf[w].published /\ conf[w].runIndexing
  /\ Move(w, "harvesting", "indexing")
  /\ Save(w, "INDEXING")
  /\ UNCHANGED <<harvesterVars, runVars, progress, registry, otherVars>>

\* Neither index is asked for: the status is left as the harvest left it.
SkipIndexing(w) ==
  /\ HarvestOver(w)
  /\ mem[w] \notin Unsuccessful
  /\ conf[w].published /\ ~conf[w].runIndexing
  /\ Move(w, "harvesting", IF conf[w].runXOAI THEN "startXOAI" ELSE "save")
  /\ UNCHANGED <<harvesterVars, rowVars, runVars, progress, registry, otherVars>>

IndexResult == {"VALID", "INDEXING_FINISHED_ERROR"}

EndIndexing(w) ==
  /\ Move(w, "indexing", IF conf[w].runXOAI THEN "startXOAI" ELSE "save")
  /\ \E result \in IndexResult : Save(w, result)
  /\ UNCHANGED <<harvesterVars, runVars, progress, registry, otherVars>>

BeginXOAI(w) ==
  /\ Move(w, "startXOAI", "indexingXOAI")
  /\ Save(w, "INDEXING")
  /\ UNCHANGED <<harvesterVars, runVars, progress, registry, otherVars>>

EndXOAI(w) ==
  /\ Move(w, "indexingXOAI", "save")
  /\ \E result \in IndexResult : Save(w, result)
  /\ UNCHANGED <<harvesterVars, runVars, progress, registry, otherVars>>

\* Mutated: the worker does not unregister.
FinalSaveAndLeave(w) ==
  /\ Move(w, "save", "done")
  /\ Save(w, mem[w])
  /\ UNCHANGED <<harvesterVars, runVars, progress, registry, otherVars>>

FinalSave(w) ==
  /\ Move(w, "save", "unregister")
  /\ Save(w, mem[w])
  /\ UNCHANGED <<harvesterVars, runVars, progress, registry, otherVars>>

RegisterEnd(w) ==
  /\ Move(w, "unregister", "done")
  /\ registry' = [registry EXCEPT ![snap[w]] = None]
  /\ UNCHANGED <<harvesterVars, rowVars, runVars, progress, otherVars>>

-----------------------------------------------------------------------------
(* Failures. *)

\* harvest() catches what its OK event throws, and nothing else.
MayThrow(w) ==
  \/ pc[w] \in (Unregistered \union Registered) \ {"reset", "harvesting"}
  \/ /\ pc[w] = "harvesting"
     /\ \/ at[w] \in {"idle", "retry"}
        \/ at[w] = "check" /\ (actualRetry[w] = MaxRetries \/ stopSignalReceived[w])

\* An exception ends run(): there is no finally that unregisters.
Abort(w) ==
  /\ aborts < MaxAborts
  /\ MayThrow(w)
  /\ aborts' = aborts + 1
  /\ lost' = IF pc[w] \in Registered THEN lost \union {snap[w]} ELSE lost
  /\ pc' = [pc EXCEPT ![w] = "dead"]
  /\ at' = [at EXCEPT ![w] = "idle"]
  /\ UNCHANGED <<started, actualRetry, resumptionToken, page, stopSignalReceived,
                 rowVars, runVars, progress, registry, admin, crashes, signalled>>

\* The server restarts: the rows are all that is left.
Crash ==
  /\ crashes < MaxCrashes
  /\ crashes' = crashes + 1
  /\ pc' = [w \in Workers |-> "idle"]
  /\ at' = [w \in Workers |-> "idle"]
  /\ stopSignalReceived' = [w \in Workers |-> FALSE]
  /\ snap' = [w \in Workers |-> None]
  /\ mode' = [w \in Workers |-> "whole"]
  /\ registry' = [s \in Snapshots |-> None]
  /\ admin' = AdminIdle
  /\ lost' = {}
  /\ signalled' = [w \in Workers |-> "no"]
  /\ UNCHANGED <<started, actualRetry, resumptionToken, page, rowVars, conf,
                 progress, aborts>>

-----------------------------------------------------------------------------
(* stopHarvesting: synchronized, so one at a time. *)

StopLooksUp(s) ==
  /\ admin = AdminIdle
  /\ row[s] # "ABSENT"
  /\ admin' = IF registry[s] # None
                THEN [step |-> "signal", worker |-> registry[s]]
                ELSE [step |-> "find", snapshot |-> s]
  /\ UNCHANGED <<harvesterVars, rowVars, runVars, progress, registry, pc,
                 aborts, crashes, lost, signalled>>

StopSignals ==
  /\ admin.step = "signal"
  /\ SignalStop(admin.worker)
  /\ signalled' =
       [signalled EXCEPT ![admin.worker] =
          IF pc[admin.worker] # "harvesting" \/ @ = "within" THEN @
          ELSE IF at[admin.worker] \in {"idle", "while"} THEN "between"
          ELSE "within"]
  /\ admin' = AdminIdle
  /\ UNCHANGED <<rowVars, runVars, progress, registry, pc, aborts, crashes, lost>>

\* The fallback for a snapshot that no worker is registered for.
StopFinds ==
  /\ admin.step = "find"
  /\ admin' = IF row[admin.snapshot] \in Stoppable
                THEN [step |-> "save", snapshot |-> admin.snapshot]
                ELSE AdminIdle
  /\ UNCHANGED <<harvesterVars, rowVars, runVars, progress, registry, pc,
                 aborts, crashes, lost, signalled>>

StopSaves ==
  /\ admin.step = "save"
  /\ row' = [row EXCEPT ![admin.snapshot] = "HARVESTING_STOPPED"]
  /\ admin' = AdminIdle
  /\ UNCHANGED <<harvesterVars, mem, runVars, progress, registry, pc,
                 aborts, crashes, lost, signalled>>

-----------------------------------------------------------------------------
(* The specification. *)

Begin(w) ==
  \/ CreateSnapshot(w) \/ NothingToDo(w) \/ FindStopped(w) \/ TakeUp(w)
  \/ LoadBeans(w) \/ LoadBeansFails(w)
  \/ RegisterBegin(w) \/ MarkHarvesting(w) \/ ResetHarvester(w)

Harvest(w) ==
  \/ NextTarget(w) \/ SkipTarget(w) \/ Loop(w)
  \/ OnOK(w) \/ OnOKThrows(w) \/ OnRetry(w) \/ OnFatal(w) \/ OnStop(w)

End(w) ==
  \/ EndUnsuccessful(w) \/ EndUnpublished(w) \/ SkipIndexing(w)
  \/ BeginIndexing(w) \/ EndIndexing(w) \/ BeginXOAI(w) \/ EndXOAI(w)
  \/ FinalSave(w) \/ RegisterEnd(w)

Run(w) == Begin(w) \/ Harvest(w) \/ End(w)

Schedule(w) == Launch(w) \/ CronFires(w) \/ \E s \in Snapshots : Relaunches(w, s)

StopHarvesting ==
  \/ \E s \in Snapshots : StopLooksUp(s)
  \/ StopSignals
  \/ StopFinds
  \/ StopSaves

Next ==
  \/ \E w \in Workers : Schedule(w) \/ Run(w) \/ Abort(w)
  \/ Crash
  \/ StopHarvesting

\* A scheduled worker gets a thread of the pool, which runs until run() ends;
\* nobody has to launch, stop or restart anything.
Spec == Init /\ [][Next]_vars /\ \A w \in Workers : WF_vars(Run(w))

-----------------------------------------------------------------------------
(* Properties. *)

\* The worker is at work on the snapshot.
WorksOn(w, s) ==
  /\ snap[w] = s
  /\ pc[w] \in (Unregistered \ {"scheduled"}) \union Registered

\* relauchHarvesting set a second worker to work on the snapshot.
TakenUp(s) ==
  \E w \in Workers :
    mode[w] = "resume" /\ snap[w] = s /\ pc[w] \notin {"idle", "scheduled"}

(* A row that says a snapshot is being worked on can be stopped: the map   *)
(* has the worker that is at work on it.  The order of run() makes it so:  *)
(* the worker registers before it first writes HARVESTING and unregisters  *)
(* after its last write (SnapshotWorker 250-253, 353-360).  Relaunching    *)
(* voids it: the status is written first (208), and the second worker's    *)
(* entry replaces the first one's.                                         *)
StopFindsWorker ==
  \A w \in Workers, s \in Snapshots :
    WorksOn(w, s) /\ row[s] \in Stoppable /\ ~TakenUp(s) => registry[s] = w

(* The map's entry of a snapshot is the worker at work on it, unless an    *)
(* exception ended the run (SnapshotWorker 250, 360).                      *)
RegistryNamesItsWorker ==
  \A s \in Snapshots :
    registry[s] = None \/ s \in lost \/
      (snap[registry[s]] = s /\ pc[registry[s]] \in Registered)

(* A run that goes on to publish accounts for every target: unless it was  *)
(* stopped, each was listed to its last page or given up after MaxRetries  *)
(* failures, and the last one was not given up (SnapshotWorker 274-345).   *)
(* Not so set by set, where an origin that does not answer has no sets.    *)
Published(w) ==
  pc[w] \in {"indexing", "startXOAI", "indexingXOAI"} \/
  (pc[w] \in {"save", "unregister"} /\ mem[w] \notin Unsuccessful)

SuccessIsAccountedFor ==
  \A w \in Workers :
    Published(w) /\ signalled[w] = "no" /\ mode[w] # "bySet" =>
      /\ whole[w] \union failed[w] = 1..Targets
      /\ Targets \notin failed[w]

(* A stop that arrives while a batch is asked for, stored or retried is    *)
(* obeyed: the run is not published and none of the origins that follow    *)
(* undoes it (OCLCBasedHarvesterImpl 83-141, SnapshotWorker 576-583).      *)
StopWithinBatchIsObeyed ==
  \A w \in Workers : signalled[w] = "within" => ~Published(w)

(* stopHarvesting, on a snapshot nobody works on whose status says         *)
(* otherwise: "En caso de que no sea un snapshot en actividad pero tenga   *)
(* status harvesting lo pasa a status stopped" (SnapshotManager 113): the  *)
(* map has no entry that would keep it from the fallback.                  *)
OrphanCanBeStopped ==
  \A s \in Snapshots :
    /\ row[s] \in Stoppable
    /\ \A w \in Workers : ~WorksOn(w, s)
    => registry[s] = None

(* A stop that reaches a harvest ends the run, even on a server whose      *)
(* listing never ends, and whatever fails on the way                       *)
(* (OCLCBasedHarvesterImpl 50-60, 83, 133; SnapshotWorker 274-360).        *)
StopEndsRun ==
  \A w \in Workers :
    pc[w] = "harvesting" /\ signalled[w] # "no" ~> pc[w] \in {"idle", "done", "dead"}

(* "si no fue detenido" (SnapshotWorker 273-274): what follows the harvest *)
(* is for runs that were not stopped, so that a harvest the administrator  *)
(* cut short is never published as a whole one.                            *)
StoppedIsNotPublished ==
  \A w \in Workers :
    signalled[w] # "no" /\ mode[w] # "bySet" /\ Published(w) =>
      whole[w] \union failed[w] = 1..Targets

(* "Si no generó errores, entonces terminó exitosa la cosecha"             *)
(* (SnapshotWorker 276): a harvest with a fatal error is not a success.    *)
FailedIsNotPublished ==
  \A w \in Workers : failed[w] # {} => ~Published(w)

=============================================================================
