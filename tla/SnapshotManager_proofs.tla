------------------------ MODULE SnapshotManager_proofs ------------------------
(***************************************************************************)
(* Proofs about SnapshotManager: its types, what the manager's map says of *)
(* the workers, that a stop finds the worker of a snapshot, and how a run  *)
(* may end, for every number of workers, snapshots, targets, failures and  *)
(* restarts.                                                               *)
(***************************************************************************)
EXTENDS SnapshotManager, TLAPS

\* run() has a snapshot.
Working == (Unregistered \ {"scheduled"}) \union Registered

\* The harvester runs only inside the harvest of its worker, and its retries
\* stay below MaxRetries wherever the inner loop goes on.  A harvest has left
\* the status of a new snapshot behind.
HarvesterInv ==
  \A w \in Workers :
    /\ at[w] # "idle" => pc[w] = "harvesting" /\ target[w] \in 1..Targets
    /\ at[w] \in {"while", "request", "fire", "retry"} => actualRetry[w] < MaxRetries
    /\ pc[w] \in Registered \ {"mark"} => mem[w] # "INITIALIZED"
    /\ pc[w] \in Working => snap[w] # None
    /\ mode[w] = "resume" => snap[w] # None

TInv == TypeOK /\ HarvesterInv

\* Only beans made by relauchHarvesting take up a snapshot.
ModeInv ==
  \A w \in Workers :
    /\ pc[w] = "resume" => mode[w] = "resume"
    /\ w \in Cron => mode[w] # "resume"

\* A worker's snapshot has a row, and stopHarvesting is about to overwrite
\* only rows that a worker had already marked.
RowInv ==
  /\ \A w \in Workers : snap[w] # None => row[snap[w]] # "ABSENT"
  /\ admin.step = "save" => row[admin.snapshot] \notin {"ABSENT", "INITIALIZED"}

\* A snapshot that was not taken up has one worker, which is registered from
\* before the row first says that the snapshot is being worked on.
OwnerInv ==
  \A w \in Workers, s \in Snapshots :
    WorksOn(w, s) /\ ~TakenUp(s) =>
      /\ \A v \in Workers : WorksOn(v, s) => v = w
      /\ pc[w] \in Registered => registry[s] = w
      /\ pc[w] \notin Registered => row[s] = "INITIALIZED"

IInv == ModeInv /\ RowInv /\ OwnerInv

-----------------------------------------------------------------------------
(* Types. *)

LEMMA InitTInv == Init => TInv
<1> SUFFICES ASSUME Init PROVE TInv
  OBVIOUS
<1>1. HarvesterTypeOK
  BY HarvesterAssumption
  DEF Init, HarvesterInit, HarvesterTypeOK, Points, Pages, NoToken
<1>2. (CHOOSE c \in Configs : TRUE) \in Configs
  BY ManagerAssumption
<1>3. TypeOK
  BY <1>1, <1>2, ManagerAssumption
  DEF Init, TypeOK, Statuses, Places, AdminSteps, AdminIdle
<1>4. HarvesterInv
  BY DEF Init, HarvesterInit, HarvesterInv, Working, Registered, Unregistered
<1>5. QED
  BY <1>3, <1>4 DEF TInv

LEMMA BelowMax ==
  ASSUME NEW r \in 0..MaxRetries, r # MaxRetries
  PROVE  r < MaxRetries
  BY HarvesterAssumption

\* The steps of harvest() and of its listener.
LEMMA HarvestTInv ==
  ASSUME TInv, NEW w \in Workers, Harvest(w)
  PROVE  TInv'
<1> USE HarvesterAssumption, ManagerAssumption
    DEF TInv, TypeOK, HarvesterTypeOK, HarvesterInv, Points, Pages, NoToken,
        Goto, Save, rowVars, runVars, progress, otherVars, harvesterVars,
        Statuses, Places, Working, Registered, Unregistered
<1>1. CASE NextTarget(w)
  BY <1>1 DEF NextTarget, StartHarvest
<1>2. CASE SkipTarget(w)
  BY <1>2 DEF SkipTarget
<1>3. CASE Loop(w)
  <2>1. CASE EnterLoop(w)
    BY <1>3, <2>1 DEF Loop, EnterLoop
  <2>2. CASE LeaveLoop(w)
    BY <1>3, <2>2 DEF Loop, LeaveLoop
  <2>3. CASE Respond(w)
    <3>1. TokensOf(RequestedPage(w)) \subseteq {NoToken} \union Pages
      BY DEF TokensOf, RequestedPage
    <3>2. RequestedPage(w) \in Pages
      BY <2>3 DEF Respond, RequestedPage
    <3>3. HarvesterTypeOK'
      BY <2>3, <3>1, <3>2 DEF Respond
    <3>4. HarvesterInv'
      BY <1>3, <2>3 DEF Loop, Respond
    <3>5. QED
      BY <1>3, <3>3, <3>4 DEF Loop
  <2>4. CASE FailRequest(w)
    BY <1>3, <2>4 DEF Loop, FailRequest
  <2>5. CASE Continue(w)
    <3>1. actualRetry[w] \in 0..MaxRetries /\ actualRetry[w] # MaxRetries
      BY <2>5 DEF Continue
    <3>2. actualRetry[w] < MaxRetries
      BY <3>1, BelowMax
    <3>3. /\ HarvesterTypeOK'
          /\ at[w] = "check" /\ at' = [at EXCEPT ![w] = "while"]
          /\ UNCHANGED <<pc, mem, target, snap, mode, actualRetry>>
      BY <1>3, <2>5 DEF Loop, Continue
    <3>4. HarvesterInv'
      BY <3>2, <3>3
    <3>5. QED
      BY <1>3, <3>3, <3>4 DEF Loop
  <2>6. QED
    BY <1>3, <2>1, <2>2, <2>3, <2>4, <2>5 DEF Loop
<1>4. CASE OnOK(w)
  <2>1. HarvesterTypeOK'
    BY <1>4 DEF OnOK, AcceptBatch
  <2>2. /\ row' \in [Snapshots -> Statuses \union {"ABSENT"}]
        /\ mem' \in [Workers -> Statuses]
    BY <1>4 DEF OnOK
  <2>3. HarvesterInv'
    BY <1>4 DEF OnOK, AcceptBatch
  <2>4. whole' \in [Workers -> SUBSET (1..Targets)]
    BY <1>4 DEF OnOK, AcceptBatch
  <2>5. QED
    BY <1>4, <2>1, <2>2, <2>3, <2>4 DEF OnOK
<1>5. CASE OnOKThrows(w)
  BY <1>5 DEF OnOKThrows, RejectBatch
<1>6. CASE OnRetry(w)
  <2>1. HarvesterTypeOK'
    BY <1>6 DEF OnRetry, Retry
  <2>2. /\ row' \in [Snapshots -> Statuses \union {"ABSENT"}]
        /\ mem' \in [Workers -> Statuses]
    BY <1>6 DEF OnRetry
  <2>3. HarvesterInv'
    BY <1>6 DEF OnRetry, Retry
  <2>4. QED
    BY <1>6, <2>1, <2>2, <2>3 DEF OnRetry
<1>7. CASE OnFatal(w)
  <2>1. HarvesterTypeOK'
    BY <1>7 DEF OnFatal, GiveUp
  <2>2. /\ row' \in [Snapshots -> Statuses \union {"ABSENT"}]
        /\ mem' \in [Workers -> Statuses]
    BY <1>7 DEF OnFatal
  <2>3. HarvesterInv'
    BY <1>7 DEF OnFatal, GiveUp
  <2>4. failed' \in [Workers -> SUBSET (1..Targets)]
    BY <1>7 DEF OnFatal, GiveUp
  <2>5. QED
    BY <1>7, <2>1, <2>2, <2>3, <2>4 DEF OnFatal
<1>8. CASE OnStop(w)
  <2>1. HarvesterTypeOK'
    BY <1>8 DEF OnStop, HonourStop
  <2>2. /\ row' \in [Snapshots -> Statuses \union {"ABSENT"}]
        /\ mem' \in [Workers -> Statuses]
    BY <1>8 DEF OnStop
  <2>3. HarvesterInv'
    BY <1>8 DEF OnStop, HonourStop
  <2>4. QED
    BY <1>8, <2>1, <2>2, <2>3 DEF OnStop
<1>9. QED
  BY <1>1, <1>2, <1>3, <1>4, <1>5, <1>6, <1>7, <1>8 DEF Harvest

\* The steps of run() before and after the harvest.
LEMMA BeginTInv ==
  ASSUME TInv, NEW w \in Workers, Begin(w)
  PROVE  TInv'
<1> USE ManagerAssumption
    DEF TInv, TypeOK, HarvesterInv, Move, Save, rowVars, runVars, progress,
        otherVars, harvesterVars, Statuses, Places, Working, Registered, Unregistered
<1>1. HarvesterTypeOK'
  <2>1. CASE ResetHarvester(w)
    BY <2>1 DEF ResetHarvester, ResetStop, HarvesterTypeOK
  <2>2. CASE UNCHANGED harvesterVars
    BY <2>2 DEF HarvesterTypeOK
  <2>3. QED
    BY <2>1, <2>2 DEF Begin, CreateSnapshot, NothingToDo, FindStopped, TakeUp,
                      LoadBeans, LoadBeansFails, RegisterBegin, MarkHarvesting
<1>2. CASE CreateSnapshot(w)
  BY <1>1, <1>2 DEF CreateSnapshot
<1>3. CASE NothingToDo(w)
  BY <1>1, <1>3 DEF NothingToDo
<1>4. CASE FindStopped(w)
  BY <1>1, <1>4 DEF FindStopped
<1>5. CASE TakeUp(w)
  BY <1>1, <1>5 DEF TakeUp
<1>6. CASE LoadBeans(w)
  BY <1>1, <1>6 DEF LoadBeans
<1>7. CASE LoadBeansFails(w)
  BY <1>1, <1>7 DEF LoadBeansFails
<1>8. CASE RegisterBegin(w)
  BY <1>1, <1>8 DEF RegisterBegin
<1>9. CASE MarkHarvesting(w)
  BY <1>1, <1>9 DEF MarkHarvesting
<1>10. CASE ResetHarvester(w)
  BY <1>1, <1>10 DEF ResetHarvester, ResetStop
<1>11. QED
  BY <1>2, <1>3, <1>4, <1>5, <1>6, <1>7, <1>8, <1>9, <1>10 DEF Begin

LEMMA EndTInv ==
  ASSUME TInv, NEW w \in Workers, End(w)
  PROVE  TInv'
<1> USE ManagerAssumption
    DEF TInv, TypeOK, HarvesterInv, Move, Save, rowVars, runVars, progress,
        otherVars, harvesterVars, Statuses, Places, Working, Registered, Unregistered, HarvestOver, IndexResult
<1>1. HarvesterTypeOK'
  BY DEF End, EndUnsuccessful, EndUnpublished, SkipIndexing, BeginIndexing,
         EndIndexing, BeginXOAI, EndXOAI, FinalSave, RegisterEnd, HarvesterTypeOK
<1>2. CASE EndUnsuccessful(w)
  BY <1>1, <1>2 DEF EndUnsuccessful
<1>3. CASE EndUnpublished(w)
  BY <1>1, <1>3 DEF EndUnpublished, Unsuccessful
<1>4. CASE SkipIndexing(w)
  BY <1>1, <1>4 DEF SkipIndexing
<1>5. CASE BeginIndexing(w)
  BY <1>1, <1>5 DEF BeginIndexing
<1>6. CASE EndIndexing(w)
  <2>1. PICK result \in Statuses \ {"INITIALIZED"} : Save(w, result)
    BY <1>6 DEF EndIndexing
  <2>2. QED
    BY <1>1, <1>6, <2>1 DEF EndIndexing
<1>7. CASE BeginXOAI(w)
  BY <1>1, <1>7 DEF BeginXOAI
<1>8. CASE EndXOAI(w)
  <2>1. PICK result \in Statuses \ {"INITIALIZED"} : Save(w, result)
    BY <1>8 DEF EndXOAI
  <2>2. QED
    BY <1>1, <1>8, <2>1 DEF EndXOAI
<1>9. CASE FinalSave(w)
  BY <1>1, <1>9 DEF FinalSave
<1>10. CASE RegisterEnd(w)
  BY <1>1, <1>10 DEF RegisterEnd
<1>11. QED
  BY <1>2, <1>3, <1>4, <1>5, <1>6, <1>7, <1>8, <1>9, <1>10 DEF End

\* Scheduling, failures and the administrator.
LEMMA OtherTInv ==
  ASSUME TInv,
         \/ \E w \in Workers : Schedule(w) \/ Abort(w)
         \/ Crash \/ StopHarvesting \/ UNCHANGED vars
  PROVE  TInv'
<1> USE ManagerAssumption
    DEF TInv, TypeOK, HarvesterInv, Move, rowVars, runVars, progress,
        otherVars, harvesterVars, Statuses, Places, Working, Registered, Unregistered
<1>1. ASSUME NEW w \in Workers, Launch(w) PROVE TInv'
  BY <1>1 DEF Launch, HarvesterTypeOK
<1>2. ASSUME NEW w \in Workers, CronFires(w) PROVE TInv'
  BY <1>2 DEF CronFires, HarvesterTypeOK
<1>3. ASSUME NEW w \in Workers, NEW s \in Snapshots, Relaunches(w, s) PROVE TInv'
  BY <1>3 DEF Relaunches, HarvesterTypeOK
<1>4. ASSUME NEW w \in Workers, Abort(w) PROVE TInv'
  <2>1. HarvesterTypeOK'
    BY <1>4 DEF Abort, HarvesterTypeOK, Points
  <2>2. aborts' \in 0..MaxAborts
    BY <1>4 DEF Abort
  <2>3. lost' \in SUBSET Snapshots
    <3>1. pc[w] \in Registered => snap[w] \in Snapshots
      OBVIOUS
    <3>2. QED
      BY <1>4, <3>1 DEF Abort
  <2>4. HarvesterInv'
    <3>1. /\ at' = [at EXCEPT ![w] = "idle"]
          /\ pc' = [pc EXCEPT ![w] = "dead"]
          /\ UNCHANGED <<target, actualRetry, mem, snap, mode>>
      BY <1>4 DEF Abort
    <3>2. QED
      BY <3>1 DEF HarvesterTypeOK
  <2>5. QED
    BY <1>4, <2>1, <2>2, <2>3, <2>4 DEF Abort
<1>5. CASE Crash
  <2>1. HarvesterTypeOK'
    BY <1>5 DEF Crash, HarvesterTypeOK, Points
  <2>2. crashes' \in 0..MaxCrashes
    BY <1>5 DEF Crash
  <2>3. HarvesterInv'
    BY <1>5 DEF Crash
  <2>4. QED
    BY <1>5, <2>1, <2>2, <2>3 DEF Crash, AdminSteps, AdminIdle
<1>6. CASE StopHarvesting
  <2>1. ASSUME NEW s \in Snapshots, StopLooksUp(s) PROVE TInv'
    BY <2>1 DEF StopLooksUp, AdminSteps, AdminIdle, HarvesterTypeOK
  <2>2. CASE StopSignals
    <3>1. admin.worker \in Workers
      BY <2>2 DEF StopSignals, AdminSteps
    <3>2. HarvesterTypeOK'
      BY <2>2, <3>1 DEF StopSignals, SignalStop, HarvesterTypeOK
    <3>3. signalled' \in [Workers -> {"no", "between", "within"}]
      BY <2>2, <3>1 DEF StopSignals
    <3>4. QED
      BY <2>2, <3>2, <3>3 DEF StopSignals, SignalStop, AdminSteps, AdminIdle
  <2>3. CASE StopFinds
    <3>1. admin.snapshot \in Snapshots
      BY <2>3 DEF StopFinds, AdminSteps
    <3>2. QED
      BY <2>3, <3>1 DEF StopFinds, AdminSteps, AdminIdle, HarvesterTypeOK
  <2>4. CASE StopSaves
    BY <2>4 DEF StopSaves, AdminSteps, AdminIdle, HarvesterTypeOK
  <2>5. QED
    BY <1>6, <2>1, <2>2, <2>3, <2>4 DEF StopHarvesting
<1>7. CASE UNCHANGED vars
  BY <1>7 DEF vars, HarvesterTypeOK
<1>8. QED
  BY <1>1, <1>2, <1>3, <1>4, <1>5, <1>6, <1>7 DEF Schedule

LEMMA NextTInv == TInv /\ [Next]_vars => TInv'
  BY HarvestTInv, BeginTInv, EndTInv, OtherTInv DEF Next, Run

(* Types, with the exact retry budget of every harvester inside its worker *)
(* (SnapshotManager 49-163, SnapshotWorker 181-601).                       *)
THEOREM TypeCorrect == Spec => []TypeOK
<1>1. TInv => TypeOK
  BY DEF TInv
<1>2. QED
  BY InitTInv, NextTInv, <1>1, PTL DEF Spec

-----------------------------------------------------------------------------
(* Who owns a snapshot. *)

\* What a step of run() between the creation of the snapshot and the end does
\* to the shared state: the worker moves on, never back behind its own
\* registration, and may write a status to the row of its snapshot, which it
\* does only while it is registered, when it takes a stopped snapshot up, or
\* when it ends.
WorkStep(w) ==
  /\ pc[w] \in Working
  /\ \E p \in Places \ {"idle", "scheduled", "resume"} :
       /\ pc' = [pc EXCEPT ![w] = p]
       /\ pc[w] \in Registered => p \notin Unregistered
       /\ pc[w] \notin Registered => p \notin Registered
  /\ \/ UNCHANGED row
     \/ /\ \E status \in Statuses \ {"INITIALIZED"} :
             row' = [row EXCEPT ![snap[w]] = status]
        /\ pc[w] \in Registered \union {"resume"} \/ pc'[w] = "done"
  /\ UNCHANGED <<registry, snap, mode, admin>>

LEMMA RunIsWorkStep ==
  ASSUME TInv, NEW w \in Workers,
         \/ TakeUp(w) \/ LoadBeans(w) \/ LoadBeansFails(w)
         \/ MarkHarvesting(w) \/ ResetHarvester(w)
         \/ Harvest(w)
         \/ End(w) /\ ~RegisterEnd(w)
         \/ Abort(w) /\ pc[w] # "scheduled"
  PROVE  WorkStep(w)
<1> USE DEF TInv, TypeOK, HarvesterInv, Move, Save, rowVars, runVars,
            otherVars, Statuses, Places, Working, Registered, Unregistered, WorkStep
<1>1. CASE TakeUp(w)
  <2>1. "load" \in Places \ {"idle", "scheduled", "resume"} /\ "load" \notin Registered
    OBVIOUS
  <2>2. pc[w] = "resume" /\ pc' = [pc EXCEPT ![w] = "load"]
    BY <1>1 DEF TakeUp
  <2>3. row' = [row EXCEPT ![snap[w]] = "HARVESTING"]
    BY <1>1 DEF TakeUp
  <2>4. QED
    BY <1>1, <2>1, <2>2, <2>3 DEF TakeUp
<1>2. CASE LoadBeans(w)
  <2>1. "register" \in Places \ {"idle", "scheduled", "resume"} /\ "register" \notin Registered
    OBVIOUS
  <2>2. pc[w] = "load" /\ pc' = [pc EXCEPT ![w] = "register"]
    BY <1>2 DEF LoadBeans
  <2>3. QED
    BY <1>2, <2>1, <2>2 DEF LoadBeans
<1>3. CASE LoadBeansFails(w)
  <2>1. "done" \in Places \ {"idle", "scheduled", "resume"} /\ "done" \notin Registered
    OBVIOUS
  <2>2. pc[w] = "load" /\ pc' = [pc EXCEPT ![w] = "done"]
    BY <1>3 DEF LoadBeansFails
  <2>3. QED
    BY <1>3, <2>1, <2>2 DEF LoadBeansFails
<1>4. CASE MarkHarvesting(w)
  BY <1>4 DEF MarkHarvesting
<1>5. CASE ResetHarvester(w)
  BY <1>5 DEF ResetHarvester
<1>6. CASE Harvest(w)
  <2>1. pc[w] = "harvesting" /\ UNCHANGED <<pc, registry, snap, mode, admin>>
    BY <1>6 DEF Harvest, NextTarget, SkipTarget, Loop, OnOK, OnOKThrows, OnRetry,
                OnFatal, OnStop, EnterLoop, LeaveLoop, Respond, FailRequest,
                Continue, AcceptBatch, RejectBatch, Retry, GiveUp, HonourStop, Goto
  <2>2. \/ UNCHANGED row
        \/ \E status \in Statuses \ {"INITIALIZED"} :
             row' = [row EXCEPT ![snap[w]] = status]
    BY <1>6 DEF Harvest, NextTarget, SkipTarget, Loop, OnOK, OnOKThrows, OnRetry,
                OnFatal, OnStop
  <2>3. pc' = [pc EXCEPT ![w] = "harvesting"]
    BY <2>1
  <2>4. QED
    BY <2>1, <2>2, <2>3
<1>7. CASE End(w) /\ ~RegisterEnd(w)
  <2>1. CASE EndUnsuccessful(w) \/ EndUnpublished(w) \/ SkipIndexing(w)
    BY <2>1 DEF EndUnsuccessful, EndUnpublished, SkipIndexing
  <2>2. CASE BeginIndexing(w) \/ BeginXOAI(w)
    BY <2>2 DEF BeginIndexing, BeginXOAI
  <2>3. CASE EndIndexing(w) \/ EndXOAI(w)
    BY <2>3 DEF EndIndexing, EndXOAI, IndexResult
  <2>4. CASE FinalSave(w)
    BY <2>4 DEF FinalSave
  <2>5. QED
    BY <1>7, <2>1, <2>2, <2>3, <2>4 DEF End
<1>8. CASE Abort(w) /\ pc[w] # "scheduled"
  <2>1. pc[w] \in Working
    BY <1>8 DEF Abort, MayThrow
  <2>2. /\ "dead" \in Places \ {"idle", "scheduled", "resume"}
        /\ "dead" \notin Registered \union Unregistered
    OBVIOUS
  <2>3. pc' = [pc EXCEPT ![w] = "dead"]
    BY <1>8 DEF Abort
  <2>4. QED
    BY <1>8, <2>1, <2>2, <2>3 DEF Abort
<1>9. QED
  BY <1>1, <1>2, <1>3, <1>4, <1>5, <1>6, <1>7, <1>8

LEMMA WorkModeRow ==
  ASSUME TInv, ModeInv, RowInv, NEW w \in Workers, WorkStep(w)
  PROVE  ModeInv' /\ RowInv'
<1> USE DEF TInv, TypeOK, HarvesterInv, WorkStep, Statuses
<1>1. ModeInv'
  BY DEF ModeInv
<1>2. ASSUME NEW v \in Workers, snap'[v] # None PROVE row'[snap'[v]] # "ABSENT"
  BY <1>2 DEF RowInv
<1>3. ASSUME admin'.step = "save"
      PROVE  row'[admin'.snapshot] \notin {"ABSENT", "INITIALIZED"}
  <2>1. admin.snapshot \in Snapshots
    BY <1>3 DEF AdminSteps
  <2>2. QED
    BY <1>3, <2>1 DEF RowInv
<1>4. QED
  BY <1>1, <1>2, <1>3 DEF RowInv

LEMMA WorkOwner ==
  ASSUME TInv, ModeInv, OwnerInv, NEW w \in Workers, WorkStep(w)
  PROVE  OwnerInv'
<1> SUFFICES ASSUME NEW v \in Workers, NEW s \in Snapshots,
                    WorksOn(v, s)', ~TakenUp(s)'
             PROVE  /\ \A u \in Workers : WorksOn(u, s)' => u = v
                    /\ pc'[v] \in Registered => registry'[s] = v
                    /\ pc'[v] \notin Registered => row'[s] = "INITIALIZED"
  BY DEF OwnerInv
<1> USE DEF WorksOn, Working, Unregistered, Registered
<1>1. \A u \in Workers : WorksOn(u, s)' => WorksOn(u, s)
  BY DEF WorkStep, TInv, TypeOK
<1>2. ~TakenUp(s)
  BY DEF WorkStep, TInv, TypeOK, TakenUp
<1>3. /\ \A u \in Workers : WorksOn(u, s) => u = v
      /\ pc[v] \in Registered => registry[s] = v
      /\ pc[v] \notin Registered => row[s] = "INITIALIZED"
  BY <1>1, <1>2 DEF OwnerInv
<1>4. pc'[v] \in Registered <=> pc[v] \in Registered
  BY <1>1 DEF WorkStep, TInv, TypeOK
<1>5. pc'[v] \notin Registered => row'[s] = row[s]
  <2>1. CASE snap[w] = s
    <3>1. w = v
      BY <1>3, <2>1 DEF WorkStep
    <3>2. pc[v] # "resume"
      BY <1>1, <1>2 DEF TakenUp, ModeInv
    <3>3. QED
      BY <1>4, <3>1, <3>2 DEF WorkStep, TInv, TypeOK
  <2>2. CASE snap[w] # s
    BY <2>2 DEF WorkStep, TInv, TypeOK
  <2>3. QED
    BY <2>1, <2>2
<1>6. QED
  BY <1>1, <1>3, <1>4, <1>5 DEF WorkStep

\* The steps that set a worker to work on a snapshot or change the map.
LEMMA ShareStep ==
  ASSUME TInv, ModeInv, RowInv, OwnerInv, NEW w \in Workers,
         \/ CreateSnapshot(w) \/ FindStopped(w)
         \/ RegisterBegin(w) \/ RegisterEnd(w)
  PROVE  ModeInv' /\ RowInv' /\ OwnerInv'
<1> USE ManagerAssumption
    DEF TInv, TypeOK, HarvesterInv, ModeInv, Move, rowVars, runVars, progress,
        otherVars, harvesterVars, Statuses, Places, Working, Registered, Unregistered
<1>1. CASE CreateSnapshot(w)
  <2>1. PICK s \in Snapshots :
          /\ row[s] = "ABSENT"
          /\ row' = [row EXCEPT ![s] = "INITIALIZED"]
          /\ snap' = [snap EXCEPT ![w] = s]
    BY <1>1 DEF CreateSnapshot
  <2>2. /\ pc[w] = "scheduled" /\ pc' = [pc EXCEPT ![w] = "load"]
        /\ mode[w] # "resume"
        /\ UNCHANGED <<mode, registry, admin>>
    BY <1>1 DEF CreateSnapshot
  <2>3. \A v \in Workers : snap[v] # s
    BY <2>1 DEF RowInv
  <2>4. ModeInv'
    BY <2>2
  <2>5. RowInv'
    <3>1. admin.step = "save" => admin.snapshot \in Snapshots /\ admin.snapshot # s
      BY <2>1 DEF RowInv, AdminSteps
    <3>2. QED
      BY <2>1, <2>2, <3>1 DEF RowInv
  <2>6. ASSUME NEW v \in Workers, NEW t \in Snapshots, WorksOn(v, t)', ~TakenUp(t)'
        PROVE  /\ \A u \in Workers : WorksOn(u, t)' => u = v
               /\ pc'[v] \in Registered => registry'[t] = v
               /\ pc'[v] \notin Registered => row'[t] = "INITIALIZED"
    <3>1. CASE t = s
      BY <2>1, <2>2, <2>3, <2>6, <3>1 DEF WorksOn
    <3>2. CASE t # s
      <4>1. \A u \in Workers : WorksOn(u, t)' => WorksOn(u, t) /\ u # w
        BY <2>1, <2>2, <3>2 DEF WorksOn
      <4>2. ~TakenUp(t)
        BY <2>1, <2>2, <2>6, <3>2 DEF TakenUp
      <4>3. QED
        BY <2>1, <2>2, <2>6, <3>2, <4>1, <4>2 DEF OwnerInv
    <3>3. QED
      BY <3>1, <3>2
  <2>7. QED
    BY <2>4, <2>5, <2>6 DEF OwnerInv
<1>2. CASE FindStopped(w)
  <2>1. /\ pc[w] = "scheduled" /\ pc' = [pc EXCEPT ![w] = "resume"]
        /\ mode[w] = "resume"
        /\ UNCHANGED <<mode, registry, admin, snap, row>>
    BY <1>2 DEF FindStopped
  <2>2. ModeInv' /\ RowInv'
    BY <2>1 DEF RowInv
  <2>3. ASSUME NEW v \in Workers, NEW t \in Snapshots, WorksOn(v, t)', ~TakenUp(t)'
        PROVE  /\ \A u \in Workers : WorksOn(u, t)' => u = v
               /\ pc'[v] \in Registered => registry'[t] = v
               /\ pc'[v] \notin Registered => row'[t] = "INITIALIZED"
    <3>1. snap[w] # t
      BY <2>1, <2>3 DEF TakenUp
    <3>2. \A u \in Workers : WorksOn(u, t)' => WorksOn(u, t) /\ u # w
      BY <2>1, <3>1 DEF WorksOn
    <3>3. ~TakenUp(t)
      BY <2>1, <2>3 DEF TakenUp
    <3>4. QED
      BY <2>1, <2>3, <3>2, <3>3 DEF OwnerInv
  <2>4. QED
    BY <2>2, <2>3 DEF OwnerInv
<1>3. CASE RegisterBegin(w) \/ RegisterEnd(w)
  <2>1. /\ pc[w] \in Working /\ pc'[w] \in {"mark", "done"}
        /\ pc' = [pc EXCEPT ![w] = pc'[w]]
        /\ pc'[w] = "mark" => registry' = [registry EXCEPT ![snap[w]] = w]
        /\ pc'[w] = "done" => registry' = [registry EXCEPT ![snap[w]] = None]
        /\ UNCHANGED <<mode, admin, snap, row>>
    BY <1>3 DEF RegisterBegin, RegisterEnd
  <2>2. ModeInv' /\ RowInv'
    BY <2>1 DEF RowInv
  <2>3. ASSUME NEW v \in Workers, NEW t \in Snapshots, WorksOn(v, t)', ~TakenUp(t)'
        PROVE  /\ \A u \in Workers : WorksOn(u, t)' => u = v
               /\ pc'[v] \in Registered => registry'[t] = v
               /\ pc'[v] \notin Registered => row'[t] = "INITIALIZED"
    <3>1. \A u \in Workers : WorksOn(u, t)' => WorksOn(u, t)
      BY <2>1 DEF WorksOn
    <3>2. ~TakenUp(t)
      BY <2>1, <2>3 DEF TakenUp
    <3>3. \A u \in Workers : WorksOn(u, t) => u = v
      BY <2>3, <3>1, <3>2 DEF OwnerInv
    <3>4. CASE w = v
      BY <2>1, <2>3, <3>1, <3>3, <3>4 DEF WorksOn
    <3>5. CASE w # v
      <4>1. snap[w] # t
        BY <2>1, <3>3, <3>5 DEF WorksOn
      <4>2. registry'[t] = registry[t] /\ pc'[v] = pc[v]
        BY <2>1, <3>5, <4>1
      <4>3. QED
        BY <2>1, <2>3, <3>1, <3>2, <3>3, <4>2 DEF OwnerInv
    <3>6. QED
      BY <3>4, <3>5
  <2>4. QED
    BY <2>2, <2>3 DEF OwnerInv
<1>4. QED
  BY <1>1, <1>2, <1>3

\* The steps that leave rows and map alone and set nobody to work.
LEMMA QuietStep ==
  ASSUME TInv, ModeInv, RowInv, OwnerInv, NEW w \in Workers,
         \/ Launch(w) \/ CronFires(w) \/ \E s \in Snapshots : Relaunches(w, s)
         \/ NothingToDo(w)
         \/ Abort(w) /\ pc[w] = "scheduled"
  PROVE  ModeInv' /\ RowInv' /\ OwnerInv'
<1> USE ManagerAssumption
    DEF TInv, TypeOK, ModeInv, Move, rowVars, runVars, otherVars, Working,
        Registered, Unregistered
<1>1. /\ UNCHANGED <<row, registry, admin>>
      /\ pc[w] \notin Working /\ pc'[w] \in {"scheduled", "done", "dead"}
      /\ pc' = [pc EXCEPT ![w] = pc'[w]]
      /\ \A v \in Workers \ {w} : mode'[v] = mode[v] /\ snap'[v] = snap[v]
      /\ \/ UNCHANGED <<mode, snap>>
         \/ pc[w] = "idle" /\ pc'[w] = "scheduled"
  BY DEF Launch, CronFires, Relaunches, NothingToDo, Abort
<1>2. snap'[w] = snap[w] \/ (snap'[w] \in Snapshots /\ row[snap'[w]] # "ABSENT")
  BY DEF Launch, CronFires, Relaunches, NothingToDo, Abort, Statuses
<1>3. ModeInv'
  <2>1. w \in Cron => mode'[w] # "resume"
    BY DEF Launch, CronFires, Relaunches, NothingToDo, Abort
  <2>2. QED
    BY <1>1, <2>1
<1>4. RowInv'
  BY <1>1, <1>2 DEF RowInv
<1>5. \A v \in Workers, s \in Snapshots : WorksOn(v, s)' => WorksOn(v, s) /\ v # w
  BY <1>1 DEF WorksOn
<1>6. ASSUME NEW s \in Snapshots, TakenUp(s) PROVE TakenUp(s)'
  <2>1. PICK v \in Workers : mode[v] = "resume" /\ snap[v] = s /\ pc[v] \notin {"idle", "scheduled"}
    BY <1>6 DEF TakenUp
  <2>2. CASE v # w
    BY <1>1, <2>1, <2>2 DEF TakenUp
  <2>3. CASE v = w
    <3>1. pc'[w] \in {"done", "dead"}
      BY <2>1, <2>3 DEF Launch, CronFires, Relaunches, NothingToDo, Abort
    <3>2. QED
      BY <1>1, <2>1, <2>3, <3>1 DEF TakenUp
  <2>4. QED
    BY <2>2, <2>3
<1>7. OwnerInv'
  <2> SUFFICES ASSUME NEW v \in Workers, NEW s \in Snapshots,
                      WorksOn(v, s)', ~TakenUp(s)'
               PROVE  /\ \A u \in Workers : WorksOn(u, s)' => u = v
                      /\ pc'[v] \in Registered => registry'[s] = v
                      /\ pc'[v] \notin Registered => row'[s] = "INITIALIZED"
    BY DEF OwnerInv
  <2>1. WorksOn(v, s) /\ v # w /\ ~TakenUp(s) /\ pc'[v] = pc[v]
    BY <1>1, <1>5, <1>6
  <2>2. QED
    BY <1>1, <1>5, <2>1 DEF OwnerInv
<1>8. QED
  BY <1>3, <1>4, <1>7

LEMMA CrashStep ==
  ASSUME TInv, Crash
  PROVE  ModeInv' /\ RowInv' /\ OwnerInv'
  BY DEF Crash, ModeInv, RowInv, OwnerInv, WorksOn, Registered, Unregistered, AdminIdle

\* stopHarvesting writes only rows that a worker had already marked.
LEMMA StopStep ==
  ASSUME TInv, ModeInv, RowInv, OwnerInv, StopHarvesting
  PROVE  ModeInv' /\ RowInv' /\ OwnerInv'
<1> USE DEF TInv, TypeOK, rowVars, runVars
<1>1. UNCHANGED <<pc, mode, snap, registry>>
  BY DEF StopHarvesting, StopLooksUp, StopSignals, StopFinds, StopSaves
<1>2. ModeInv'
  BY <1>1 DEF ModeInv
<1>3. CASE ~StopSaves
  <2>1. UNCHANGED row
    BY <1>3 DEF StopHarvesting, StopLooksUp, StopSignals, StopFinds
  <2>2. admin'.step = "save" =>
          row[admin'.snapshot] \notin {"ABSENT", "INITIALIZED"}
    <3>1. CASE StopFinds
      BY <3>1 DEF StopFinds, AdminIdle, Stoppable
    <3>2. CASE ~StopFinds
      BY <1>3, <3>2 DEF StopHarvesting, StopLooksUp, StopSignals, AdminIdle
    <3>3. QED
      BY <3>1, <3>2
  <2>3. RowInv'
    BY <1>1, <2>1, <2>2 DEF RowInv
  <2>4. OwnerInv'
    BY <1>1, <2>1 DEF OwnerInv, WorksOn, TakenUp
  <2>5. QED
    BY <1>2, <2>3, <2>4
<1>4. CASE StopSaves
  <2>1. /\ admin.step = "save" /\ admin' = AdminIdle
        /\ row' = [row EXCEPT ![admin.snapshot] = "HARVESTING_STOPPED"]
        /\ row[admin.snapshot] # "INITIALIZED"
    BY <1>4 DEF StopSaves, RowInv
  <2>2. RowInv'
    BY <1>1, <2>1 DEF RowInv, AdminIdle
  <2>3. \A s \in Snapshots : row[s] = "INITIALIZED" => row'[s] = "INITIALIZED"
    BY <2>1
  <2>4. OwnerInv'
    BY <1>1, <2>3 DEF OwnerInv, WorksOn, TakenUp
  <2>5. QED
    BY <1>2, <2>2, <2>4
<1>5. QED
  BY <1>3, <1>4

LEMMA NextIInv == TInv /\ IInv /\ [Next]_vars => IInv'
<1> SUFFICES ASSUME TInv, IInv, [Next]_vars PROVE IInv'
  OBVIOUS
<1> USE DEF IInv
<1>1. CASE UNCHANGED vars
  BY <1>1 DEF vars, rowVars, runVars, otherVars, ModeInv, RowInv, OwnerInv,
              WorksOn, TakenUp
<1>2. ASSUME NEW w \in Workers, WorkStep(w) PROVE IInv'
  BY <1>2, WorkModeRow, WorkOwner
<1>3. ASSUME NEW w \in Workers, Begin(w) PROVE IInv'
  BY <1>2, <1>3, RunIsWorkStep, ShareStep, QuietStep DEF Begin
<1>4. ASSUME NEW w \in Workers, Harvest(w) PROVE IInv'
  BY <1>2, <1>4, RunIsWorkStep
<1>5. ASSUME NEW w \in Workers, End(w) PROVE IInv'
  BY <1>2, <1>5, RunIsWorkStep, ShareStep
<1>6. ASSUME NEW w \in Workers, Schedule(w) PROVE IInv'
  BY <1>6, QuietStep DEF Schedule
<1>7. ASSUME NEW w \in Workers, Abort(w) PROVE IInv'
  BY <1>2, <1>7, RunIsWorkStep, QuietStep
<1>8. CASE Crash
  BY <1>8, CrashStep
<1>9. CASE StopHarvesting
  BY <1>9, StopStep
<1>10. QED
  BY <1>1, <1>3, <1>4, <1>5, <1>6, <1>7, <1>8, <1>9 DEF Next, Run

LEMMA InitIInv == Init => IInv
<1> SUFFICES ASSUME Init PROVE IInv
  OBVIOUS
<1>1. \A w \in Workers : pc[w] = "idle" /\ mode[w] = "whole" /\ snap[w] = None
  BY DEF Init
<1>2. ModeInv
  BY <1>1 DEF ModeInv
<1>3. RowInv
  BY <1>1 DEF RowInv, Init, AdminIdle
<1>4. OwnerInv
  BY <1>1 DEF OwnerInv, WorksOn, Registered, Unregistered
<1>5. QED
  BY <1>2, <1>3, <1>4 DEF IInv

(* However many workers run, fail and are restarted, a snapshot whose row  *)
(* says that it is being worked on has its worker in the manager's map,    *)
(* unless it was relaunched (SnapshotWorker 250-253, 353-360).             *)
THEOREM StopFinding == Spec => []StopFindsWorker
<1>1. IInv => StopFindsWorker
  BY DEF IInv, OwnerInv, StopFindsWorker, Stoppable
<1>2. QED
  BY InitTInv, NextTInv, InitIInv, NextIInv, <1>1, PTL DEF Spec

-----------------------------------------------------------------------------
(* The map. *)

LEMMA NextRegistry ==
  ASSUME TInv, RegistryNamesItsWorker, [Next]_vars
  PROVE  RegistryNamesItsWorker'
<1> USE ManagerAssumption
    DEF TInv, TypeOK, RegistryNamesItsWorker, Move, rowVars, runVars, progress,
        otherVars, Registered, Unregistered
<1>1. CASE UNCHANGED vars
  BY <1>1 DEF vars
<1>2. ASSUME NEW w \in Workers, WorkStep(w), lost' = lost,
             pc'[w] \in Registered \/ pc[w] \notin Registered
      PROVE RegistryNamesItsWorker'
  BY <1>2 DEF WorkStep
<1>3. ASSUME NEW w \in Workers, Begin(w) PROVE RegistryNamesItsWorker'
  <2>1. CASE RegisterBegin(w)
    BY <2>1 DEF RegisterBegin
  <2>2. CASE pc[w] = "scheduled"
    <3>1. /\ UNCHANGED <<registry, lost>>
          /\ pc' = [pc EXCEPT ![w] = pc'[w]]
          /\ \A v \in Workers \ {w} : snap'[v] = snap[v]
      BY <1>3, <2>2 DEF Begin, CreateSnapshot, NothingToDo, FindStopped, TakeUp,
                        LoadBeans, LoadBeansFails, RegisterBegin, MarkHarvesting,
                        ResetHarvester
    <3>2. QED
      BY <2>2, <3>1
  <2>3. CASE TakeUp(w) \/ LoadBeans(w) \/ LoadBeansFails(w)
    <3>1. lost' = lost /\ pc[w] \notin Registered
      BY <2>3 DEF TakeUp, LoadBeans, LoadBeansFails
    <3>2. QED
      BY <1>2, <2>3, <3>1, RunIsWorkStep
  <2>4. CASE MarkHarvesting(w) \/ ResetHarvester(w)
    <3>1. lost' = lost /\ pc'[w] \in Registered
      BY <2>4 DEF MarkHarvesting, ResetHarvester
    <3>2. QED
      BY <1>2, <2>4, <3>1, RunIsWorkStep
  <2>5. QED
    BY <1>3, <2>1, <2>2, <2>3, <2>4 DEF Begin, CreateSnapshot, NothingToDo, FindStopped
<1>4. ASSUME NEW w \in Workers, Harvest(w) PROVE RegistryNamesItsWorker'
  <2>1. UNCHANGED <<pc, snap, registry, lost>>
    BY <1>4 DEF Harvest, NextTarget, SkipTarget, Loop, OnOK, OnOKThrows, OnRetry,
                OnFatal, OnStop
  <2>2. QED
    BY <2>1
<1>5. ASSUME NEW w \in Workers, End(w) PROVE RegistryNamesItsWorker'
  <2>1. CASE RegisterEnd(w)
    BY <2>1 DEF RegisterEnd
  <2>2. CASE ~RegisterEnd(w)
    <3>1. lost' = lost /\ pc'[w] \in Registered
      BY <1>5, <2>2 DEF End, EndUnsuccessful, EndUnpublished, SkipIndexing,
             BeginIndexing, EndIndexing, BeginXOAI, EndXOAI, FinalSave
    <3>2. QED
      BY <1>2, <1>5, <2>2, <3>1, RunIsWorkStep
  <2>3. QED
    BY <2>1, <2>2
<1>6. ASSUME NEW w \in Workers, Schedule(w) PROVE RegistryNamesItsWorker'
  <2>1. /\ UNCHANGED <<registry, lost>>
        /\ pc[w] \notin Registered
        /\ pc' = [pc EXCEPT ![w] = "scheduled"]
        /\ \A v \in Workers \ {w} : snap'[v] = snap[v]
    BY <1>6 DEF Schedule, Launch, CronFires, Relaunches
  <2>2. QED
    BY <2>1
<1>7. ASSUME NEW w \in Workers, Abort(w) PROVE RegistryNamesItsWorker'
  BY <1>7 DEF Abort
<1>8. CASE Crash
  BY <1>8 DEF Crash
<1>9. CASE StopHarvesting
  <2>1. UNCHANGED <<pc, snap, registry, lost>>
    BY <1>9 DEF StopHarvesting, StopLooksUp, StopSignals, StopFinds, StopSaves
  <2>2. QED
    BY <2>1
<1>10. QED
  BY <1>1, <1>3, <1>4, <1>5, <1>6, <1>7, <1>8, <1>9 DEF Next, Run

(* A stop never reaches the harvester of another snapshot's run: the map   *)
(* is right about every snapshot whose run was not ended by an exception   *)
(* (SnapshotManager 80-86, SnapshotWorker 250, 360).                       *)
THEOREM RegistryTheorem == Spec => []RegistryNamesItsWorker
<1>1. Init => RegistryNamesItsWorker
  BY DEF Init, RegistryNamesItsWorker
<1>2. TInv /\ RegistryNamesItsWorker /\ [Next]_vars => RegistryNamesItsWorker'
  BY NextRegistry
<1>3. QED
  BY <1>1, <1>2, InitTInv, NextTInv, PTL DEF Spec

-----------------------------------------------------------------------------
(* The outcome of a run: what a published run has listed, that a stop      *)
(* within a batch is obeyed, and that the snapshots of dead runs can be    *)
(* stopped as long as no exception ends one.                               *)

\* The flag is up only in a harvest that a stop has reached since its reset.
FlagInv(w) ==
  pc[w] = "harvesting" /\ signalled[w] = "no" => ~stopSignalReceived[w]

\* A stop within a batch leaves no way from one target to the next but with
\* a status that what follows the harvest takes for unsuccessful.
ObeyInv(w) ==
  signalled[w] = "within" =>
    /\ ~Published(w)
    /\ pc[w] = "harvesting" =>
         /\ stopSignalReceived[w]
         /\ at[w] \in {"idle", "while"} => mem[w] \in Unsuccessful

\* What a harvest that nobody stopped has listed, in the middle of it: each
\* target so far, but the one at hand, is accounted for; the error of the last
\* one is still the status; and the loop ends without an event only after the
\* last page was accepted.
Accounts(w) ==
  /\ failed[w] \subseteq 1..target[w]
  /\ \A t \in 1..target[w] :
       t < target[w] \/ at[w] = "idle" => t \in whole[w] \union failed[w]
  /\ target[w] \in failed[w] =>
       at[w] = "idle" /\ mem[w] = "HARVESTING_FINISHED_ERROR"
  /\ /\ resumptionToken[w] = NoToken
     /\ \/ at[w] = "while" /\ started[w]
        \/ at[w] = "check" /\ actualRetry[w] # MaxRetries
     => target[w] \in whole[w]

AllAccounted(w) ==
  whole[w] \union failed[w] = 1..Targets /\ Targets \notin failed[w]

AccountInv(w) ==
  signalled[w] = "no" /\ mode[w] # "bySet" =>
    /\ pc[w] = "harvesting" => Accounts(w)
    /\ Published(w) => AllAccounted(w)

Outcome(w) == FlagInv(w) /\ ObeyInv(w) /\ AccountInv(w)
OutcomeInv == \A w \in Workers : Outcome(w)

\* What Outcome(w) reads.
ViewOf(w) ==
  <<pc[w], mode[w], mem[w], target[w], whole[w], failed[w], signalled[w], at[w],
    started[w], actualRetry[w], resumptionToken[w], stopSignalReceived[w]>>

-----------------------------------------------------------------------------

LEMMA InitOutcome == Init => OutcomeInv
  BY DEF Init, OutcomeInv, Outcome, FlagInv, ObeyInv, AccountInv, Published

LEMMA SameView ==
  ASSUME NEW w \in Workers, Outcome(w), UNCHANGED ViewOf(w)
  PROVE  Outcome(w)'
  BY DEF ViewOf, Outcome, FlagInv, ObeyInv, AccountInv, Accounts, AllAccounted,
         Published

\* A step of one worker does not touch another.
LEMMA OthersKeepView ==
  ASSUME TInv, NEW v \in Workers, Schedule(v) \/ Run(v) \/ Abort(v),
         NEW w \in Workers, w # v
  PROVE  UNCHANGED ViewOf(w)
<1> USE DEF ViewOf, TInv, TypeOK, HarvesterTypeOK, Move, Save, Goto, rowVars,
            runVars, progress, otherVars, harvesterVars
<1>1. CASE Schedule(v)
  BY <1>1 DEF Schedule, Launch, CronFires, Relaunches
<1>2. CASE Begin(v)
  BY <1>2 DEF Begin, CreateSnapshot, NothingToDo, FindStopped, TakeUp, LoadBeans,
              LoadBeansFails, RegisterBegin, MarkHarvesting, ResetHarvester,
              ResetStop
<1>3. CASE Harvest(v)
  <2>1. CASE NextTarget(v) \/ SkipTarget(v)
    BY <2>1 DEF NextTarget, SkipTarget, StartHarvest
  <2>2. CASE Loop(v)
    BY <2>2 DEF Loop, EnterLoop, LeaveLoop, Respond, FailRequest, Continue
  <2>3. CASE OnOK(v) \/ OnOKThrows(v) \/ OnRetry(v)
    BY <2>3 DEF OnOK, OnOKThrows, OnRetry, AcceptBatch, RejectBatch, Retry
  <2>4. CASE OnFatal(v) \/ OnStop(v)
    BY <2>4 DEF OnFatal, OnStop, GiveUp, HonourStop
  <2>5. QED
    BY <1>3, <2>1, <2>2, <2>3, <2>4 DEF Harvest
<1>4. CASE End(v)
  BY <1>4 DEF End, EndUnsuccessful, EndUnpublished, SkipIndexing, BeginIndexing,
              EndIndexing, BeginXOAI, EndXOAI, FinalSave, RegisterEnd
<1>5. CASE Abort(v)
  BY <1>5 DEF Abort
<1>6. QED
  BY <1>1, <1>2, <1>3, <1>4, <1>5 DEF Run

\* Before the harvest nothing is promised, and reset() starts with nothing.
LEMMA BeginOutcome ==
  ASSUME TInv, NEW w \in Workers, Outcome(w), Begin(w) \/ Schedule(w) \/ Abort(w)
  PROVE  Outcome(w)'
<1> USE DEF TInv, TypeOK, HarvesterTypeOK, Move, rowVars, runVars, progress,
            otherVars, harvesterVars
<1>1. CASE ResetHarvester(w)
  <2>1. /\ pc'[w] = "harvesting" /\ signalled'[w] = "no"
        /\ ~stopSignalReceived'[w]
        /\ target'[w] = 0 /\ whole'[w] = {} /\ failed'[w] = {}
        /\ UNCHANGED at
    BY <1>1 DEF ResetHarvester, ResetStop
  <2>2. at[w] = "idle"
    BY <1>1 DEF ResetHarvester, HarvesterInv
  <2>3. Accounts(w)'
    BY <2>1, <2>2 DEF Accounts
  <2>4. QED
    BY <2>1, <2>3 DEF Outcome, FlagInv, ObeyInv, AccountInv, Published
<1>2. CASE ~ResetHarvester(w)
  <2>1. pc'[w] \in {"scheduled", "resume", "load", "register", "mark", "reset",
                    "done", "dead"}
    BY <1>2 DEF Begin, CreateSnapshot, NothingToDo, FindStopped, TakeUp,
                LoadBeans, LoadBeansFails, RegisterBegin, MarkHarvesting,
                Schedule, Launch, CronFires, Relaunches, Abort
  <2>2. QED
    BY <2>1 DEF Outcome, FlagInv, ObeyInv, AccountInv, Published
<1>3. QED
  BY <1>1, <1>2

\* A step of the harvest leaves the worker in it; the rest is Accounts.
LEMMA HarvestFlags ==
  ASSUME TInv, NEW w \in Workers, Outcome(w), Harvest(w)
  PROVE  FlagInv(w)' /\ ObeyInv(w)'
<1> USE DEF TInv, TypeOK, HarvesterTypeOK, Outcome, FlagInv, ObeyInv, Published,
            Goto, Save, rowVars, runVars, progress, otherVars, harvesterVars
<1>1. pc[w] = "harvesting" /\ UNCHANGED <<pc, stopSignalReceived, signalled>>
  <2>1. pc[w] = "harvesting"
    BY DEF HarvesterInv, Harvest, NextTarget, SkipTarget, Loop, EnterLoop,
           LeaveLoop, Respond, FailRequest, Continue, OnOK, AcceptBatch,
           OnOKThrows, RejectBatch, OnRetry, Retry, OnFatal, GiveUp, OnStop,
           HonourStop
  <2>2. UNCHANGED <<pc, stopSignalReceived, signalled>>
    BY DEF Harvest, NextTarget, StartHarvest, SkipTarget, Loop, EnterLoop,
           LeaveLoop, Respond, FailRequest, Continue, OnOK, AcceptBatch,
           OnOKThrows, RejectBatch, OnRetry, Retry, OnFatal, GiveUp, OnStop,
           HonourStop
  <2>3. QED
    BY <2>1, <2>2
<1>2. signalled[w] = "within" /\ at'[w] \in {"idle", "while"}
        => mem'[w] \in Unsuccessful
  <2> SUFFICES ASSUME signalled[w] = "within" PROVE at'[w] \in {"idle", "while"}
                                                     => mem'[w] \in Unsuccessful
    OBVIOUS
  <2>1. CASE NextTarget(w) \/ SkipTarget(w)
    BY <1>1, <2>1 DEF NextTarget, StartHarvest, SkipTarget
  <2>2. CASE Loop(w)
    BY <1>1, <2>2 DEF Loop, EnterLoop, LeaveLoop, Respond, FailRequest, Continue
  <2>3. CASE OnOK(w) \/ OnOKThrows(w) \/ OnRetry(w)
    BY <2>3 DEF OnOK, AcceptBatch, OnOKThrows, RejectBatch, OnRetry, Retry
  <2>4. CASE OnFatal(w) \/ OnStop(w)
    BY <2>4 DEF OnFatal, GiveUp, OnStop, HonourStop, Unsuccessful
  <2>5. QED
    BY <2>1, <2>2, <2>3, <2>4 DEF Harvest
<1>3. QED
  BY <1>1, <1>2

LEMMA UpTo ==
  ASSUME NEW n \in Nat, NEW t \in 1..n
  PROVE  t < n \/ t = n
  OBVIOUS

LEMMA LastRetry ==
  ASSUME NEW r \in 0..MaxRetries, r < MaxRetries, ~(r + 1 < MaxRetries)
  PROVE  r + 1 = MaxRetries
  BY HarvesterAssumption

\* The account is kept over every step of a harvest that nobody stopped.
LEMMA HarvestAccounts ==
  ASSUME TInv, NEW w \in Workers, Harvest(w), Accounts(w), ~stopSignalReceived[w],
         mode[w] # "bySet"
  PROVE  Accounts(w)'
<1>0. target[w] \in Nat
  BY ManagerAssumption DEF TInv, TypeOK
<1> USE HarvesterAssumption, ManagerAssumption
    DEF TInv, TypeOK, HarvesterTypeOK, HarvesterInv, Accounts, NoToken, Goto, Save,
        rowVars, runVars, progress, otherVars, harvesterVars
<1>1. CASE NextTarget(w)
  <2>1. /\ at[w] = "idle" /\ at'[w] = "while" /\ ~started'[w]
        /\ target'[w] = target[w] + 1 /\ UNCHANGED <<whole, failed>>
    BY <1>1 DEF NextTarget, StartHarvest
  <2>2. /\ 1..target[w] \subseteq 1..target'[w]
        /\ target'[w] \notin 1..target[w]
        /\ \A t \in 1..target'[w] : t < target'[w] => t \in 1..target[w]
    BY <1>0, <2>1
  <2>3. failed'[w] \subseteq 1..target'[w] /\ target'[w] \notin failed'[w]
    BY <2>1, <2>2
  <2>4. \A t \in 1..target'[w] :
          t < target'[w] \/ at'[w] = "idle" => t \in whole'[w] \union failed'[w]
    BY <2>1, <2>2
  <2>5. QED
    BY <2>1, <2>3, <2>4
<1>2. CASE SkipTarget(w)
  BY <1>2 DEF SkipTarget
<1>3. CASE EnterLoop(w) /\ Loop(w)
  BY <1>3 DEF EnterLoop, Loop
<1>4. CASE LeaveLoop(w) /\ Loop(w)
  <2>1. started[w] /\ resumptionToken[w] = NoToken /\ at[w] = "while"
    BY <1>4 DEF LeaveLoop, MoreToAsk
  <2>2. target[w] \in whole[w] /\ target[w] \notin failed[w]
    BY <2>1
  <2>3. at'[w] = "idle" /\ UNCHANGED progress
    BY <1>4 DEF LeaveLoop, Loop
  <2>4. \A t \in 1..target[w] : t < target[w] \/ t = target[w]
    BY <1>0, UpTo
  <2>5. QED
    BY <2>1, <2>2, <2>3, <2>4
<1>5. CASE Respond(w) /\ Loop(w)
  BY <1>5 DEF Respond, Loop
<1>6. CASE FailRequest(w) /\ Loop(w)
  BY <1>6 DEF FailRequest, Loop
<1>7. CASE Continue(w) /\ Loop(w)
  BY <1>7 DEF Continue, Loop
<1>8. CASE OnOK(w)
  <2>1. /\ at[w] = "fire" /\ at'[w] = "check"
        /\ UNCHANGED <<target, failed, resumptionToken>>
        /\ whole'[w] = IF resumptionToken[w] = NoToken
                       THEN whole[w] \union {target[w]} ELSE whole[w]
    BY <1>8 DEF OnOK, AcceptBatch
  <2>2. QED
    BY <2>1
<1>9. CASE OnOKThrows(w)
  BY <1>9 DEF OnOKThrows, RejectBatch
<1>10. CASE OnRetry(w)
  <2>1. /\ at[w] = "retry" /\ UNCHANGED <<target, whole, failed>>
        /\ \/ at'[w] = "request"
           \/ at'[w] = "check" /\ actualRetry'[w] = MaxRetries
    <3>1. /\ at[w] = "retry" /\ actualRetry[w] \in 0..MaxRetries
          /\ actualRetry[w] < MaxRetries /\ actualRetry'[w] = actualRetry[w] + 1
      BY <1>10 DEF OnRetry, Retry
    <3>2. ~(actualRetry[w] + 1 < MaxRetries) => actualRetry[w] + 1 = MaxRetries
      BY <3>1, LastRetry
    <3>3. at'[w] = IF actualRetry[w] + 1 < MaxRetries THEN "request" ELSE "check"
      BY <1>10 DEF OnRetry, Retry
    <3>4. UNCHANGED <<target, whole, failed>>
      BY <1>10 DEF OnRetry
    <3>5. QED
      BY <3>1, <3>2, <3>3, <3>4
  <2>2. QED
    BY <2>1
<1>11. CASE OnFatal(w)
  <2>1. /\ at[w] = "check" /\ at'[w] = "idle" /\ UNCHANGED <<target, whole>>
        /\ failed'[w] = failed[w] \union {target[w]}
        /\ mem'[w] = "HARVESTING_FINISHED_ERROR"
    BY <1>11 DEF OnFatal, GiveUp
  <2>2. target[w] \in 1..Targets /\ target[w] \in 1..target[w]
    BY <2>1
  <2>3. \A t \in 1..target[w] : t < target[w] \/ t = target[w]
    BY <1>0, UpTo
  <2>4. QED
    BY <2>1, <2>2, <2>3
<1>12. CASE OnStop(w)
  BY <1>12 DEF OnStop, HonourStop
<1>13. QED
  BY <1>1, <1>2, <1>3, <1>4, <1>5, <1>6, <1>7, <1>8, <1>9, <1>10, <1>11, <1>12
  DEF Harvest, Loop

LEMMA HarvestOutcome ==
  ASSUME TInv, NEW w \in Workers, Outcome(w), Harvest(w)
  PROVE  Outcome(w)'
<1>1. FlagInv(w)' /\ ObeyInv(w)'
  BY HarvestFlags
<1>2. pc[w] = "harvesting" /\ UNCHANGED <<pc, mode, signalled>>
  <2>1. pc[w] = "harvesting"
    BY DEF TInv, HarvesterInv, Harvest, NextTarget, SkipTarget, Loop, EnterLoop,
           LeaveLoop, Respond, FailRequest, Continue, OnOK, AcceptBatch,
           OnOKThrows, RejectBatch, OnRetry, Retry, OnFatal, GiveUp, OnStop,
           HonourStop, Goto
  <2>2. UNCHANGED <<pc, mode, signalled>>
    BY DEF Harvest, NextTarget, SkipTarget, Loop, OnOK, OnOKThrows, OnRetry,
           OnFatal, OnStop, runVars, otherVars
  <2>3. QED
    BY <2>1, <2>2
<1>3. AccountInv(w)'
  BY <1>2, HarvestAccounts DEF Outcome, FlagInv, AccountInv, Published
<1>4. QED
  BY <1>1, <1>3 DEF Outcome

\* From the harvest on, the status decides, and nothing is listed any more.
LEMMA EndOutcome ==
  ASSUME TInv, NEW w \in Workers, Outcome(w), End(w)
  PROVE  Outcome(w)'
<1> USE DEF TInv, TypeOK, HarvesterTypeOK, Move, Save, rowVars, runVars, progress,
            otherVars, harvesterVars
<1>1. /\ pc'[w] # "harvesting"
      /\ UNCHANGED <<mode, whole, failed, signalled>>
  BY DEF End, EndUnsuccessful, EndUnpublished, SkipIndexing, BeginIndexing,
         EndIndexing, BeginXOAI, EndXOAI, FinalSave, RegisterEnd
<1>2. Published(w)' => \/ Published(w)
                       \/ /\ HarvestOver(w) /\ pc[w] = "harvesting"
                          /\ mem[w] \notin Unsuccessful
  BY DEF End, EndUnsuccessful, EndUnpublished, SkipIndexing, BeginIndexing,
         EndIndexing, BeginXOAI, EndXOAI, FinalSave, RegisterEnd, Published
<1>3. HarvestOver(w) /\ mem[w] \notin Unsuccessful /\ Accounts(w) => AllAccounted(w)
  <2> SUFFICES ASSUME HarvestOver(w), mem[w] \notin Unsuccessful, Accounts(w)
               PROVE  AllAccounted(w)
    OBVIOUS
  <2>1. 1..Targets \subseteq whole[w] \union failed[w]
    BY DEF HarvestOver, Accounts
  <2>2. whole[w] \union failed[w] \subseteq 1..Targets
    OBVIOUS
  <2>3. Targets \notin failed[w]
    BY DEF HarvestOver, Accounts, Unsuccessful
  <2>4. QED
    BY <2>1, <2>2, <2>3 DEF AllAccounted
<1>4. ObeyInv(w)'
  BY <1>1, <1>2 DEF Outcome, ObeyInv, HarvestOver
<1>5. AccountInv(w)'
  BY <1>1, <1>2, <1>3 DEF Outcome, AccountInv, AllAccounted
<1>6. QED
  BY <1>1, <1>4, <1>5 DEF Outcome, FlagInv

\* A signal raises the flag, and says where it came.
LEMMA StopOutcome ==
  ASSUME TInv, OutcomeInv, StopHarvesting, NEW w \in Workers
  PROVE  Outcome(w)'
<1> USE DEF TInv, TypeOK, HarvesterTypeOK, OutcomeInv, rowVars, runVars, progress,
            harvesterVars
<1>1. CASE StopSignals /\ admin.worker = w
  <2>1. /\ UNCHANGED <<pc, mode, mem, target, whole, failed, at, started>>
        /\ UNCHANGED <<actualRetry, resumptionToken>>
        /\ stopSignalReceived'[w]
        /\ signalled'[w] = IF pc[w] # "harvesting" \/ signalled[w] = "within"
                           THEN signalled[w]
                           ELSE IF at[w] \in {"idle", "while"} THEN "between"
                           ELSE "within"
    BY <1>1 DEF StopSignals, SignalStop
  <2>2. QED
    BY <2>1 DEF Outcome, FlagInv, ObeyInv, AccountInv, Accounts, AllAccounted,
                Published
<1>2. CASE ~(StopSignals /\ admin.worker = w)
  <2>1. UNCHANGED ViewOf(w)
    BY <1>2 DEF StopHarvesting, StopLooksUp, StopSignals, SignalStop, StopFinds,
                StopSaves, ViewOf
  <2>2. QED
    BY <2>1, SameView
<1>3. QED
  BY <1>1, <1>2

LEMMA NextOutcome == TInv /\ OutcomeInv /\ [Next]_vars => OutcomeInv'
<1> SUFFICES ASSUME TInv, OutcomeInv, [Next]_vars, NEW w \in Workers
             PROVE  Outcome(w)'
  BY DEF OutcomeInv
<1>1. ASSUME NEW v \in Workers, Schedule(v) \/ Run(v) \/ Abort(v)
      PROVE  Outcome(w)'
  <2>1. CASE w = v
    BY <1>1, <2>1, BeginOutcome, HarvestOutcome, EndOutcome DEF Run, OutcomeInv
  <2>2. CASE w # v
    BY <1>1, <2>2, OthersKeepView, SameView DEF OutcomeInv
  <2>3. QED
    BY <2>1, <2>2
<1>2. CASE Crash
  BY <1>2 DEF Crash, Outcome, FlagInv, ObeyInv, AccountInv, Published
<1>3. CASE StopHarvesting
  BY <1>3, StopOutcome
<1>4. CASE UNCHANGED vars
  <2>1. UNCHANGED ViewOf(w)
    BY <1>4 DEF vars, ViewOf, harvesterVars, rowVars, runVars, progress, otherVars
  <2>2. QED
    BY <2>1, SameView DEF OutcomeInv
<1>5. QED
  BY <1>1, <1>2, <1>3, <1>4 DEF Next

LEMMA OutcomeTheorem == Spec => []OutcomeInv
<1>1. Spec => []TInv
  BY InitTInv, NextTInv, PTL DEF Spec
<1>2. QED
  BY <1>1, InitOutcome, NextOutcome, PTL DEF Spec

(* A published run that nobody stopped has listed each target to its last  *)
(* page or given it up, and has not given up the last one                  *)
(* (SnapshotWorker 274-345, OCLCBasedHarvesterImpl 83-141).                *)
THEOREM Accounting == Spec => []SuccessIsAccountedFor
<1>1. OutcomeInv => SuccessIsAccountedFor
  BY DEF OutcomeInv, Outcome, AccountInv, AllAccounted, SuccessIsAccountedFor
<1>2. QED
  BY <1>1, OutcomeTheorem, PTL

(* A run that a stop reached within a batch is not published, whatever     *)
(* origins follow (OCLCBasedHarvesterImpl 133, SnapshotWorker 274).        *)
THEOREM Obedience == Spec => []StopWithinBatchIsObeyed
<1>1. OutcomeInv => StopWithinBatchIsObeyed
  BY DEF OutcomeInv, Outcome, ObeyInv, StopWithinBatchIsObeyed
<1>2. QED
  BY <1>1, OutcomeTheorem, PTL

-----------------------------------------------------------------------------
\* Only exceptions lose entries of the map.
LEMMA NothingLost ==
  ASSUME MaxAborts = 0
  PROVE  Spec => [](lost = {})
<1>1. Init => lost = {}
  BY DEF Init
<1>2. TInv /\ lost = {} /\ [Next]_vars => (lost = {})'
  <2> SUFFICES ASSUME TInv, lost = {}, [Next]_vars PROVE lost' = {}
    OBVIOUS
  <2>1. ASSUME NEW w \in Workers PROVE ~Abort(w)
    BY DEF Abort, TInv, TypeOK
  <2>2. ASSUME NEW w \in Workers, Schedule(w) PROVE lost' = lost
    BY <2>2 DEF Schedule, Launch, CronFires, Relaunches, otherVars
  <2>3. ASSUME NEW w \in Workers, Begin(w) PROVE lost' = lost
    BY <2>3 DEF Begin, CreateSnapshot, NothingToDo, FindStopped, TakeUp, LoadBeans,
                LoadBeansFails, RegisterBegin, MarkHarvesting, ResetHarvester,
                otherVars
  <2>4. ASSUME NEW w \in Workers, Harvest(w) PROVE lost' = lost
    BY <2>4 DEF Harvest, NextTarget, SkipTarget, Loop, OnOK, OnOKThrows, OnRetry,
                OnFatal, OnStop, otherVars
  <2>5. ASSUME NEW w \in Workers, End(w) PROVE lost' = lost
    BY <2>5 DEF End, EndUnsuccessful, EndUnpublished, SkipIndexing, BeginIndexing,
                EndIndexing, BeginXOAI, EndXOAI, FinalSave, RegisterEnd, otherVars
  <2>6. Crash \/ StopHarvesting \/ UNCHANGED vars => lost' = {}
    BY DEF Crash, StopHarvesting, StopLooksUp, StopSignals, StopFinds, StopSaves,
           vars, otherVars
  <2>7. QED
    BY <2>1, <2>2, <2>3, <2>4, <2>5, <2>6 DEF Next, Run
<1>3. Spec => []TInv
  BY InitTInv, NextTInv, PTL DEF Spec
<1>4. QED
  BY <1>1, <1>2, <1>3, PTL DEF Spec

(* Without exceptions, and across restarts, no entry of the map keeps a    *)
(* stop from the fallback for a snapshot that nobody works on              *)
(* (SnapshotManager 111-125).                                              *)
THEOREM OrphanStopping ==
  ASSUME MaxAborts = 0
  PROVE  Spec => []OrphanCanBeStopped
<1>1. RegistryNamesItsWorker /\ TInv /\ lost = {} => OrphanCanBeStopped
  BY DEF RegistryNamesItsWorker, OrphanCanBeStopped, WorksOn, TInv, TypeOK
<1>2. Spec => []TInv
  BY InitTInv, NextTInv, PTL DEF Spec
<1>3. Spec => [](lost = {})
  BY NothingLost
<1>4. QED
  BY <1>1, <1>2, <1>3, RegistryTheorem, PTL

=============================================================================
