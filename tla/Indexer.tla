------------------------------- MODULE Indexer -------------------------------
(***************************************************************************)
(* IndexerImpl: one Solr core and the calls of index() that write to it.   *)
(*                                                                         *)
(* index() enters the monitor of the bean and replaces a network in the    *)
(* core: it deletes the network's documents, commits, sends the pages of   *)
(* the snapshot's valid records and commits again.  A request that throws  *)
(* is answered with a rollback.  Solr's commits are not isolated: a commit *)
(* publishes, and a rollback discards, whatever any client has sent.       *)
(*                                                                         *)
(* Abstractions.  A page of records is sent as one document: page p of any *)
(* snapshot of a network has the same fingerprints, so it overwrites page  *)
(* p of another.  Records are read in the step that sends them.  What the  *)
(* stylesheet makes of a record is left out.                               *)
(***************************************************************************)
EXTENDS Naturals

CONSTANTS
  Tasks,       \* the threads that call index()
  Networks,
  Snapshots,
  NetworkOf,   \* the network of each snapshot
  PagesOf,     \* the pages of valid records of each snapshot
  MaxPages,
  Failures,    \* what may go wrong
  MaxFailures, \* bound: how often something goes wrong
  None         \* no snapshot, no task

FailureKinds == {"delete", "page", "index", "rollback", "autocommit"}

ASSUME IndexerAssumption ==
  /\ MaxPages \in Nat
  /\ Networks # {}
  /\ NetworkOf \in [Snapshots -> Networks]
  /\ PagesOf \in [Snapshots -> 0..MaxPages]
  /\ Failures \subseteq FailureKinds
  /\ MaxFailures \in Nat
  /\ None \notin Snapshots
  /\ None \notin Tasks

VARIABLES
  committed,   \* per network and page: the snapshot the documents are from
  pending,     \* the same with what was sent and not committed
  records,     \* the snapshots whose records are in the database
  monitor,     \* the task inside _index
  step,        \* where each task's call is
  call,        \* its arguments
  sent,        \* i: pages sent
  total,       \* totalPages
  valid,       \* the result
  failed,      \* failures so far
  damaged      \* history: the networks a failure has touched since a delete

core == <<committed, pending>>
callVars == <<call, sent, total, valid>>
indexerVars == <<core, records, monitor, step, callVars, failed, damaged>>

Readers == INSTANCE SearchIndex WITH content <- committed

Nothing == [p \in 1..MaxPages |-> None]

Calls ==
  [network : Networks, snapshot : Snapshots \union {None}, deleteOnly : BOOLEAN]

\* What the arguments are before the first call.
AnyCall == CHOOSE c \in Calls : TRUE

Steps ==
  {"out", "waiting", "delete", "commitDelete", "rollbackDelete",
   "count", "page", "rollback", "leave", "returned", "thrown"}

IndexerTypeOK ==
  /\ committed \in [Networks -> [1..MaxPages -> Snapshots \union {None}]]
  /\ pending \in [Networks -> [1..MaxPages -> Snapshots \union {None}]]
  /\ records \in SUBSET Snapshots
  /\ monitor \in Tasks \union {None}
  /\ step \in [Tasks -> Steps]
  /\ call \in [Tasks -> Calls]
  /\ sent \in [Tasks -> 0..MaxPages]
  /\ total \in [Tasks -> 0..MaxPages]
  /\ valid \in [Tasks -> BOOLEAN]
  /\ failed \in 0..MaxFailures
  /\ damaged \in SUBSET Networks

\* No call has sent more pages than it counted, and none before it counted them.
PagesCounted ==
  \A t \in Tasks :
    sent[t] <= total[t] /\ (sent[t] # 0 => step[t] \in {"page", "rollback", "leave"})

IndexerInit ==
  /\ committed = [n \in Networks |-> Nothing]
  /\ pending = [n \in Networks |-> Nothing]
  /\ records = Snapshots
  /\ monitor = None
  /\ step = [t \in Tasks |-> "out"]
  /\ call = [t \in Tasks |-> AnyCall]
  /\ sent = [t \in Tasks |-> 0]
  /\ total = [t \in Tasks |-> 0]
  /\ valid = [t \in Tasks |-> FALSE]
  /\ failed = 0
  /\ damaged = {}

Go(t, from, to) ==
  /\ step[t] = from
  /\ step' = [step EXCEPT ![t] = to]

\* One of the failures the bound leaves.
Fail(kind) ==
  /\ kind \in Failures
  /\ failed < MaxFailures
  /\ failed' = failed + 1

-----------------------------------------------------------------------------
(* index and _index. *)

\* The arguments are taken before the monitor is entered.
Call(t, n, s, deleteOnly) ==
  /\ Go(t, "out", "waiting")
  /\ call' = [call EXCEPT ![t] =
                [network |-> n, snapshot |-> s, deleteOnly |-> deleteOnly]]
  /\ valid' = [valid EXCEPT ![t] = FALSE]
  /\ UNCHANGED <<core, records, monitor, sent, total, failed, damaged>>

\* Mutated: _index is not synchronized.
EnterAnyway(t) ==
  /\ Go(t, "waiting", "delete")
  /\ monitor' = t
  /\ UNCHANGED <<core, records, callVars, failed, damaged>>

Enter(t) ==
  /\ monitor = None
  /\ Go(t, "waiting", "delete")
  /\ monitor' = t
  /\ UNCHANGED <<core, records, callVars, failed, damaged>>

\* What follows the delete, whether it worked or not.
AfterDelete(t) == IF call[t].deleteOnly THEN "leave" ELSE "count"

ForgetLocals(t) ==
  /\ sent' = [sent EXCEPT ![t] = 0]
  /\ total' = [total EXCEPT ![t] = 0]

\* Mutated: the monitor is not released.
LeaveLocked(t) ==
  /\ Go(t, "leave", "returned")
  /\ ForgetLocals(t)
  /\ UNCHANGED <<core, records, monitor, call, valid, failed, damaged>>

Leave(t) ==
  /\ Go(t, "leave", "returned")
  /\ monitor' = None
  /\ ForgetLocals(t)
  /\ UNCHANGED <<core, records, call, valid, failed, damaged>>

-----------------------------------------------------------------------------
(* delete: the network's documents, then the commit. *)

Emptied(n) == [pending EXCEPT ![n] = Nothing]

SendDelete(t) ==
  /\ Go(t, "delete", "commitDelete")
  /\ pending' = Emptied(call[t].network)
  /\ UNCHANGED <<committed, records, monitor, callVars, failed, damaged>>

CommitDelete(t) ==
  /\ Go(t, "commitDelete", AfterDelete(t))
  /\ committed' = pending
  /\ valid' = [valid EXCEPT ![t] = TRUE]
  /\ damaged' = damaged \ {call[t].network}
  /\ UNCHANGED <<pending, records, monitor, call, sent, total, failed>>

\* Either request throws: Solr may have done what it was asked all the same.
FailDelete(t) ==
  /\ Fail("delete")
  /\ \/ /\ Go(t, "delete", "rollbackDelete")
        /\ pending' \in {pending, Emptied(call[t].network)}
        /\ UNCHANGED committed
     \/ /\ Go(t, "commitDelete", "rollbackDelete")
        /\ committed' \in {committed, pending}
        /\ UNCHANGED pending
  /\ damaged' = damaged \union {call[t].network}
  /\ UNCHANGED <<records, monitor, callVars>>

RollbackDelete(t) ==
  /\ Go(t, "rollbackDelete", AfterDelete(t))
  /\ pending' = committed
  /\ UNCHANGED <<committed, records, monitor, callVars, failed, damaged>>

-----------------------------------------------------------------------------
(* index(snapshot): the pages, then the commit. *)

\* The pages found in the database.
PagesNow(s) == IF s \in records THEN PagesOf[s] ELSE 0

CountPages(t) ==
  /\ call[t].snapshot # None
  /\ Go(t, "count", "page")
  /\ total' = [total EXCEPT ![t] = PagesNow(call[t].snapshot)]
  /\ UNCHANGED <<core, records, monitor, call, sent, valid, failed, damaged>>

\* There was no last good snapshot: a null pointer, caught as any exception.
NoSnapshot(t) ==
  /\ call[t].snapshot = None
  /\ Go(t, "count", "rollback")
  /\ UNCHANGED <<core, records, monitor, callVars, failed, damaged>>

\* Mutated: one page too many.
SendPageTooMany(t) ==
  /\ Go(t, "page", "page")
  /\ sent[t] <= total[t]
  /\ sent' = [sent EXCEPT ![t] = @ + 1]
  /\ UNCHANGED <<core, records, monitor, call, total, valid, failed, damaged>>

\* Records deleted since they were counted leave the page empty.
WithPage(c, p) ==
  IF c.snapshot \in records
    THEN [pending EXCEPT ![c.network] = [@ EXCEPT ![p] = c.snapshot]]
    ELSE pending

SendPage(t) ==
  /\ Go(t, "page", "page")
  /\ sent[t] < total[t]
  /\ sent' = [sent EXCEPT ![t] = @ + 1]
  /\ pending' = WithPage(call[t], sent[t] + 1)
  /\ UNCHANGED <<committed, records, monitor, call, total, valid, failed, damaged>>

\* Sending a page throws: the exception is printed and the loop goes on.
LosePage(t) ==
  /\ Fail("page")
  /\ Go(t, "page", "page")
  /\ sent[t] < total[t]
  /\ sent' = [sent EXCEPT ![t] = @ + 1]
  /\ pending' \in {pending, WithPage(call[t], sent[t] + 1)}
  /\ damaged' = damaged \union {call[t].network}
  /\ UNCHANGED <<committed, records, monitor, call, total, valid>>

CommitPages(t) ==
  /\ Go(t, "page", "leave")
  /\ sent[t] = total[t]
  /\ committed' = pending
  /\ valid' = [valid EXCEPT ![t] = TRUE]
  /\ UNCHANGED <<pending, records, monitor, call, sent, total, failed, damaged>>

\* The database, the stylesheet or the commit throws; the commit may have
\* reached Solr all the same.
FailIndexing(t) ==
  /\ Fail("index")
  /\ \/ Go(t, "count", "rollback") /\ UNCHANGED committed
     \/ Go(t, "page", "rollback") /\ UNCHANGED committed
     \/ Go(t, "page", "rollback") /\ sent[t] = total[t] /\ committed' = pending
  /\ UNCHANGED <<pending, records, monitor, callVars, damaged>>

\* Mutated: nothing is rolled back after a failure.
KeepPages(t) ==
  /\ Go(t, "rollback", "leave")
  /\ UNCHANGED <<core, records, monitor, callVars, failed, damaged>>

RollbackPages(t) ==
  /\ Go(t, "rollback", "leave")
  /\ pending' = committed
  /\ UNCHANGED <<committed, records, monitor, callVars, failed, damaged>>

-----------------------------------------------------------------------------
(* Further failures. *)

\* The rollback fails.  solrRollback prints the exceptions it knows; any
\* other leaves index(), and the monitor with it.
FailRollback(t) ==
  /\ Fail("rollback")
  /\ \/ /\ Go(t, "rollbackDelete", AfterDelete(t))
        /\ UNCHANGED <<monitor, sent, total>>
     \/ /\ Go(t, "rollback", "leave")
        /\ UNCHANGED <<monitor, sent, total>>
     \/ /\ Go(t, "rollbackDelete", "thrown") \/ Go(t, "rollback", "thrown")
        /\ monitor' = None
        /\ ForgetLocals(t)
  /\ damaged' = damaged \union {call[t].network}
  /\ UNCHANGED <<core, records, call, valid>>

\* The XOAI core commits by itself, every ten seconds or 10000 documents.
AutoCommit ==
  /\ Fail("autocommit")
  /\ committed # pending
  /\ committed' = pending
  /\ damaged' = damaged \union {n \in Networks : pending[n] # committed[n]}
  /\ UNCHANGED <<pending, records, monitor, step, callVars>>

Index(t) ==
  \/ Enter(t) \/ Leave(t)
  \/ SendDelete(t) \/ CommitDelete(t) \/ FailDelete(t) \/ RollbackDelete(t)
  \/ CountPages(t) \/ NoSnapshot(t) \/ SendPage(t) \/ LosePage(t)
  \/ CommitPages(t) \/ FailIndexing(t) \/ RollbackPages(t) \/ FailRollback(t)

=============================================================================
