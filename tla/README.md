# Verification of the LA Referencia harvester

TLA+ modules of `lrharvester-legacy`: its backend, its administrator's page and
its OAI provider, with the TLC configurations that check them and TLAPS proofs
about them. Paths below are relative to `src/`; **B/** stands for
`backend/src/main/java/org/lareferencia/backend/`, **P/** for
`provider/src/main/java/org/lareferencia/`, **J/** for
`backend/src/main/webapp/WEB-INF/static/js/`.

## 1. The system

The backend harvests the repositories of a set of *networks* over OAI-PMH. One
harvest of a network is a *snapshot*: a row with a status and its records. A
snapshot that ends well is sent to one or two Solr cores, and the last good
known one (LGK: status `VALID`, largest end time) is what the OAI provider
serves. Everything runs in one JVM: the workers in a scheduler pool of ten
threads, the administrator's requests in the threads of the web server, and the
database and Solr outside.

| Component | State | Operations | Talks to |
|---|---|---|---|
| OAI harvester, `B/harvester` | `stopSignalReceived`; in `harvest()`: resumption token, `batchIndex`, `actualRetry` | `harvest`, `listRecords`, `listSets`, `stop`, `reset` | the OAI server; its worker, by synchronous events |
| Snapshot worker, `B/tasks/SnapshotWorker` | in-memory snapshot and network, never read again | `run`, `stop`, `harvestingEventOccurred` | harvester, manager, snapshot table, indexers |
| Snapshot manager, `B/tasks/SnapshotManager` | map of workers by snapshot id | launch, launch set by set, relaunch, cron, `stopHarvesting`, register begin/end | workers, snapshot table |
| Snapshot table, `B/domain`, `B/repositories` | status, end time, `deleted`, counters, records | save, find, LGK query, delete | everyone |
| Indexers, `B/indexer` | one Solr client and one monitor per core | `index` (delete, commit, pages, commit, rollback) | Solr, records, called by workers |
| REST controller, `B/rest/BackEndController` | none | start, stop, index, clear, clean a snapshot, delete a network, queries | manager, indexers, database |
| Validator, transformer, `B/validator`, `B/transformer` | none; the rules of a network are its configuration | `validate`, `transform` | called for each record |
| Metadata statistics, `B/stats` | counters per field and repository | `addObservation`, `getStats` | called for each record |
| OAI provider, `P/` | none between requests; the resumption token carries the position; access counters in the database | verbs of OAI-PMH, access statistics | database |
| XOAI provider, `xoai-provider/` | a cache on disk, Solr queries | verbs of OAI-PMH | XOAI core |
| Web client, `home.jsp`, `J/backend.js`, `J/rest.js` | the links being edited, the table rows go to, the handler of a creation, all global; open dialogs | lists, forms, create, append, update, delete | REST repositories and controller, by asynchronous requests |
| Browser libraries: jQuery, jQuery UI, bootstrap, d3, ... | | ajax, dialogs | called by the client |

What is hard here:

* *Threads.* Workers, cron triggers, the administrator and the indexers'
  callers read and write the same rows, map and cores. Only scheduling, launching
  and `stopHarvesting` of `SnapshotManager` and `IndexerImpl._index` are
  synchronized; workers register and unregister themselves without a lock
  (SnapshotManager 80-86).
* *Stale state.* A worker's in-memory snapshot is written over its row at every
  status change; `cleanSnapshot` writes a whole row too.
* *Partial failure.* Requests to the OAI server, the database and Solr fail one
  by one; exceptions that leave `run()` skip all that follows.
* *Restart.* The map is in memory, the rows are not.
* *Requests that cross.* The page sends its requests without waiting, keeps what
  they are about in globals, and handles the answers as they come.
* *A conversation without memory.* The provider keeps nothing between the pages
  of a listing; the database it pages through changes meanwhile.
* *Shared commits.* Solr commits and rolls back whatever any client has sent.

What makes each component correct:

* harvester: pages in order, each handed over and none after it was accepted; a
  bounded number of requests; a stop obeyed after one batch; an end;
* manager and workers: a snapshot that says it is being worked on can be
  stopped; a published snapshot was listed to its end or accounts for why not;
* indexers: readers see a network cleared or one whole snapshot of it; a
  success is in the core; nobody waits for ever;
* batches: counters, judgements and statistics agree with the records stored,
  whatever save fails;
* clean-up: `deleteAllButLGKSnapshot` leaves the snapshot the network is published
  from and, as its comment says, "previene el borrado de harvestings en proceso"
  (BackEndController 396). The code does so by the status it read earlier, which
  leaves exceptions: the snapshot of a run whose row was read INITIALIZED, after an
  origin had failed, or between its two indexes is emptied under the worker and may
  then be published empty; and the emptied snapshot may be the published one again
  when a second index takes VALID from a later one. That nothing else is lost, and
  which rows are marked deleted, are what is checked;
* provider: pages in order and each once, a listing without an error has every
  valid record, every listing ends;
* page: a table shows what the server has, a form saves its own item, an item
  that is created joins its collection and pushes none out.

`PROJECT.json` lists the hazards with their source lines and the properties
that watch them.

## 2. Modules

| Module | Models |
|---|---|
| `PageFeed` | abstract: what a caller of `harvest()` may rely on |
| `Harvester` | `OCLCBasedHarvesterImpl`: the steps of `harvest()`, no specification of its own |
| `HarvestLoop` | the harvester alone, refining `PageFeed` |
| `SnapshotManager` | manager, workers, snapshot table; extends `Harvester` |
| `SearchIndex` | abstract: what a reader of a Solr core may rely on |
| `Indexer` | `IndexerImpl` on one core, no specification of its own |
| `Indexing` | who calls an indexer, and the deletions that interfere; extends `Indexer`, refines `SearchIndex` |
| `Metadata` | validator and transformers as operators |
| `Batches` | what a worker stores of its records, run after run, and the administrator's clean-up; extends `Metadata` |
| `Repairs` | `Batches` with the rules and transformers of `lr.validator` |
| `PagedListing` | abstract: what a harvester of the OAI provider may rely on |
| `Provider` | the OAI provider over a database the backend changes, refining `PagedListing` |
| `WebClient` | the administrator's page against the REST repositories |
| `MC...` | instances for TLC |
| `..._proofs` | theorems and their proofs |

### Harvester, HarvestLoop, PageFeed

The state is a function of the worker, since each worker's harvester is a bean
of its own. `at` is the place in `harvest()`:

| `at` | lines of OCLCBasedHarvesterImpl | actions |
|---|---|---|
| `while` | 83, the outer condition | `EnterLoop`, `LeaveLoop` |
| `request` | 86-95 and `listRecords` 152-194 | `Respond`, `FailRequest` |
| `fire` | 97-103, the OK event | `AcceptBatch`, `RejectBatch` |
| `retry` | 106-125, ERROR_RETRY, sleep, inner condition | `Retry` |
| `check` | 127-139 | `GiveUp`, `HonourStop`, `Continue` |

A resumption token is the number of the page it asks for, and `NoToken` is both
`null` and `""`, which line 83 treats alike. `batchIndex` is only compared with
zero, so `started` replaces it. `TokensOf` is the OAI server: tokens in order,
an empty one on the last page, and with `EndlessServer` a last page that may
answer with a token to itself. The seconds of the back-off are left out.
`stopSignalReceived` is a plain field in the code; the model lets the harvesting
thread see it at once, which the requests and sleeps between two reads of it
make true in practice.

`HarvestLoop` adds the callers: `reset()` and `harvest()` by the worker,
`stop()` at any moment, a listener that may throw from any OK event. The other
events (RETRY, FATAL, STOP) are fired outside the `try` that catches what OK
throws, and what they throw is `Abort` of `SnapshotManager`.

### SnapshotManager

A step of a worker is one operation on the database or the map with the
thread-local code around it; the status is the only column kept. `pc` is the
place in `run()`:

| `pc` | SnapshotWorker |
|---|---|
| `scheduled`, `resume` | 193-227: row created, or stopped row taken up |
| `load`, `register` | 233-250: beans of the network, `registerWorkerBeginSnapshot` |
| `mark`, `reset` | 252-258: status HARVESTING, `harvester.reset()` |
| `harvesting` | 260-268 and the listener, 416-583 |
| `indexing`, `startXOAI`, `indexingXOAI` | 289-337 |
| `save`, `unregister` | 353-360 |
| `dead` | an exception left `run()` |

`stopHarvesting` is three steps (`StopLooksUp`; `StopSignals`, or `StopFinds`
and `StopSaves`): it is synchronized against itself and the launches, but
neither against `registerWorkerBeginSnapshot` and `registerWorkerEndSnapshot`
(SnapshotManager 80-86) nor against the workers' writes, and the model lets
all of them come between its steps. A target is one call of
`harvest()`, for an origin or one of its sets. `Crash` is a restart: the rows
remain. `relauchHarvesting` has no caller any more (BackEndController 215-228 is
commented out) but is public; the constant `Relaunch` says whether it is called.
The result of an indexer is a choice here; `Indexing` has its reasons.
`whole`, `failed`, `lost` and `signalled` are history variables that only the
properties read.

### Indexer, Indexing, SearchIndex

`committed` is what readers of the core see, `pending` the same with what was
sent and not committed. As in Solr, a commit publishes all of `pending` and a
rollback discards all of it, whoever sent it. `step` is the place of a task's
call of `index()`:

| `step` | IndexerImpl |
|---|---|
| `waiting` | 64-70: arguments taken, monitor not entered |
| `delete`, `commitDelete`, `rollbackDelete` | `delete` 180-206 |
| `count` | 85-104: pages counted |
| `page` | 106-149: one page sent, or the commit |
| `rollback` | 151-172, `solrRollback` 209-217 |
| `leave`, `returned`, `thrown` | 81-82; an unchecked exception out of `solrRollback` |

A page is one document: page *p* of two snapshots of a network has the same
fingerprints and overwrites the other. Each request may fail, and Solr may have
done what it was asked all the same (`FailDelete`, `LosePage`, `FailIndexing`
choose). Sending a page swallows its exception; a rollback that fails is
printed, or throws. `AutoCommit` is the hard commit of the XOAI core
(`solrconfig.xml` 370-374); the other core's configuration is not in the
repository, so the module covers both.

`Indexing` starts SnapshotWorkers where `SnapshotManager` leaves them, after a
successful harvest, and lets them index their own snapshot and write the result
(SnapshotWorker 289-357). A save writes status and end time of the in-memory
row. IndexerWorkers are scheduled by the controller, look their network and the
LGK up when they run, and then wait for the monitor. The administrator's
transactions are two steps, what they read and their commit: `CleanSnapshot...`
(BackEndController 253-279, 409-417) writes the whole row as it was read,
`DeleteNetwork...` (292-315) schedules the clearing of the index *before* its
commit. After the commit the worker's next save fails, because the network its
row refers to is gone too.

`SearchIndex` has no monitor and no session. What readers see of a network is
cleared, or a cleared network gets one snapshot of it, whole unless its records
were deleted from the database meanwhile. The networks a refused request has
touched are `damaged` and exempt until the next delete of that network commits.
That exemption is the weakest one under which the code is right: a page that
Solr refuses really is skipped and the rest published.

### Metadata, Batches, Repairs

A record is a function from fields to the sequences of their occurrences. A
content rule is the set of values it accepts; what regular expressions, lengths
and vocabularies have in common. `ValidFields` is `ValidatorImpl` with the
quantifiers of `FieldValidator` (85-98), `Transform` applies the transformers in
their order, each to the fields the validation *before* all of them asked for
(TransformerImpl 51-68). The loops over occurrences and transformers are folds and a
recursive function; the module has no state.

`Batches` takes a worker through as many runs as there are snapshots. The worker
calls itself as listener, without a proxy, so that no transaction spans a batch:
each save is a step (`hand.step` says what is saved next), and any may fail and
cost the record (SnapshotWorker 528-532). `mem` is the worker's copy of its
snapshot, which every change of status writes whole (`SetStatus`, 594-601). The
administrator's clean-up is `FindLastGoodKnown` (BackEndController 387, after the
rows were read), `CleanSnapshot` for one snapshot after the other (253-273) and
`Commit`, which writes the whole rows it read with the deleted flag up. The
deletion of the records of a snapshot is visible to the worker at once, before
the commit: the model has no isolation of this transaction.

`statistics` are the totals the two managers save: observations of originals and
of transformed ones. `spoiled`, `cleaned`, `silent`, `observed` and `emptied` are history
that only the properties read. `emptied` has for each snapshot that was cleaned
which operation did it, the status its row had when the operation read it, and
whether its run was under way then: every snapshot that is emptied is in it,
whatever its status.

`Repairs` adds what `etc.lrharvester/lr.validator` configures: the rules of dc:type
and dc:date, and the transformer lists of its networks, which are `LRTransformer`:
translate the driver types, translate the statuses or add the default one, drop the
dates that are not well formed, translate fields that may be invalid. Vocabularies
and translations are files, and so constants. Of them `RepairsAssumption` says what
these files have: no driver type is a status or spelt like one, and a translated
status is a status. It says nothing of the translation of driver types, since the
Brazilian one leads outside the vocabulary. `Repairable` is what such a network
should accept, said without transformers, and `LRRepairs` that it accepts just that.

### PagedListing, Provider

`call[c]` is the request of client `c` inside the provider, with a step for each
query: the counter of its address (`Ask`, `SaveStat`, ProviderStatsManager
31-43), the networks of the set, then for each network its LGK and its number of
pages, and the page asked for. `token[c]` is what the client has:

| `StateHolder` | `token[c]` |
|---|---|
| `snapshotIdList`, `totalPagesList` | `plan`, a sequence of [snapshot, pages] |
| `actualSnapshotIndex`, `actualPage` | `index`, `page` |

`finished` and an empty list of snapshots both make the answer's token `""`, which
the client never sends back: the model has no field for it, the answer ends the
listing (`Finished` and the last steps of `Receive`).
The first request makes the plan, from separate queries; the requests after it
use what the token says (LaReferenciaProvider 187). The valid records of a
snapshot are its pages. `Harvest`, `CleanSnapshot`, `DeleteSnapshot` and
`Publish` are the backend, at any moment. An answer may be lost (`LoseAnswer`):
the client repeats its request.

`PagedListing` is the promise: the pages of a plan in order, each once, and an
end without an error only after the last. It allows an error at any time;
`BreaksOnlyWhenEmptied` says when one may come: for an unknown set, or for a
snapshot that has no valid records any more. That includes two cases an operator
should know of. A pinned snapshot that is cleaned ends the listing. And since the
LGK query does not exclude deleted rows (NetworkSnapshotRepository 34), the
cleaned LGK of *one* network ends the listing of *all* networks where it comes to
it.

### WebClient

The page's globals are `actual` (the links being edited), `dst`
(`dst_element_id`), `onCreated` (`creation_success_handler`, which `append`
assigns without `var`) and the `closures` its handlers live in; `stack` is the
modal dialogs, of which only the topmost can be clicked (jquery-ui 9521-9553).
`net` is the set of requests and answers on their way: each is served, answered,
refused or lost in any order. `CreateChild` starts the chain of `append`
(rest.js 189-223): get the collection, create the item, put the collection with
the item. `Delete` and `Unindex` are the two ways a list changes without a form.
A retrieval without an error handler takes a refusal for the entity (rest.js
98-100), so that a form is filled with nothing and the collection of an append
is taken to be empty.

The properties say what the page guarantees and their exceptions say what it
does not. `crossed`, `excused`, `contested` and `astray` record that two requests
met over one global, or that an answer was lost; the mutants show that nothing
more is excused than that.

## 3. Runs

| Run | Instance | Shows |
|---|---|---|
| `harvest_loop` | one harvester, 3 pages, 3 retries | order, no page twice, budget, stop bound, refinement of `PageFeed`, return |
| `harvest_retry` | the same | **violation**: the retry after a listener's exception asks for the next batch |
| `manager_pair` | a cron worker and a launched one, 2 snapshots, 1 exception | the map is right about every row that says HARVESTING, RETRYING or INDEXING |
| `manager_stop` | one worker, 2 targets of 2 pages, endless server, all switches, relaunch, 1 restart | what a published run has listed; a stop within a batch is obeyed; orphans can be stopped after a restart; a stop ends the run |
| `stopped_published` | one worker, 2 targets | **violation**: a stop between two batches publishes half a harvest |
| `failed_published` | one worker, 2 targets | **violation**: the error of one origin is overwritten by the next |
| `orphan_stop` | one worker, 1 exception | **violation**: a dead worker stays in the map and keeps the stop from its fallback |
| `index_sessions` | 2 networks with a snapshot each (2 and 1 pages), one IndexerWorker, 2 failures of any kind, records of one snapshot and one network deletable | nothing is left for another's commit; refinement of `SearchIndex`; every task ends |
| `index_success` | one network, one snapshot, one failure | **violation**: `index()` returns true although the pages were rolled back |
| `batches` | 6 configurations, both forms of the lists of `lr.validator` among them, 2 runs: one record of each of 30 kinds, then two of 2 kinds; 1 failed save, 1 cleaning | counters and judgements agree with the records; if `deleteAllButLGKSnapshot` emptied the snapshot the network is published from, then its row was read during its run while INITIALIZED, failed or between two indexes, or a second index took VALID from a later one; rows marked deleted are the emptied ones, unless a run and a cleaning overlapped; statistics add up over runs; the networks of `lr.validator` accept what their transformers should repair and nothing else |
| `provider_listing` | 2 networks, 3 snapshots (one network harvested again, with fewer pages), 2 clients of one address, one of which asks for an unknown set, 3 changes, 1 lost answer | refinement of `PagedListing`; a listing without an error is complete; why one breaks; counters; every listing ends |
| `web_client` | 2 networks with an origin each, room for one more network and two origins, a set, a snapshot and its log; 3 clicks that send requests, 1 failure | tables, forms and collections, and how two requests must have crossed when they are wrong |

Each violation is a finding in `PROJECT.json`, with the comment or message of the
source it contradicts. Every property of a passing run has a mutation of a
mapped definition that breaks it; the mutated form stands before the definition,
with a comment that says it is one or what is wrong with it.

### Bounds

* `LastPage`, `MaxRetries` = 3: a first, a middle and a last page, and retries
  that neither start nor exhaust the budget. The theorems hold for all values.
* `Targets` = 2 has a first and a last origin; overwriting a status needs two.
* Two workers and two snapshots: the map relates one worker to one snapshot, and
  a stale entry takes a second run of the cron bean. `RoomForSnapshot` only
  launches what finds a free identifier.
* `MaxAborts`, `MaxCrashes` = 1: an entry is orphaned by one exception, and a
  restart forgets what came before.
* `MaxFailures` = 2: a failure and the failure of its rollback, or a lost page
  and a failed commit. The theorems hold for any number.
* `Cleanable`, `Administered`: which snapshot may lose its records and which
  network the administrator indexes, clears or deletes. Without these bounds the
  instance is the same up to renaming but several times larger. Each snapshot's
  records are deleted once, since a second deletion finds none.
* `clock` counts end times per network, and only the end times of one network
  are compared. It is unbounded in the module and at most two per worker in a run.
* `Harvestable`: in the first run of `batches` every sequence of up to two types
  out of a driver type, another, a translatable one and a status; three types where
  a value is repeated, or named in two spellings, beside another; a record without a
  well-formed date, and records for the other transformers. The second run needs
  records only to tell its counters from the first one's, one of them with a fault
  that nothing repairs. Every record of the first run meets both forms of the lists
  of `lr.validator`; `Repairing` holds for all records.
  `MaxCleanings` = 1, since cleanings do not meet each other: a cleaning of all
  but the LGK already cleans several snapshots.
* `MaxChanges` = 3: a snapshot published, cleaned and deleted between two requests;
  `MaxLosses` = 1: a page asked for twice. The theorems hold for any number.
* `MaxClicks` = 3: a list or form under way, another that crosses it, and a third
  that meets what they left. Answers, refreshes and the rest of an append are
  not clicks and not bounded. The theorems hold for any number of clicks and
  failures; their invariants were tried on runs of nine clicks at random first.
* `batches` and `provider_listing` set `CHECK_DEADLOCK FALSE`: runs are used up,
  and a listing that has ended has no next request.
* The runs of workers and tasks set `CHECK_DEADLOCK FALSE` too: when all of them
  have ended and the identifiers are used up, nobody has to launch another.

### Fairness

* `HarvestLoop`: weak fairness of the steps of `harvest()`. A pool thread runs it
  to its end. A request is assumed to end: silence is cut by the read timeout
  (HarvesterVerb 218), but a server that answers 503 with a `Retry-After` for ever
  keeps its caller in the loop of HarvesterVerb 213-259, which neither the retry
  counter nor the stop flag ends; the liveness properties do not hold of such a
  server. `stop`, `reset` and calls are not fair.
* `SnapshotManager`: weak fairness of `Run(w)`. A scheduled worker gets a thread;
  launching, stopping, exceptions and restarts are not fair.
* `Indexing`: weak fairness of `Run(t)`. Weak fairness is enough for the monitor
  because each task calls `index()` once, so nobody can overtake a waiting task
  for ever. Solr is assumed to answer or to refuse: its client is created
  without timeouts (IndexerImpl 57), and a Solr that does neither blocks the
  monitor. The administrator, failures and autocommits are not fair.

* `Provider`: weak fairness of `Listen(c)`, the requests of a listing and their
  answers. A harvester that asks is served by a thread of its own and asks on
  until the token is empty; the model's clients give up only on an error. What
  the backend does and which answers are lost is not fair.
* `Batches`, `WebClient`: none; they have no liveness property.

## 4. Proofs

All theorems are `Spec => ...` for every value of the constants under the named
assumptions of the modules (`HarvesterAssumption`, `ManagerAssumption`,
`IndexerAssumption`, `IndexingAssumption`, `ProviderAssumption`,
`BatchesAssumption`, `RepairsAssumption`, `ClientAssumption`: types of the constants
and disjointness of `None`, snapshots, jobs and items; of the items of the page also that they are
stored under parents of their parent's kind, as the foreign keys of the database
have them). The prover cannot use an induction theorem of the library, since it
takes an operator as a parameter. Where a definition counts or concatenates, the
proofs use lemma `Induct` instead, which says the same of a *set* of numbers and
follows from the naturals being well founded.

**`HarvestLoop_proofs`**. `TypeCorrect` needs that `actualRetry` is below
`MaxRetries` wherever the inner loop goes on (`RetryBudget`): giving up is
decided by `==` (line 127), and a counter that passed the maximum would loop
on. `StopBound` (`OneBatchAfterStop`) keeps, besides the count, at which points a
batch can still come (`StopInv`). `TokenInvariant` is inductive with the types;
`NoPageTwice` and the refinement `ImplementsFeed` follow from it.
`RequestBound` counts: requests so far plus the retries left for the current
page are at most `MaxRetries` per page (`RequestInv`). The theorems on tokens
assume a listing that ends (`EndlessServer = FALSE`); on one that does not, they
are false of any harvester.

**`SnapshotManager_proofs`**. `TypeCorrect` carries the retry budget and the
place of the harvester in its run (`HarvesterInv`). `StopFinding`
(`StopFindsWorker`) is by `IInv`: only relaunched beans take up a snapshot
(`ModeInv`), rows about to be overwritten by a stop had been marked by a worker
(`RowInv`), and a snapshot that was not taken up has one worker, which is
registered from before the row first says so (`OwnerInv`). The last part is what
the order of lines 250-253 and 353-360 buys. `RegistryTheorem` is the converse:
an entry names a worker at work unless an exception ended it.

How a run may end is by `OutcomeInv`, for
each worker: the flag of a harvester is up only if a stop came after its last
reset (`FlagInv`); after a stop within a batch the worker's status is an
unsuccessful one from the moment it leaves the batch (`ObeyInv`), whence
`Obedience` (`StopWithinBatchIsObeyed`); and each target so far has been listed to
its end or given up, the status still telling if the last one was (`AccountInv`),
whence `Accounting` (`SuccessIsAccountedFor`). `OrphanStopping`
(`OrphanCanBeStopped`) assumes that no exception ends a run (`MaxAborts = 0`) and
follows from `RegistryTheorem`: no registration is lost then, so an entry always
names a worker at work.

**`Indexing_proofs`**. The steps of the composed system are first reduced to what
they do to the core (`StepOfIndexer`): a step of a call, a new call, an
autocommit, a loss of records, or nothing. `TypeCorrect` includes `PagesCounted`:
while a call sends pages it has sent no more than it counted, and it has sent none
before it counts (lemma `PagesStep`). The invariant `IInv` has four parts.
`MonitorInv`: the tasks inside `_index` are the one that owns the monitor.
`CallInv`: the arguments of a call fit together. `CleanInv`: `pending` and
`committed` agree on a network unless it is damaged or a call for it stands
between sending and committing. `ProgressInv`: what a call has sent so far is a
prefix of its snapshot's pages, above a cleared network. `SolrLeftClean`
(`NothingLeftPending`) follows from the first and third, and
`ImplementsSearchIndex` (`PublishesSnapshots`) maps each step to one of the
abstract index or to a stutter: the commit of a session publishes its own
network and, by `CleanInv`, nothing of any other that readers would notice.

**`Provider_proofs`**. All five safety properties of the run, for any networks,
snapshots, clients and number of changes and losses. `TypeCorrect` includes `Pinned`: a
plan names harvested snapshots with the pages they were harvested with, or with
none if they had been emptied: a plan is made by separate queries, and this is
all that survives of them. `RequestCounting` counts, for each address without an
overlap, the one call between reading and saving (`CountInv`). `BreakReasons`
needs that a page asked for is a page of the plan (`BreakInv`). For the
refinement, `PlaceInv` relates what a client was given to the place in its token:
the last page given is the one before the place, and while a call is under way
the client's token is still the one it sent, whence a repeated request gives the
same page. `Completeness` adds that everything before that place has been given
(`CoverInv`).

**`Batches_proofs`**. The base invariant `BInv` has the types of rows and copies,
the shape of the record in hand (`HandOK`), what the administrator's transaction
has read (`AdminOK`), and `PlacesOK`: rows and results of the current run carry
numbers up to its counter, and the number of a record not yet saved is free.
`Sizes` (`SizesAddUp`) is by `SizesInv`: the counters in memory are ahead of the
rows stored by exactly the record in hand, or by more once a record was lost or
the snapshot cleaned. `Judging` (`RowsAreJudgedAsPublished`) is by `JudgedInv`: of
the record in hand, what has been told is its faults without those still unsaved.
`Marking` (`MarkedMeansEmptied`) is by `MarkInv`, which says the property of the
rows (`RowsMarked`) and of the copies the administrator's transaction holds
(`ReadingsMarked`): a copy that was read after its run was over is and remains what
the row says, since only the worker of a run writes its row, so writing it back
loses nothing; a copy of a run under way is one of an overlap as soon as its
snapshot is cleaned. `Emptied` says that what was cleaned stays empty. The types of
what the transformers return are not among these facts, and none of the three
needs them.

**`BatchRuns_proofs`**. The rest of `Batches`, across runs. `Publishing`
(`LastGoodSurvives`) is by `PublishedInv`, over `MarkInv`: everything that was
emptied as excess is `Justified` in one of three ways. A snapshot whose row was read
VALID, its run over or without a second index, is there because the query found a
later one VALID: it is `Outgrown`, by a run whose row is and will be one of an
outcome (`Settled`), and so VALID but for a second index. One of a run that ended
otherwise will `Never` be VALID: no worker and no copy the transaction holds will
write it. What is left was read during its run (`Premature`), INITIALIZED, with a
failed origin or between two indexes. The first two ways exclude that the network is
published from the snapshot, but for the second index of a later one; the third does
not, and is the other exception of the property. `Typing`
(`TypeOK`) is by `TypeInv`, which adds that the counters of every row, copy and
row read are in order. A sequence of transformers is a fold, and `TransformTurns` takes
it apart: there is a history of the record, turn by turn (`AfterTurn`), whose last
entry is the result. `Accumulating` (`StatisticsAccumulate`) is by
`StatisticsInv`: what the managers hold is the sum of the originals of every run
so far, never reset, so what is saved for a run is a sum over all of them.

**`Repairs_proofs`**. `Repairing` (`LRRepairs`): for any vocabularies, translations
and records, and for both forms of the lists, a record is judged VALID exactly when
it is `Repairable`. The state has little part in it: the record in hand is one the
worker has examined (`HandExamined`). What is proved is what the transformers
compute. The two loops over occurrences are taken apart like the one over
transformers (`OnlyTurns`, `WithoutDuplicatesTurns`), whence what they keep
(`OnlyKeeps`, `WithoutDuplicatesKeeps`). `LRTransforms` follows the record through
the list: none of the turns fails, the types are `StatusNamed(DriverNamed(types))`
where they were not valid as they came, the dates those that are well formed, and
the other transformers, however many, leave types, dates and the fields that must be
valid alone. `TypesRepaired` counts: the driver transformer drops repetitions, so
after it each value occurs once; the status transformer touches no driver type, and
adds the default only if no status is left, which is why naming no status is
repaired and naming two is not. The counting needs exactly the disjointness that
`RepairsAssumption` states. `Keeping` adds that the transformers of `lr.validator`
cost no record: TransformerImpl throws for a field that nobody validates (59-63),
and they transform none.

**`WebClient_proofs`**. All five properties of the run, for any items and any number
of clicks, requests, failures and appends.

* `TypeCorrect`: `TypeInv` gives each request the shape its operation has
  (`AsksOK`) and each answer the one its request allows (`AnswerOK`). A list
  dialog is open only if something was clicked for it (`StackOK`), and a closure's
  link is an item of the parent's kind.
* `OwnContents` (`OwnContent`): an edit goes by the item clicked last. The
  invariant `OwnData(k)` says of each kind without a crossing that every form on
  its way, the form that is open and every save on its way are of the item in
  `actual[k]`. It needs the order of the dialogs (`OrderInv`): a modal dialog keeps
  rows of the kind under it from being clicked while the form is open, and a row in
  a wrong table does not, whence `astray`.
* `RelationsKept` and `CreatedJoin`: `append` reads a collection, creates, and
  writes the whole collection back. `ChainInv`: all requests of appends are one
  chain of one closure, or all are about contested collections. `ClaimInv`: what a
  closure has read is still where it read it, or on a contested collection;
  `NewInv`: what is created and not related is in no collection and in nobody's
  closure; `WholeInv`: what will be written lacks nothing of a collection that is
  not contested. Hence nobody is taken out. `JoinInv`, with `HomeInv` and
  `MeantInv`, follows a new item: it is in its collection, or an answer or request
  on its way carries it there.
* `QuietTables` (`QuietTablesAreFresh`): `GateInv` says that the answer of a load
  that overlaps no other goes to its own table. `FreshInv`, for each such table in
  view: without a load under way it shows its list, or is `Outdated`, which means
  that an answer which reloads it is there already, or that its item is gone; with
  one, it is empty and the answer is that list or outdated. The empty table is what
  d3's join needs, since it keeps the rows that are there. That a change reaches
  only lists that its answer outdates (`ServedChildren`) needs `OneInv`: an item
  is never in two collections, so that writing one back takes nothing from
  another.

`QuietStep`, `Served`, `TableLoads` and `Calm` describe the steps of the page as far
as one concern can tell; `AppendShapes` and `TableCases` show that there are no
others.

**Only model-checked**: all liveness (`HarvestReturns`, `StopEndsRun`,
`EveryTaskEnds`, `ListingsEnd`), since TLAPS proves no liveness under fairness. Every
invariant and action property of the passing runs is stated by a theorem. `OrphanCanBeStopped` is false with exceptions, as the run
`orphan_stop` shows.

## 5. Plan

1. *Done*: harvester, manager and workers, indexers; batches with validator,
   transformers, statistics and clean-up; provider; page. Theorems about all of
   them, down to the last safety property.
2. *Left*: the 503 loop of HarvesterVerb as steps of `Harvester`; two snapshots per
   network in the instance of `Indexing`; what the transformers of `nn.validator`,
   which rename and cross fields, accept.

## 6. Observations

Met while modelling, kept in the models as the code has them, and without a run
of their own:

* With validation off no record is stored at all, since only validated ones reach
  the save, though the comment at SnapshotWorker 521-523 says "Si no se valida
  entonces todo puesto para publicación". (`Batches`, without validation.)
* A published network with both indexings off ends its run with the status
  HARVESTING: only one that is not published is marked VALID there
  (SnapshotWorker 341-345), though the comment at 342 names both. A stop takes
  such a snapshot for a run in progress.
* The comment at BackEndController 396 says that the condition "previene el borrado
  de harvestings en proceso", and what the administrator asks for is to keep the last
  good known snapshot. Two sequences show otherwise; both are exceptions
  `LastGoodSurvives` states, and the module has every step of them.
  *Emptied while it runs*: the network is published with both indexes. The
  controller looks for the snapshots to delete while the row of the running one says
  VALID or INDEXING_FINISHED_ERROR after its first index, INITIALIZED, or
  HARVESTING_FINISHED_ERROR between two origins (the last two with any switches). The
  status is not among the three that are protected, the query finds an older LGK or
  none (for a row that was read VALID, after the worker went on to INDEXING), and the
  snapshot is emptied under its worker. The run ends VALID: the network is published from a snapshot with no
  records, or with those that came after, and the older LGK may have been emptied
  before. *Demoted afterwards*: a failure of the XOAI index takes VALID from a
  snapshot that had it after the first index; if the others were emptied in between,
  because this one was the LGK, the network is left with an emptied one.
* Duplicates removed by a content translation and a default set by a cross
  translation are not reported as a change, so such a record is not counted as
  transformed.
* The query for a page of the provider has no ORDER BY; the pages of a listing are
  a partition of the records only if the database returns them in one order.
* The provider counts an access outside the `try` that turns exceptions into OAI
  errors (ProviderController 130), and shares `SimpleDateFormat` objects between
  threads (64; LaReferenciaProvider 45).

* On the page, a list that overlaps another may end in a table of another kind,
  also in one that lies under an open edit form. A row clicked there opens the
  form of its own kind again, and a save under it goes to the item clicked last.
  This takes about seven clicks, more than the run `web_client` has; the proof of
  `OwnContents` met it, and `astray` excuses it in the property.

## 7. Not modelled

* Parsing of OAI-PMH answers, dates and XML; the stylesheets of the indexers;
  the harvest log; the names appended to dc:source.
* Both cores in one model: `SnapshotManager` and `Batches` have the two calls in
  order and the overwritten result, `Indexing` has one core with its failures.
* The verbs of the provider other than ListRecords: they read one row, or the
  same pages without their metadata.
* The XOAI provider: DSpace's OAI module over the XOAI core, with no state but a
  cache of answers on disk.
* Of the page, the difference between the two lists of snapshots (all of them, or
  the LGK only): both are one list of the server here, with the same handlers. Also the
  buttons that only send a command and alert its answer, and the
  charts.
* Browser libraries. Nearly all JavaScript in the repository is third-party code
  shipped with the pages (jQuery, jQuery UI, bootstrap, require, when: some
  32000 lines against 900 in `backend.js` and `rest.js`). Of it only what the
  pages rely on is modelled: when an ajax request counts as a success, and which
  dialog can be clicked. The rest is not this program's logic, and a share of
  JavaScript lines says little about what is modelled of the system, which is
  written in Java.
* Build files, stylesheets, database scripts.
