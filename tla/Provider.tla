------------------------------ MODULE Provider ------------------------------
(***************************************************************************)
(* The OAI provider: ProviderController, LaReferenciaProvider, StateHolder *)
(* and ProviderStatsManager, serving ListRecords to harvesters while the   *)
(* backend publishes and deletes snapshots of the same database.           *)
(*                                                                         *)
(* The provider keeps nothing between two requests: the first request of a *)
(* listing looks up the snapshots and their pages, and the token carries   *)
(* them, with the place reached, to the client and back.  The lookups of   *)
(* one request are separate queries, with no transaction around them.      *)
(*                                                                         *)
(* Abstractions.  The valid records of a snapshot are its pages.  The      *)
(* query of a page has no ORDER BY; the database is taken to return the    *)
(* rows of a snapshot in one order.  The other verbs only read.  A client  *)
(* repeats a request whose answer it did not get and gives up on an error. *)
(***************************************************************************)
EXTENDS Naturals, Sequences, FiniteSets

CONSTANTS
  ByName,      \* the networks, a sequence in the order of their names
  Snapshots,   \* the snapshots there can be, numbered by their end time
  NetworkOf,   \* the network of each snapshot
  PagesOf,     \* the pages of valid records each is harvested with
  Stored,      \* the snapshots there are at the start
  Clients,
  AddressOf,   \* the address of each client
  SetsOf,      \* the sets each client asks for: networks, AllSets, or others
  AllSets,     \* no set, or the set DRIVER
  MaxChanges,  \* bound: changes the backend makes
  MaxLosses    \* bound: answers lost

Networks == {ByName[n] : n \in 1..Len(ByName)}
Addresses == {AddressOf[c] : c \in Clients}

ASSUME ProviderAssumption ==
  /\ Snapshots \subseteq Nat \ {0}
  /\ AllSets \notin Networks
  /\ ByName \in Seq(Networks)
  /\ NetworkOf \in [Snapshots -> Networks]
  /\ AddressOf \in [Clients -> Addresses]
  /\ PagesOf \in [Snapshots -> Nat]
  /\ Stored \subseteq Snapshots
  /\ MaxChanges \in Nat /\ MaxLosses \in Nat

VARIABLES
  \* the database
  published,   \* networks that are published
  harvested,   \* snapshots whose harvest has ended
  valid,       \* those of them with a row that says VALID
  pages,       \* pages of valid records of each snapshot
  requests,    \* requestCount of each address, 0 without a row
  \* the provider
  call,        \* the request of each client that is being served
  \* the clients
  token,       \* the state in the resumption token each client has
  given,       \* the pages each was given, as <<place in the token, page>>
  outcome,     \* of its listing: "open", "whole", "broken"
  changes, losses,
  \* history, read by the properties only
  accesses,    \* calls of countIPAccess that returned
  overlapped   \* addresses two of whose calls overlapped

database == <<published, harvested, valid, pages>>
client == <<token, given, outcome>>
counting == <<requests, accesses, overlapped>>
vars == <<database, counting, call, client, changes, losses>>

-----------------------------------------------------------------------------
(* StateHolder. *)

\* A token names snapshots with their pages, and a place in them.
NoState == [plan |-> <<>>, index |-> 1, page |-> 0]

\* initialize().
Initial(plan) == [plan |-> plan, index |-> 1, page |-> 0]

\* update(): past the last page of a snapshot comes the next one.
AtLastPage(s) == s.page + 1 = s.plan[s.index].pages
UpdatedKeepingPage(s) ==
  IF AtLastPage(s) /\ s.index # Len(s.plan) THEN [s EXCEPT !.index = @ + 1]
  ELSE [s EXCEPT !.page = @ + 1]
Updated(s) ==
  IF ~AtLastPage(s) THEN [s EXCEPT !.page = @ + 1]
  ELSE IF s.index # Len(s.plan) THEN [s EXCEPT !.page = 0, !.index = @ + 1]
  ELSE s
FinishedWithSnapshot(s) == AtLastPage(s)
Finished(s) == AtLastPage(s) /\ s.index = Len(s.plan)

-----------------------------------------------------------------------------
Idle == [pc |-> "idle", set |-> AllSets, seen |-> 0, rest |-> {}, found |-> 0,
         plan |-> <<>>, state |-> NoState, answer |-> "none"]

Init ==
  /\ published = Networks
  /\ harvested = Stored /\ valid = Stored
  /\ pages = [s \in Snapshots |-> IF s \in Stored THEN PagesOf[s] ELSE 0]
  /\ requests = [a \in Addresses |-> 0]
  /\ call = [c \in Clients |-> Idle]
  /\ token = [c \in Clients |-> NoState]
  /\ given = [c \in Clients |-> <<>>]
  /\ outcome = [c \in Clients |-> "open"]
  /\ changes = 0 /\ losses = 0
  /\ accesses = [a \in Addresses |-> 0]
  /\ overlapped = {}

Goes(c, pc) == call[c].pc = pc

\* The client asks for the first page, or with the token it has, and
\* countIPAccess reads the row of its address.
Ask(c) ==
  LET a == AddressOf[c]
  IN  /\ Goes(c, "idle") /\ outcome[c] = "open"
      /\ \E set \in IF token[c].plan = <<>> THEN SetsOf[c] ELSE {AllSets} :
           call' = [call EXCEPT ![c] = [Idle EXCEPT
                !.pc = "save", !.set = set, !.state = token[c], !.seen = requests[a]]]
      /\ overlapped' = IF \E d \in Clients : AddressOf[d] = a /\ Goes(d, "save")
                       THEN overlapped \union {a} ELSE overlapped
      /\ UNCHANGED <<database, requests, accesses, client, changes, losses>>

SaveStatTwice(c) ==
  /\ Goes(c, "save")
  /\ requests' = [requests EXCEPT ![AddressOf[c]] = call[c].seen + 2]
  /\ accesses' = [accesses EXCEPT ![AddressOf[c]] = @ + 1]
  /\ call' = [call EXCEPT ![c].seen = 0, ![c].pc = "networks"]
  /\ UNCHANGED <<database, overlapped, client, changes, losses>>

\* The row is saved with one request more than was read.
SaveStat(c) ==
  LET a == AddressOf[c]
  IN  /\ Goes(c, "save")
      /\ requests' = [requests EXCEPT ![a] = call[c].seen + 1]
      /\ accesses' = [accesses EXCEPT ![a] = @ + 1]
      /\ call' = [call EXCEPT ![c].seen = 0, ![c].pc =
           IF call[c].state.plan = <<>> THEN "networks" ELSE "page"]
      /\ UNCHANGED <<database, overlapped, client, changes, losses>>

SaveStatFailsFirst(c) ==
  /\ Goes(c, "save") /\ call[c].seen = 0
  /\ call' = [call EXCEPT ![c] = Idle]
  /\ UNCHANGED <<database, counting, client, changes, losses>>

\* Two first accesses insert the same row: one of them may fail, and its
\* request with it, outside of the try of defaultHandler.
SaveStatFails(c) ==
  /\ Goes(c, "save")
  /\ call[c].seen = 0 /\ requests[AddressOf[c]] # 0
  /\ call' = [call EXCEPT ![c] = Idle]
  /\ UNCHANGED <<database, counting, client, changes, losses>>

-----------------------------------------------------------------------------
(* listRecords. *)

\* The last good snapshot of a network, as the set of the rows found.
LastGoodKnown(n) ==
  {s \in valid : /\ NetworkOf[s] = n
                 /\ \A t \in valid : NetworkOf[t] = n => t <= s}

\* The networks to list, as places in ByName: the one named by the set,
\* published or not, or all published ones.
FindNetworks(c) ==
  /\ Goes(c, "networks") /\ call[c].set \in Networks \union {AllSets}
  /\ call' = [call EXCEPT ![c].pc = "snapshot",
       ![c].rest = {n \in DOMAIN ByName :
                      IF call[c].set = AllSets THEN ByName[n] \in published
                      ELSE ByName[n] = call[c].set}]
  /\ UNCHANGED <<database, counting, client, changes, losses>>

\* The set names no network.
UnknownSet(c) ==
  /\ Goes(c, "networks")
  /\ call[c].set \notin Networks \union {AllSets}
  /\ call' = [call EXCEPT ![c].pc = "answer", ![c].answer = "error"]
  /\ UNCHANGED <<database, counting, client, changes, losses>>

\* The last good snapshot of the next network.  Without a set, one whose
\* validSize is zero is passed over; validSize stays when records are deleted.
FindSnapshot(c) ==
  /\ Goes(c, "snapshot")
  /\ \E n \in call[c].rest :
       LET wanted == {s \in LastGoodKnown(ByName[n]) :
                        call[c].set = AllSets => PagesOf[s] > 0}
           left == call[c].rest \ {n}
       IN /\ \A m \in call[c].rest : n <= m
          /\ \/ /\ wanted = {}
                /\ call' = [call EXCEPT ![c].rest = left]
             \/ \E s \in wanted :
                  call' = [call EXCEPT ![c].pc = "pages", ![c].rest = left,
                                       ![c].found = s]
  /\ UNCHANGED <<database, counting, client, changes, losses>>

\* Its number of pages.
CountPages(c) ==
  /\ Goes(c, "pages")
  /\ call' = [call EXCEPT ![c].pc = "snapshot", ![c].found = 0,
       ![c].plan = Append(@, [snapshot |-> call[c].found,
                              pages |-> pages[call[c].found]])]
  /\ UNCHANGED <<database, counting, client, changes, losses>>

\* The state is initialized; with no snapshots the answer is an empty list.
Initialize(c) ==
  /\ Goes(c, "snapshot") /\ call[c].rest = {}
  /\ call' = IF call[c].plan = <<>>
             THEN [call EXCEPT ![c].pc = "answer", ![c].answer = "nothing"]
             ELSE [call EXCEPT ![c].pc = "page", ![c].plan = <<>>,
                               ![c].state = Initial(call[c].plan)]
  /\ UNCHANGED <<database, counting, client, changes, losses>>

\* The last good snapshot of the moment is read instead of the pinned one.
ReadNewestPage(c) ==
  LET s == call[c].state
      newest == LastGoodKnown(NetworkOf[s.plan[s.index].snapshot])
  IN  /\ Goes(c, "page")
      /\ call' = [call EXCEPT ![c].pc = "answer",
           ![c].answer = IF \E n \in newest : s.page < pages[n]
                         THEN "page" ELSE "error"]
      /\ UNCHANGED <<database, counting, client, changes, losses>>

\* The page of the state is read, and the state moves on.  An empty page, also
\* that of a deleted snapshot, is an error.
ReadPage(c) ==
  LET s == call[c].state
      there == s.page < pages[s.plan[s.index].snapshot]
  IN  /\ Goes(c, "page")
      /\ call' = [call EXCEPT ![c].pc = "answer",
                              ![c].answer = IF there THEN "page" ELSE "error"]
      /\ UNCHANGED <<database, counting, client, changes, losses>>

\* The answer reaches the client: a page with the updated token, or without one
\* after the last page.
Receive(c) ==
  LET s == call[c].state
  IN  /\ Goes(c, "answer")
      /\ CASE call[c].answer = "page" ->
                /\ given' = [given EXCEPT ![c] = Append(@, <<s.index, s.page>>)]
                /\ token' = [token EXCEPT ![c] = Updated(s)]
                /\ outcome' = [outcome EXCEPT ![c] =
                                 IF Finished(s) THEN "whole" ELSE "open"]
           [] call[c].answer = "nothing" ->
                outcome' = [outcome EXCEPT ![c] = "whole"] /\ UNCHANGED <<given, token>>
           [] OTHER ->
                outcome' = [outcome EXCEPT ![c] = "broken"] /\ UNCHANGED <<given, token>>
      /\ call' = [call EXCEPT ![c] = Idle]
      /\ UNCHANGED <<database, counting, changes, losses>>

LoseAnswer(c) ==
  /\ Goes(c, "answer") /\ losses < MaxLosses
  /\ losses' = losses + 1
  /\ call' = [call EXCEPT ![c] = Idle]
  /\ UNCHANGED <<database, counting, client, changes>>

-----------------------------------------------------------------------------
(* The backend. *)

Change == changes < MaxChanges /\ changes' = changes + 1
Elsewhere == UNCHANGED <<counting, call, client, losses>>

\* A harvest ends well; those of one network end one after the other.
Harvest(s) ==
  /\ Change
  /\ \A t \in harvested : NetworkOf[t] = NetworkOf[s] => t < s
  /\ harvested' = harvested \union {s}
  /\ valid' = valid \union {s}
  /\ pages' = [pages EXCEPT ![s] = PagesOf[s]]
  /\ UNCHANGED published /\ Elsewhere

\* cleanSnapshot: the records go, the row stays.
CleanSnapshot(s) ==
  /\ Change /\ s \in valid
  /\ pages' = [pages EXCEPT ![s] = 0]
  /\ UNCHANGED <<published, harvested, valid>> /\ Elsewhere

\* deleteSnapshot.
DeleteSnapshot(s) ==
  /\ Change /\ s \in valid
  /\ pages' = [pages EXCEPT ![s] = 0]
  /\ valid' = valid \ {s}
  /\ UNCHANGED <<published, harvested>> /\ Elsewhere

Publish(n) ==
  /\ Change
  /\ published' = IF n \in published THEN published \ {n} ELSE published \union {n}
  /\ UNCHANGED <<harvested, valid, pages>> /\ Elsewhere

Backend ==
  \/ \E s \in Snapshots : Harvest(s) \/ CleanSnapshot(s) \/ DeleteSnapshot(s)
  \/ \E n \in Networks : Publish(n)

\* defaultHandler, for one request.
Serve(c) ==
  \/ SaveStat(c) \/ SaveStatFails(c)
  \/ FindNetworks(c) \/ UnknownSet(c)
  \/ FindSnapshot(c) \/ CountPages(c) \/ Initialize(c) \/ ReadPage(c)

Listen(c) == Ask(c) \/ Serve(c) \/ Receive(c)
Next == Backend \/ \E c \in Clients : Listen(c) \/ LoseAnswer(c)

\* The server runs its threads, and a client goes on until its listing ends.
Spec == Init /\ [][Next]_vars /\ \A c \in Clients : WF_vars(Listen(c))

-----------------------------------------------------------------------------
(* Properties. *)

States ==
  [plan : Seq([snapshot : Snapshots, pages : Nat]), index : Nat \ {0}, page : Nat]

CallType ==
  [pc : {"idle", "save", "networks", "snapshot", "pages", "page", "answer"},
   set : {AllSets} \union UNION {SetsOf[c] : c \in Clients}, seen : Nat,
   rest : SUBSET DOMAIN ByName, found : Snapshots \union {0},
   plan : Seq([snapshot : Snapshots, pages : Nat]), state : States,
   answer : {"none", "nothing", "page", "error"}]

\* The pages a plan has for a snapshot are those it was harvested with, or
\* none, of one that was emptied.
Planned(plan) ==
  \A n \in 1..Len(plan) : plan[n].pages \in {0, PagesOf[plan[n].snapshot]}

\* A plan names snapshots that were harvested, and has no pages only for one
\* that has none any more: nothing gives an emptied snapshot its records back.
Pinned(plan) ==
  \A n \in 1..Len(plan) :
    /\ plan[n].snapshot \in harvested
    /\ plan[n].pages = 0 => pages[plan[n].snapshot] = 0

\* A state names a page of its plan; one of no pages is given up at once.
WellPlaced(s) ==
  /\ Planned(s.plan)
  /\ s.plan # <<>> =>
       s.index <= Len(s.plan) /\ (s.page # 0 => s.page < s.plan[s.index].pages)

\* Types, that no token leads past the pages of its plan, and that every plan is
\* of snapshots that were harvested.
TypeOK ==
  /\ published \subseteq Networks
  /\ valid \subseteq harvested /\ harvested \subseteq Snapshots
  /\ pages \in [Snapshots -> Nat]
  /\ \A s \in Snapshots : pages[s] \in {0, PagesOf[s]}
  /\ requests \in [Addresses -> Nat] /\ accesses \in [Addresses -> Nat]
  /\ overlapped \subseteq Addresses
  /\ call \in [Clients -> CallType]
  /\ token \in [Clients -> States]
  /\ given \in [Clients -> Seq((Nat \ {0}) \X Nat)]
  /\ outcome \in [Clients -> {"open", "whole", "broken"}]
  /\ changes \in 0..MaxChanges /\ losses \in 0..MaxLosses
  /\ \A c \in Clients :
       /\ WellPlaced(token[c]) /\ WellPlaced(call[c].state) /\ Planned(call[c].plan)
       /\ Pinned(token[c].plan) /\ Pinned(call[c].state.plan) /\ Pinned(call[c].plan)

\* The listing of a client is one of the abstract kind (LaReferenciaProvider
\* with StateHolder): pages in order, each once, none left out.
Listing(c) == INSTANCE PagedListing
  WITH plan <- token[c].plan, given <- given[c], outcome <- outcome[c]
ListsPages ==
  /\ \A c \in Clients : Listing(c)!Init
  /\ [][\A c \in Clients : [Listing(c)!Next]_(Listing(c)!vars)]_vars

\* WholeIsWhole: a listing that ended without an error has every page of valid
\* records its snapshots were harvested with, whatever was published, deleted
\* or lost meanwhile (StateHolder.update, the pinned totalPagesList).
WholeIsWhole ==
  \A c \in Clients : outcome[c] = "whole" =>
    \A n \in 1..Len(token[c].plan) :
      \A p \in 0..(PagesOf[token[c].plan[n].snapshot] - 1) :
        \E g \in 1..Len(given[c]) : given[c][g] = <<n, p>>

\* BreaksOnlyWhenEmptied: an error answers a set that is unknown, or a page of
\* a snapshot without valid records or whose records were deleted; a newer
\* snapshot or an unpublished network breaks no listing (listRecords).
BreaksOnlyWhenEmptied ==
  \A c \in Clients : Goes(c, "answer") /\ call[c].answer = "error" =>
    \/ call[c].set \notin Networks \union {AllSets}
    \/ LET s == call[c].state IN pages[s.plan[s.index].snapshot] = 0

\* RequestsAreCounted: the counter of an address has every access, unless two
\* overlapped; it never has more (countIPAccess).
RequestsAreCounted ==
  \A a \in Addresses :
    /\ requests[a] <= accesses[a]
    /\ a \notin overlapped => requests[a] = accesses[a]

\* ListingsEnd: a listing ends, with its last page or with an error, whatever
\* the backend does (the empty page that stops a state past its pages).
ListingsEnd == \A c \in Clients : (outcome[c] = "open") ~> (outcome[c] # "open")

=============================================================================
