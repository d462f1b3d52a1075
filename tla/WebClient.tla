------------------------------ MODULE WebClient ------------------------------
(***************************************************************************)
(* The administrator's page: home.jsp, backend.js and rest.js, on jQuery's *)
(* ajax and the modal dialogs of jQuery UI, against the REST repositories. *)
(*                                                                         *)
(* Every list, form and change is an asynchronous request.  Requests are   *)
(* served in any order and answered in any order, may be refused, and may  *)
(* be carried out although their answer is lost.  Between a click and its  *)
(* answer the page remembers what it is about in global variables, which   *)
(* the next click overwrites: the link of the item being edited, the table *)
(* that the next rows go to, and the handler of an item's creation.        *)
(*                                                                         *)
(* Abstractions.  An entity is an item; of its data only whose they are is *)
(* kept.  Wording, columns and alerts are left out, and so are the buttons *)
(* that only send a command (start, stop, index, clean): their answers are *)
(* alerts.  Loading the page again starts from Init.                       *)
(***************************************************************************)
EXTENDS Naturals, Sequences, FiniteSets, SequencesExt

CONSTANTS
  Order,        \* every item there can be, in the order the server lists them
  KindOf,       \* the kind of each item
  FirstParent,  \* the parent of each item stored at the start, or None
  Stored,       \* the items stored at the start
  None,         \* no item
  Blank,        \* the data of an empty form
  MaxClicks,    \* bound: clicks that send a request
  MaxFailures   \* bound: requests that fail or whose answer is lost

Items == {Order[n] : n \in 1..Len(Order)}
Kinds == {"network", "origin", "set", "snapshot", "log"}
Edited == {"network", "origin", "set"}

\* What each kind is listed under; all networks are listed together.
ParentKind ==
  [network |-> None, origin |-> "network", snapshot |-> "network",
   set |-> "origin", log |-> "snapshot"]

ASSUME ClientAssumption ==
  /\ Order \in Seq(Items)
  /\ KindOf \in [Items -> Kinds]
  /\ Stored \subseteq Items
  /\ FirstParent \in [Items -> Stored \union {None}]
  /\ \A i \in Items \ Stored : FirstParent[i] = None
  /\ \A i \in Items : FirstParent[i] # None =>
                        KindOf[FirstParent[i]] = ParentKind[KindOf[i]]
  /\ None \notin Items \union Kinds
  /\ Blank \notin Items \union {None}
  /\ MaxClicks \in Nat /\ MaxFailures \in Nat

VARIABLES
  \* the server
  status,      \* "free", "live" or "gone", for each item
  parent,      \* the item it is related to: the foreign key of its row
  content,     \* whose data its row has
  \* the page
  actual,      \* actual_network_link, actual_origin_link, actual_set_link
  dst,         \* dst_element_id
  rows,        \* what each table shows
  form,        \* whose data each edit form shows
  stack,       \* the open dialogs, the topmost one last
  onCreated,   \* creation_success_handler: an index of closures
  closures,    \* what each call of append() has in its closure
  \* in between
  net,         \* requests sent and answers not yet handled
  clicks, failures,
  \* history, read by the properties only
  opened,      \* the parent whose list the administrator last opened
  home,        \* the collection each created item was meant for
  excused,     \* tables whose load overlapped another, or failed
  crossed,     \* kinds whose edit overlapped another click, or failed
  contested,   \* collections of appends that overlapped, or failed
  astray       \* a row was clicked in a table of another kind

server == <<status, parent, content>>
page == <<actual, dst, rows, form, stack, onCreated, closures>>
history == <<opened, home, excused, crossed, contested, astray>>
vars == <<server, page, net, clicks, failures, history>>

\* Some of the items, in the order the server lists them.
Listed(S) ==
  LET listed[n \in 0..Len(Order)] ==
        IF n = 0 THEN <<>>
        ELSE listed[n - 1] \o (IF Order[n] \in S THEN <<Order[n]>> ELSE <<>>)
  IN  listed[Len(Order)]

Dialogs == ({"list"} \X (Kinds \ {"network"})) \union ({"edit", "create"} \X Edited)

Init ==
  /\ status = [i \in Items |-> IF i \in Stored THEN "live" ELSE "free"]
  /\ parent = FirstParent
  /\ content = [i \in Items |-> i]
  /\ actual = [k \in Edited |-> None]
  /\ dst = "network"
  /\ rows = [k \in Kinds |->
       IF k = "network" THEN Listed({i \in Stored : KindOf[i] = k}) ELSE <<>>]
  /\ form = [k \in Edited |-> Blank]
  /\ stack = <<>>
  /\ onCreated = 0
  /\ closures = <<>>
  /\ net = {}
  /\ clicks = 0 /\ failures = 0
  /\ opened = [k \in Kinds |-> None]
  /\ home = FirstParent
  /\ excused = {} /\ crossed = {} /\ contested = {} /\ astray = FALSE

-----------------------------------------------------------------------------
(* Requests and answers. *)

FreshId == CHOOSE n \in 1..(Cardinality(net) + 1) : \A r \in net : r.id # n

\* A request: what is done to which link with which body, and the append()
\* whose closure or handler its answer belongs to.
Request(op, kind, link, body, then) ==
  [id |-> FreshId, op |-> op, kind |-> kind, link |-> link, body |-> body,
   then |-> then, code |-> 0, data |-> <<>>, format |-> "none"]

Waiting(r) == r.code = 0
InFlight(op) == {r \in net : r.op = op}

\* done() of jQuery's ajax: the success handler runs for a status of success
\* whose body converts to what was asked for.  Everything but the relation
\* asks for JSON, which neither an empty body nor a text is.
Succeeds(r) ==
  /\ r.code \in {200, 201, 204}
  /\ r.code = 204 \/ r.op = "relate" \/ r.format = "json"

-----------------------------------------------------------------------------
(* The server. *)

Live(i) == i \in Items /\ status[i] = "live"
Children(k, p) ==
  Listed({i \in Items : status[i] = "live" /\ KindOf[i] = k /\ parent[i] = p})

\* What is deleted with an item: what is related to it, and to that in turn.
Family(i) ==
  LET Below(S) == S \union {j \in Items : parent[j] \in S}
  IN  Below(Below(Below({i})))

Unused(k) == Listed({i \in Items : status[i] = "free" /\ KindOf[i] = k})

\* Whether the server carries the request out.  A list of links with a link to
\* nothing is refused; the searches for snapshots and logs find none.
Accepts(r) ==
  CASE r.op \in {"edit", "update", "destroy"} -> Live(r.link)
    [] r.op \in {"list", "collect"} -> r.kind \in {"origin", "set"} => Live(r.link)
    [] r.op = "create" -> Unused(r.kind) # <<>>
    [] r.op = "unindex" -> TRUE
    [] r.op = "relate" -> Live(r.link) /\ \A n \in 1..Len(r.body) : Live(r.body[n])

\* What it does to the rows.
Effect(r) ==
  /\ status' = CASE r.op = "destroy" -> [i \in Items |->
                      IF i \in Family(r.link) /\ Live(i) THEN "gone" ELSE status[i]]
                 [] r.op = "create" -> [status EXCEPT ![Head(Unused(r.kind))] = "live"]
                 [] OTHER -> status
  /\ parent' = IF r.op # "relate" THEN parent ELSE [i \in Items |->
                 IF \E n \in 1..Len(r.body) : r.body[n] = i THEN r.link
                 ELSE IF parent[i] = r.link /\ KindOf[i] = r.kind THEN None
                 ELSE parent[i]]
  /\ content' = IF r.op = "update" THEN [content EXCEPT ![r.link] = r.body[1]]
                                   ELSE content
  /\ home' = IF r.op = "create" THEN [home EXCEPT ![Head(Unused(r.kind))] = r.link]
                                ELSE home

\* What it answers.  A new item is answered with its Location, and with or
\* without the item itself; deleting a network is a command, answered by text.
Replies(r) ==
  LET Reply(code, data, format) == [code |-> code, data |-> data, format |-> format]
  IN  CASE r.op \in {"list", "collect"} -> {Reply(200, Children(r.kind, r.link), "json")}
        [] r.op = "edit" -> {Reply(200, <<content[r.link]>>, "json")}
        [] r.op = "create" ->
             {Reply(201, <<Head(Unused(r.kind))>>, format) : format \in {"none", "json"}}
        [] r.op = "unindex" \/ (r.op = "destroy" /\ r.kind = "network") -> {Reply(200, <<>>, "text")}
        [] OTHER -> {Reply(204, <<>>, "none")}

Answer(r, reply) ==
  net' = (net \ {r}) \union
    {[r EXCEPT !.code = reply.code, !.data = reply.data, !.format = reply.format]}

Failure == [code |-> 500, data |-> <<>>, format |-> "none"]

Serve(r) ==
  /\ Waiting(r)
  /\ IF Accepts(r)
     THEN Effect(r) /\ \E reply \in Replies(r) : Answer(r, reply)
     ELSE Answer(r, Failure) /\ UNCHANGED <<server, home>>
  /\ UNCHANGED <<page, clicks, failures, opened, excused, crossed, contested, astray>>

\* The collections the append() of a request is about.
Appended(r) == IF r.then = 0 THEN {} ELSE {closures[r.then].link, closures[r.then].meant}

\* The request fails, or is carried out and its answer is lost.
Fail(r) ==
  /\ Waiting(r) /\ failures < MaxFailures
  /\ failures' = failures + 1
  /\ Answer(r, Failure)
  /\ \/ UNCHANGED <<server, home>>
     \/ Accepts(r) /\ Effect(r)
  /\ contested' = contested \union Appended(r)
  /\ UNCHANGED <<page, clicks, opened, excused, crossed, astray>>

-----------------------------------------------------------------------------
(* Tables, dialogs and forms. *)

\* The modal dialogs of jQuery UI: one that is open already moves to the top,
\* and only what is on top can be clicked.
Close(d) ==
  IF \E n \in 1..Len(stack) : stack[n] = d
  THEN RemoveAt(stack, CHOOSE n \in 1..Len(stack) : stack[n] = d)
  ELSE stack
OpenAgain(d) == Append(stack, d)
Open(d) == Append(Close(d), d)
OnTop(d) == stack # <<>> /\ stack[Len(stack)] = d
Clickable(t) == IF t = "network" THEN stack = <<>> ELSE OnTop(<<"list", t>>)

\* load...List: the global names the table, its rows go at once, and the
\* request is sent.
Load(t, p, rest) ==
  /\ dst' = t
  /\ rows' = [rows EXCEPT ![t] = <<>>]
  /\ net' = rest \union {Request("list", t, p, <<>>, 0)}
  /\ excused' = LET others == {r.kind : r \in {q \in rest : q.op = "list"}}
                IN  IF others = {} THEN excused \ {t}
                    ELSE excused \union others \union {t}

\* d3's data join: the rows a table has keep what they show, and only the
\* data beyond them enter as new ones.
Joined(shown, data) == shown \o SubSeq(data, Len(shown) + 1, Len(data))

\* A click that changes a link while an edit of its kind is asked for.
Crossing(k) ==
  crossed' = IF \E r \in InFlight("edit") : r.kind = k THEN crossed \union {k}
                                                      ELSE crossed
Click == clicks < MaxClicks /\ clicks' = clicks + 1

\* The row of an item has the buttons of its kind, in whichever table it is.
Shown(i) == \E t \in Kinds :
  /\ Clickable(t)
  /\ \E n \in 1..Len(rows[t]) : rows[t][n] = i
  /\ astray' = (astray \/ KindOf[i] # t)

\* editOrigins, showSets, showSnapshots.
OpenList(i, t) ==
  /\ Click /\ Shown(i)
  /\ t \in {"origin", "set", "snapshot"} /\ ParentKind[t] = KindOf[i]
  /\ actual' = [actual EXCEPT ![KindOf[i]] = i]
  /\ Load(t, i, net)
  /\ stack' = Open(<<"list", t>>)
  /\ opened' = [opened EXCEPT ![t] = i]
  /\ Crossing(KindOf[i])
  /\ UNCHANGED <<server, form, onCreated, closures, failures, home, contested>>

\* openSnapshotLog: the dialog opens with the answer.
OpenLog(i) ==
  /\ Click /\ Shown(i) /\ KindOf[i] = "snapshot"
  /\ Load("log", i, net)
  /\ opened' = [opened EXCEPT !["log"] = i]
  /\ UNCHANGED <<server, actual, form, stack, onCreated, closures, failures,
                 home, crossed, contested>>

\* "Recargar" of the snapshots.
ReloadSnapshots ==
  /\ Click /\ OnTop(<<"list", "snapshot">>)
  /\ Load("snapshot", actual["network"], net)
  /\ UNCHANGED <<server, actual, form, stack, onCreated, closures, failures,
                 opened, home, crossed, contested, astray>>

OpenEditUnmarked(i) ==
  /\ Click /\ Shown(i) /\ KindOf[i] \in Edited
  /\ net' = net \union {Request("edit", KindOf[i], i, <<>>, 0)}
  /\ Crossing(KindOf[i])
  /\ UNCHANGED <<server, page, failures, opened, home, excused, contested>>

\* editNetwork, openEditOrigin, openEditSet.
OpenEdit(i) ==
  /\ Click /\ Shown(i) /\ KindOf[i] \in Edited
  /\ actual' = [actual EXCEPT ![KindOf[i]] = i]
  /\ net' = net \union {Request("edit", KindOf[i], i, <<>>, 0)}
  /\ Crossing(KindOf[i])
  /\ UNCHANGED <<server, dst, rows, form, stack, onCreated, closures, failures,
                 opened, home, excused, contested>>

\* updateNetwork, updateOrigin, updateSet.
SaveEdit(k) ==
  /\ Click /\ OnTop(<<"edit", k>>)
  /\ net' = net \union {Request("update", k, actual[k], <<form[k]>>, 0)}
  /\ stack' = Close(<<"edit", k>>)
  /\ UNCHANGED <<server, actual, dst, rows, form, onCreated, closures, failures, history>>

\* openCreateNetwork, openCreateOrigin, openCreateSet.
OpenCreate(k) ==
  /\ k \in Edited /\ Clickable(k)
  /\ stack' = Open(<<"create", k>>)
  /\ UNCHANGED <<server, actual, dst, rows, form, onCreated, closures, net,
                 clicks, failures, history>>

\* createNetwork.
CreateNetwork ==
  /\ Click /\ OnTop(<<"create", "network">>)
  /\ net' = net \union {Request("create", "network", None, <<>>, 0)}
  /\ stack' = Close(<<"create", "network">>)
  /\ UNCHANGED <<server, actual, dst, rows, form, onCreated, closures, failures, history>>

Appends == {r \in net : r.then # 0}

\* createOrigin, createSet: append() asks for the collection, and leaves the
\* handler of the creation in a global variable.
CreateChild(k) ==
  LET collection == actual[ParentKind[k]]
  IN  /\ Click /\ k \in {"origin", "set"} /\ OnTop(<<"create", k>>)
      /\ closures' = Append(closures,
           [kind |-> k, link |-> collection, meant |-> opened[k], items |-> <<>>])
      /\ onCreated' = Len(closures')
      /\ net' = net \union {Request("collect", k, collection, <<>>, Len(closures'))}
      /\ stack' = Close(<<"create", k>>)
      /\ contested' = IF Appends = {} THEN contested
                      ELSE contested \union {collection, opened[k]} \union
                           UNION {Appended(r) : r \in Appends}
      /\ UNCHANGED <<server, actual, dst, rows, form, failures, opened, home,
                     excused, crossed, astray>>

\* deleteOrigin, deleteSet, and deleteNetwork with its confirmation.
Delete(i) ==
  /\ Click /\ Shown(i) /\ KindOf[i] \in Edited
  /\ net' = net \union {Request("destroy", KindOf[i], i, <<>>, 0)}
  /\ UNCHANGED <<server, page, failures, opened, home, excused, crossed, contested>>

\* deleteNetworkFromIndex, deleteNetworkFromXOAIIndex: no row changes.
Unindex(i) ==
  /\ Click /\ Shown(i) /\ KindOf[i] = "network"
  /\ net' = net \union {Request("unindex", "network", i, <<>>, 0)}
  /\ UNCHANGED <<server, page, failures, opened, home, excused, crossed, contested>>

CloseTop ==
  /\ stack # <<>>
  /\ stack' = Close(stack[Len(stack)])
  /\ UNCHANGED <<server, actual, dst, rows, form, onCreated, closures, net,
                 clicks, failures, history>>

-----------------------------------------------------------------------------
(* Handlers of answers. *)

Answered(r, op) == r.op = op /\ ~Waiting(r)

\* refreshNetworks, refreshOrigins, refreshSets, when the answer r is handled.
Refresh(k, r) ==
  Load(k, IF k = "network" THEN None ELSE actual[ParentKind[k]], net \ {r})
NoRefresh(r) == net' = net \ {r} /\ UNCHANGED <<dst, rows, excused>>

\* The rows go to the table the global names now.
ListArrives(r) ==
  /\ Answered(r, "list")
  /\ net' = net \ {r}
  /\ IF Succeeds(r)
     THEN /\ rows' = [rows EXCEPT ![dst] = Joined(@, r.data)]
          /\ stack' = IF r.kind = "log" THEN Open(<<"list", "log">>) ELSE stack
          /\ UNCHANGED excused
     ELSE /\ excused' = excused \union {r.kind}
          /\ UNCHANGED <<rows, stack>>
  /\ UNCHANGED <<server, actual, dst, form, onCreated, closures, clicks, failures,
                 opened, home, crossed, contested, astray>>

\* Without an error handler of its own, retrieve() takes the refusal for the
\* entity: the forms of origins and sets open empty.
FormArrives(r) ==
  /\ Answered(r, "edit")
  /\ net' = net \ {r}
  /\ \/ /\ Succeeds(r)
        /\ form' = [form EXCEPT ![r.kind] = r.data[1]]
        /\ stack' = Open(<<"edit", r.kind>>)
        /\ UNCHANGED crossed
     \/ /\ ~Succeeds(r) /\ r.kind # "network"
        /\ form' = [form EXCEPT ![r.kind] = Blank]
        /\ stack' = Open(<<"edit", r.kind>>)
        /\ crossed' = crossed \union {r.kind}
     \/ /\ ~Succeeds(r) /\ r.kind = "network"
        /\ UNCHANGED <<form, stack, crossed>>
  /\ UNCHANGED <<server, actual, dst, rows, onCreated, closures, clicks, failures,
                 opened, home, excused, contested, astray>>

\* updateNetwork and updateSet refresh in any case, updateOrigin on success.
Updated(r) ==
  /\ Answered(r, "update")
  /\ IF Succeeds(r) \/ r.kind # "origin" THEN Refresh(r.kind, r) ELSE NoRefresh(r)
  /\ UNCHANGED <<server, actual, form, stack, onCreated, closures, clicks, failures,
                 opened, home, crossed, contested, astray>>

DeletedUnrefreshed(r) ==
  /\ Answered(r, "destroy") \/ Answered(r, "unindex")
  /\ NoRefresh(r)
  /\ UNCHANGED <<server, actual, form, stack, onCreated, closures, clicks, failures,
                 opened, home, crossed, contested, astray>>

\* The commands on a network answer with text, which is an error to jQuery;
\* their only handler takes it.
Deleted(r) ==
  /\ Answered(r, "destroy") \/ Answered(r, "unindex")
  /\ IF Succeeds(r) \/ r.kind = "network" THEN Refresh(r.kind, r)
     ELSE /\ net' = net \ {r} /\ excused' = excused \union {r.kind}
          /\ UNCHANGED <<dst, rows>>
  /\ UNCHANGED <<server, actual, form, stack, onCreated, closures, clicks, failures,
                 opened, home, crossed, contested, astray>>

CollectionForgotten(r) ==
  /\ Answered(r, "collect")
  /\ net' = (net \ {r}) \union
       {Request("create", r.kind, closures[r.then].meant, <<>>, onCreated)}
  /\ UNCHANGED <<server, page, clicks, failures, history>>

\* retrieve_success_handler of append(), on both outcomes: what a refusal was
\* about is taken for an empty collection.
CollectionArrives(r) ==
  LET a == r.then
  IN  /\ Answered(r, "collect")
      /\ closures' = [closures EXCEPT ![a].items = @ \o (IF Succeeds(r) THEN r.data ELSE <<>>)]
      /\ net' = (net \ {r}) \union
           {Request("create", closures[a].kind, closures[a].meant, <<>>, onCreated)}
      /\ contested' = IF Succeeds(r) THEN contested ELSE contested \union Appended(r)
      /\ UNCHANGED <<server, actual, dst, rows, form, stack, onCreated, clicks,
                     failures, opened, home, excused, crossed, astray>>

NetworkCreated(r) ==
  /\ Answered(r, "create") /\ r.then = 0
  /\ Refresh("network", r)
  /\ UNCHANGED <<server, actual, form, stack, onCreated, closures, clicks, failures,
                 opened, home, crossed, contested, astray>>

ChildCreatedUnrelated(r) ==
  /\ Answered(r, "create") /\ r.then # 0
  /\ net' = net \ {r}
  /\ UNCHANGED <<server, page, clicks, failures, history>>

\* creation_success_handler reads a header of its argument, which an error
\* handler gets and a success handler does not: an answer with a body ends the
\* append here.  A refusal has no Location, and null goes to the list of links.
ChildCreated(r) ==
  /\ Answered(r, "create") /\ r.then # 0
  /\ net' = (net \ {r}) \union
       (IF Succeeds(r) THEN {}
        ELSE {Request("relate", closures[r.then].kind, closures[r.then].link,
                      closures[r.then].items \o (IF r.code = 201 THEN r.data ELSE <<None>>),
                      r.then)})
  /\ contested' = IF Succeeds(r) \/ r.code # 201 THEN contested \union Appended(r)
                                                 ELSE contested
  /\ UNCHANGED <<server, page, clicks, failures, opened, home, excused, crossed, astray>>

Related(r) ==
  /\ Answered(r, "relate")
  /\ Refresh(closures[r.then].kind, r)
  /\ contested' = IF Succeeds(r) THEN contested ELSE contested \union Appended(r)
  /\ UNCHANGED <<server, actual, form, stack, onCreated, closures, clicks, failures,
                 opened, home, crossed, astray>>

Handle(r) ==
  \/ ListArrives(r) \/ FormArrives(r) \/ Updated(r) \/ Deleted(r)
  \/ CollectionArrives(r) \/ NetworkCreated(r) \/ ChildCreated(r) \/ Related(r)

-----------------------------------------------------------------------------
Administrator ==
  \/ \E i \in Items : \/ \E t \in Kinds : OpenList(i, t)
                      \/ OpenLog(i) \/ OpenEdit(i) \/ Delete(i) \/ Unindex(i)
  \/ \E k \in Edited : SaveEdit(k) \/ OpenCreate(k) \/ CreateChild(k)
  \/ ReloadSnapshots \/ CreateNetwork \/ CloseTop

Next ==
  \/ Administrator
  \/ \E r \in net : Serve(r) \/ Fail(r) \/ Handle(r)

Spec == Init /\ [][Next]_vars

-----------------------------------------------------------------------------
(* Properties. *)

Links == Items \union {None}
TypeOK ==
  /\ status \in [Items -> {"free", "live", "gone"}]
  /\ parent \in [Items -> Links] /\ content \in [Items -> Items \union {Blank}]
  /\ actual \in [Edited -> Links] /\ form \in [Edited -> Items \union {Blank}]
  /\ dst \in Kinds
  /\ \A k \in Kinds : rows[k] \in Seq(Items)
  /\ stack \in Seq(Dialogs) /\ \A m, n \in 1..Len(stack) : stack[m] = stack[n] => m = n
  /\ onCreated = Len(closures)
  /\ \A r, q \in net : r.id = q.id => r = q

\* OwnContent: an edit form saves an item's own data over it, unless another
\* item of its kind was clicked between the request for the form and its
\* answer, that request was refused, or a row in a wrong table was clicked,
\* under which the form may be open (actual_..._link and the three edits).
OwnContent ==
  \A i \in Items : content[i] # i => KindOf[i] \in crossed \/ astray

\* QuietTablesAreFresh: when nothing is under way, a table in view shows what
\* the server has for the item whose list was opened, once each, unless the
\* load overlapped another or an answer was lost (dst_element_id, the
\* refreshes after each change, d3's join onto rows that are there).
InView(t) == t = "network" \/ \E n \in 1..Len(stack) : stack[n] = <<"list", t>>
QuietTablesAreFresh ==
  \A t \in Kinds :
    net = {} /\ InView(t) /\ t \notin excused /\ ~astray
    /\ (t = "network" \/ Live(opened[t]))
      => rows[t] = Children(t, opened[t])

\* RelationsAreKept: adding an item takes none out of a collection, unless two
\* appends overlapped or one was answered by a failure (rest.append, which
\* replaces the whole collection).
RelationsAreKept ==
  [][\A i \in Items : status[i] = "live" /\ parent[i] # None /\ parent'[i] # parent[i]
       => parent[i] \in contested]_vars

\* CreatedItemsJoin: when nothing is under way, an item created for a
\* collection is in it, unless its append overlapped another or met a failure,
\* or a row in a wrong table was clicked (the chain of handlers of append()).
CreatedItemsJoin ==
  \A i \in Items :
    net = {} /\ status[i] = "live" /\ KindOf[i] \in {"origin", "set"} /\ Live(home[i])
      => parent[i] = home[i] \/ home[i] \in contested \/ astray
=============================================================================
