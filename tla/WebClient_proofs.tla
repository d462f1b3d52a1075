-------------------------- MODULE WebClient_proofs --------------------------
(***************************************************************************)
(* Proofs about WebClient: that an edit form saves an item's own data over *)
(* it, that a quiet table shows what the server has, and that adding items *)
(* to a collection keeps those it has and adds the new one, for any items, *)
(* any number of clicks and requests and any answers and losses.           *)
(*                                                                         *)
(* The invariant has a part for each concern: types and shapes, what is    *)
(* known to the server, the order of the dialogs, the edits, the appends   *)
(* and the tables.  Most proofs that a step keeps a part go by the shape   *)
(* of the step as far as that part can tell (QuietStep, Served, Calm...),  *)
(* so that the actions are gone through once for each concern.             *)
(***************************************************************************)
EXTENDS WebClient, FiniteSetTheorems, WellFoundedInduction, TLAPS

-----------------------------------------------------------------------------
(* The invariants. *)

\* Some items of a kind, in a sequence.
ListOf(q, k) == q \in Seq(Items) /\ \A n \in 1..Len(q) : KindOf[q[n]] = k

\* The kinds whose items are appended to a collection, and those that have a
\* dialog with a list a row's button opens.
Appendable == {"origin", "set"}
Nested == {"origin", "set", "snapshot"}

ClosureOK(c) ==
  /\ c \in [kind : Appendable, link : Items, meant : Items, items : Seq(Items)]
  /\ KindOf[c.link] = ParentKind[c.kind]
  /\ ListOf(c.items, c.kind)

\* What a request asks for: a chain of append() goes by its closure.
AsksOK(r) ==
  \/ r.op = "list" /\ r.then = 0
  \/ /\ r.op \in {"edit", "destroy"} /\ r.then = 0
     /\ r.kind \in Edited /\ r.link \in Items /\ KindOf[r.link] = r.kind
  \/ /\ r.op = "update" /\ r.then = 0
     /\ r.kind \in Edited /\ (r.link \in Items => KindOf[r.link] = r.kind)
     /\ \E x \in Items \union {Blank} : r.body = <<x>>
  \/ r.op = "unindex" /\ r.then = 0 /\ r.kind = "network"
  \/ /\ r.op = "collect" /\ r.then # 0
     /\ r.kind = closures[r.then].kind /\ r.link = closures[r.then].link
  \/ r.op = "create" /\ r.then = 0 /\ r.kind = "network" /\ r.link = None
  \/ r.op = "create" /\ r.then # 0 /\ r.kind \in Appendable /\ r.link \in Items
  \/ /\ r.op = "relate" /\ r.then # 0
     /\ r.kind = closures[r.then].kind /\ r.link = closures[r.then].link
     /\ r.body # <<>>
     /\ \A n \in 1..Len(r.body) :
          r.body[n] # None => r.body[n] \in Items /\ KindOf[r.body[n]] \in Appendable

\* What its answer is, once it has one.
AnswerOK(r) ==
  \/ r.code \in {0, 500} /\ r.data = <<>> /\ r.format = "none"
  \/ /\ r.op \in {"list", "collect"} /\ r.code = 200 /\ r.format = "json"
     /\ ListOf(r.data, r.kind)
  \/ /\ r.op = "edit" /\ r.code = 200 /\ r.format = "json"
     /\ \E x \in Items \union {Blank} : r.data = <<x>>
  \/ /\ r.op = "create" /\ r.code = 201
     /\ \E i \in Items : KindOf[i] = r.kind /\ r.data = <<i>>
  \/ /\ r.op = "unindex" \/ (r.op = "destroy" /\ r.kind = "network")
     /\ r.code = 200 /\ r.format = "text"
  \/ /\ r.op \in {"update", "relate"} \/ (r.op = "destroy" /\ r.kind # "network")
     /\ r.code = 204

Ops == {"list", "edit", "update", "destroy", "unindex", "collect", "create", "relate"}
Codes == {0, 200, 201, 204, 500}
Formats == {"none", "json", "text"}
Requests ==
  [id : Nat, op : Ops,
   kind : Kinds, link : Links, body : Seq(Links \union {Blank}), then : Nat,
   code : Codes, data : Seq(Items \union {Blank}), format : Formats]

RequestOK(r) ==
  r \in Requests /\ r.then <= Len(closures) /\ AsksOK(r) /\ AnswerOK(r)

OnStack(d) == \E n \in 1..Len(stack) : stack[n] = d

ServerOK ==
  /\ status \in [Items -> {"free", "live", "gone"}]
  /\ parent \in [Items -> Links] /\ content \in [Items -> Items \union {Blank}]
  /\ home \in [Items -> Links]
  /\ \A i \in Items : status[i] = "free" \/ KindOf[i] = "network" => parent[i] = None

PageOK ==
  /\ actual \in [Edited -> Links] /\ form \in [Edited -> Items \union {Blank}]
  /\ \A k \in Edited : actual[k] # None => KindOf[actual[k]] = k
  /\ dst \in Kinds /\ rows \in [Kinds -> Seq(Items)]
  /\ opened \in [Kinds -> Links] /\ opened["network"] = None
  /\ \A t \in Kinds : opened[t] # None => KindOf[opened[t]] = ParentKind[t]
  /\ astray \in BOOLEAN

StackOK ==
  /\ stack \in Seq(Dialogs)
  /\ \A m, n \in 1..Len(stack) : stack[m] = stack[n] => m = n
  /\ \A t \in Nested : OnStack(<<"list", t>>) \/ OnStack(<<"create", t>>) =>
       actual[ParentKind[t]] # None /\ opened[t] # None

ClosuresOK ==
  /\ closures \in Seq([kind : Appendable, link : Items, meant : Items, items : Seq(Items)])
  /\ \A a \in 1..Len(closures) : ClosureOK(closures[a])
  /\ onCreated = Len(closures)

NetOK ==
  /\ IsFiniteSet(net)
  /\ \A r \in net : RequestOK(r)
  /\ \A r, q \in net : r.id = q.id => r = q

TypeInv == ServerOK /\ PageOK /\ StackOK /\ ClosuresOK /\ NetOK

\* Everything the page has heard of exists, or did.
Known(i, now) == i \in Items => now[i] # "free"
AllKnown(q, now) == \A n \in 1..Len(q) : Known(q[n], now)
KnownIn(r, now) ==
  (r.op # "edit" => AllKnown(r.data, now)) /\ (r.op = "relate" => AllKnown(r.body, now))
KnownInv ==
  /\ \A t \in Kinds : AllKnown(rows[t], status)
  /\ \A t \in Kinds : Known(opened[t], status)
  /\ \A a \in 1..Len(closures) : AllKnown(closures[a].items, status)
  /\ \A r \in net : KnownIn(r, status)

\* The dialogs are where the administrator opened them, as long as no row was
\* clicked in a table of another kind.
Placed(q) ==
  \A n \in 1..Len(q) :
    /\ q[n] \in {<<"list", "origin">>, <<"list", "snapshot">>} => n = 1
    /\ q[n] = <<"list", "set">> => n = 2 /\ q[1] = <<"list", "origin">>
    /\ q[n] = <<"create", "origin">> => q[1] = <<"list", "origin">>
    /\ q[n] = <<"create", "set">> => Len(q) > 1 /\ q[2] = <<"list", "set">>
OrderInv ==
  ~astray =>
    /\ Placed(stack)
    /\ \A t \in Nested : OnStack(<<"list", t>>) => actual[ParentKind[t]] = opened[t]

\* An edit goes by the item that was clicked last.
EditOK(r) ==
  /\ r.op = "edit" => r.link = actual[r.kind] /\ (r.code = 200 => r.data = <<r.link>>)
  /\ r.op = "update" => r.body = <<r.link>>
OwnData(k) ==
  /\ \A i \in Items : KindOf[i] = k => content[i] = i
  /\ OnStack(<<"edit", k>>) => form[k] = actual[k]
  /\ \A r \in net : r.kind = k => EditOK(r)
EditInv == ~astray => \A k \in Edited \ crossed : OwnData(k)
PlainInv == \A i \in Items : KindOf[i] \notin Edited => content[i] = i

\* The requests of append() are one chain of the last closure, or all of them
\* are about contested collections, and so is the closure the next one takes.
ChainInv ==
  \/ \A r \in Appends : r.then = onCreated /\ Appends = {r}
  \/ /\ onCreated # 0 /\ {closures[onCreated].link, closures[onCreated].meant} \subseteq contested
     /\ \A r \in Appends : Appended(r) \subseteq contested

\* An item that append() has read in a collection, to write it there again, and
\* one that it has created and not related.
In(i, q) == \E n \in 1..Len(q) : q[n] = i
Claimed(p, i) ==
  \/ \E a \in 1..Len(closures) : closures[a].link = p /\ In(i, closures[a].items)
  \/ \E r \in Appends : r.op = "collect" /\ r.link = p /\ In(i, r.data)
Brings(r, i) ==
  \/ r.op = "create" /\ r.code = 201 /\ In(i, r.data)
  \/ r.op = "relate" /\ r.code = 0 /\ i \in Items /\ r.body[Len(r.body)] = i

\* What was read is where it was, unless the collection is contested; nothing
\* else is written there but what is new, which is in no collection.
ClaimInv ==
  \A p, i \in Items : Claimed(p, i) /\ status[i] = "live" =>
    parent[i] = p \/ (p \in contested /\ parent[i] \in contested \union {None})
NewInv ==
  \A r \in Appends, i \in Items : Brings(r, i) =>
    /\ parent[i] = None /\ \A p \in Items : ~Claimed(p, i)
    /\ \A q \in Appends : Brings(q, i) => q = r
BodyInv ==
  \A r \in Appends : r.op = "relate" =>
    \A n \in 1..(Len(r.body) - 1) : In(r.body[n], closures[r.then].items)

\* Nothing is missing in what is written to a collection that is not contested.
Covers(q, c) ==
  \A i \in Items : status[i] = "live" /\ KindOf[i] = c.kind /\ parent[i] = c.link => In(i, q)
Whole(r, c) ==
  /\ r.op = "collect" => c.items = <<>> /\ (r.code = 200 => Covers(r.data, c))
  /\ r.op = "create" => Covers(c.items, c)
  /\ r.op = "relate" /\ r.code = 0 => Covers(r.body, c)
WholeInv ==
  \A r \in Appends : closures[r.then].link \notin contested => Whole(r, closures[r.then])

\* A new item is in the collection it was created for, or on its way there.
HomeInv ==
  \A r \in Appends : r.op = "create" => r.link \in Appended(r) \union contested
MeantInv == ~astray => \A a \in 1..Len(closures) : closures[a].link = closures[a].meant
Joining(r, i) ==
  \/ r.op = "create" /\ r.code = 201 /\ r.data = <<i>>
  \/ r.op = "relate" /\ r.code \in {0, 500} /\ r.body[Len(r.body)] = i
JoinInv ==
  ~astray =>
    \A i \in Items :
      status[i] = "live" /\ KindOf[i] \in Appendable /\ home[i] \in Items \ contested =>
        parent[i] = home[i] \/ \E r \in Appends : home[i] \in Appended(r) /\ Joining(r, i)

\* No item is ever in two collections.
OneInv ==
  \A p, i \in Items : Claimed(p, i) =>
    parent[i] \in {p, None} /\ \A q \in Items : Claimed(q, i) => q = p

\* A list that does not overlap another goes to its own table.
Lists == InFlight("list")
GateInv ==
  /\ \A r \in Lists : r.kind \notin excused => dst = r.kind /\ Lists = {r}
  /\ dst \notin excused => \A r \in Lists : r.kind = dst

\* A table shows its items, or is empty and waits for them, or will be loaded
\* again with an answer that is there already, or shows what is gone.
Pends(r, t) ==
  /\ r.code # 0 /\ r.kind = t
  /\ r.op \in {"destroy", "unindex", "relate"} \/ (r.op = "create" /\ r.then = 0)
Outdated(t) == (\E r \in net : Pends(r, t)) \/ (t # "network" /\ ~Live(opened[t]))
Fresh(t) ==
  /\ (\A r \in Lists : r.kind # t) => rows[t] = Children(t, opened[t]) \/ Outdated(t)
  /\ \A r \in Lists : r.kind = t =>
       /\ rows[t] = <<>> /\ r.link = opened[t]
       /\ r.code \in {0, 500} \/ r.data = Children(t, opened[t]) \/ Outdated(t)
FreshInv == ~astray => \A t \in Kinds \ excused : InView(t) \/ t = "log" => Fresh(t)

-----------------------------------------------------------------------------
(* Operators. *)

\* A set of naturals that is not empty has a least one.
LEMMA Least ==
  ASSUME NEW T, T \subseteq Nat, T # {}
  PROVE  \E m \in T : \A k \in T : ~(k < m)
<1>1. OpToRel(<, Nat) = {p \in Nat \X Nat : p[1] < p[2]}
  BY DEF OpToRel
<1>2. \E m \in T : \A k \in T : ~(<<k, m>> \in OpToRel(<, Nat))
  BY NatLessThanWellFounded, WFMin
<1>3. QED
  BY <1>2 DEF OpToRel

\* Induction: a set that has 0, and with each natural the next, has them all.
LEMMA Induct ==
  ASSUME NEW P, 0 \in P, \A n \in Nat : n \in P => n + 1 \in P
  PROVE  Nat \subseteq P
<1> SUFFICES ASSUME Nat \ P # {} PROVE FALSE
  OBVIOUS
<1>1. PICK m \in Nat \ P : \A k \in Nat \ P : ~(k < m)
  BY Least, Nat \ P \subseteq Nat
<1>2. m # 0 /\ m - 1 \in Nat /\ (m - 1) + 1 = m /\ m - 1 < m
  BY <1>1
<1>3. QED
  BY <1>1, <1>2

LEMMA ListedIs ==
  ASSUME NEW S
  PROVE  Listed(S) =
           (CHOOSE listed : listed = [n \in 0..Len(Order) |->
              IF n = 0 THEN <<>>
              ELSE listed[n - 1] \o (IF Order[n] \in S THEN <<Order[n]>> ELSE <<>>)])[Len(Order)]
  BY DEF Listed

\* Listed(S) is a sequence of the items of S, each of them in it.
LEMMA ListedFacts ==
  ASSUME NEW S
  PROVE  /\ Listed(S) \in Seq(Items)
         /\ \A n \in 1..Len(Listed(S)) : Listed(S)[n] \in S
         /\ \A i \in Items : i \in S => \E n \in 1..Len(Listed(S)) : Listed(S)[n] = i
<1> DEFINE L == Len(Order)
           F(g, n) == IF n = 0 THEN <<>>
                      ELSE g[n - 1] \o (IF Order[n] \in S THEN <<Order[n]>> ELSE <<>>)
           IsListed(g, k) == g = [n \in 0..k |-> F(g, n)]
<1>0. L \in Nat /\ \A n \in 1..L : Order[n] \in Items
  BY ClientAssumption
<1>1. \A n \in Nat : \E g : IsListed(g, n)
  <2> DEFINE P == {n \in Nat : \E g : IsListed(g, n)}
  <2>1. 0 \in P
    <3> DEFINE g == [m \in 0..0 |-> <<>>]
    <3>1. IsListed(g, 0)
      OBVIOUS
    <3>2. QED
      BY <3>1
  <2>2. ASSUME NEW n \in Nat, n \in P PROVE n + 1 \in P
    <3>0. n + 1 \in Nat
      OBVIOUS
    <3>1. PICK g : IsListed(g, n)
      BY <2>2
    <3> DEFINE h == [m \in 0..(n + 1) |-> IF m <= n THEN g[m] ELSE F(g, m)]
    <3>2. ASSUME NEW m \in 0..(n + 1) PROVE h[m] = F(h, m)
      <4>1. m # 0 => m - 1 \in 0..n /\ h[m - 1] = g[m - 1]
        OBVIOUS
      <4>2. CASE m <= n
        <5>1. h[m] = g[m] /\ m \in 0..n
          BY <4>2
        <5>2. g[m] = F(g, m)
          BY <3>1, <5>1
        <5>3. QED
          BY <4>1, <5>1, <5>2
      <4>3. CASE ~(m <= n)
        <5>1. h[m] = F(g, m)
          BY <4>3
        <5>2. QED
          BY <4>1, <5>1
      <4>4. QED
        BY <4>2, <4>3
    <3>3. IsListed(h, n + 1)
      BY <3>2
    <3> HIDE DEF h, IsListed
    <3>4. QED
      BY <3>0, <3>3
  <2>3. QED
    BY <2>1, <2>2, Induct
<1> DEFINE g == CHOOSE listed : listed = [n \in 0..Len(Order) |->
                    IF n = 0 THEN <<>>
                    ELSE listed[n - 1] \o (IF Order[n] \in S THEN <<Order[n]>> ELSE <<>>)]
<1>2. IsListed(g, L)
  BY <1>0, <1>1
<1>3. Listed(S) = g[L]
  BY ListedIs
<1> HIDE DEF g
<1>4. g[0] = <<>> /\ \A n \in 1..L : g[n] = g[n - 1] \o (IF Order[n] \in S THEN <<Order[n]>> ELSE <<>>)
  <2>1. g[0] = <<>>
    BY <1>0, <1>2
  <2>2. ASSUME NEW n \in 1..L
        PROVE  g[n] = g[n - 1] \o (IF Order[n] \in S THEN <<Order[n]>> ELSE <<>>)
    <3>1. n \in 0..L /\ n # 0
      BY <1>0
    <3>2. g[n] = F(g, n)
      BY <1>2, <3>1
    <3>3. QED
      BY <3>1, <3>2
  <2>3. QED
    BY <2>1, <2>2
<1> HIDE DEF IsListed, L
<1> DEFINE Good(q, n) == /\ q \in Seq(Items)
                         /\ \A m \in 1..Len(q) : q[m] \in S
                         /\ \A k \in 1..n : Order[k] \in S => \E m \in 1..Len(q) : q[m] = Order[k]
           P == {n \in Nat : n <= L => Good(g[n], n)}
<1>5. 0 \in P
  <2>1. Good(<<>>, 0)
    OBVIOUS
  <2>2. QED
    BY <1>4, <2>1
<1>6. ASSUME NEW n \in Nat, n \in P PROVE n + 1 \in P
  <2> SUFFICES ASSUME n + 1 <= L PROVE Good(g[n + 1], n + 1)
    OBVIOUS
  <2>1. Good(g[n], n) /\ n + 1 \in 1..L /\ (n + 1) - 1 = n
    BY <1>0, <1>6
  <2> DEFINE more == IF Order[n + 1] \in S THEN <<Order[n + 1]>> ELSE <<>>
  <2>a. g[n + 1] = g[n] \o more
    BY <1>4, <2>1
  <2>2. PICK q \in Seq(Items) : q = g[n]
    BY <2>1
  <2>3. CASE Order[n + 1] \in S
    <3>1. g[n + 1] = Append(q, Order[n + 1])
      BY <1>0, <2>a, <2>1, <2>2, <2>3
    <3> DEFINE x == Order[n + 1]
    <3>2. x \in Items /\ x \in S
      BY <1>0, <2>1, <2>3
    <3>3. /\ Append(q, x) \in Seq(Items) /\ Len(Append(q, x)) = Len(q) + 1
          /\ \A m \in 1..Len(q) : Append(q, x)[m] = q[m]
          /\ Append(q, x)[Len(q) + 1] = x
      BY <3>2
    <3>4. \A m \in 1..Len(Append(q, x)) : Append(q, x)[m] \in S
      BY <2>1, <2>2, <3>2, <3>3
    <3>5. ASSUME NEW k \in 1..(n + 1), Order[k] \in S
          PROVE  \E m \in 1..Len(Append(q, x)) : Append(q, x)[m] = Order[k]
      <4>1. CASE k = n + 1
        BY <3>3, <4>1
      <4>2. CASE k # n + 1
        <5>1. k \in 1..n
          BY <4>2
        <5>2. PICK m \in 1..Len(q) : q[m] = Order[k]
          BY <2>1, <2>2, <3>5, <5>1
        <5>3. QED
          BY <3>3, <5>2
      <4>3. QED
        BY <4>1, <4>2
    <3>6. QED
      BY <3>1, <3>3, <3>4, <3>5
  <2>4. CASE Order[n + 1] \notin S
    <3>1. g[n + 1] = q
      BY <2>a, <2>2, <2>4
    <3>2. \A k \in 1..(n + 1) : Order[k] \in S => k \in 1..n
      BY <2>4
    <3>3. QED
      BY <2>1, <2>2, <3>1, <3>2
  <2>5. QED
    BY <2>3, <2>4
<1>7. Good(g[L], L)
  <2> HIDE DEF Good
  <2>1. Nat \subseteq P
    BY <1>5, <1>6, Induct
  <2>2. QED
    BY <1>0, <2>1
<1>8. QED
  BY <1>3, <1>7 DEF Items, L

\* A request gets a number that none in flight has.
LEMMA FreshFacts ==
  ASSUME NetOK
  PROVE  FreshId \in Nat /\ \A r \in net : r.id # FreshId
<1> DEFINE N == Cardinality(net) + 1
<1>1. Cardinality(net) \in Nat /\ IsFiniteSet(net)
  BY FS_CardinalityType DEF NetOK
<1>2. \E n \in 1..N : \A r \in net : r.id # n
  <2> SUFFICES ASSUME \A n \in 1..N : \E r \in net : r.id = n PROVE FALSE
    OBVIOUS
  <2> DEFINE f == [n \in 1..N |-> CHOOSE r \in net : r.id = n]
  <2>1. f \in [1..N -> net] /\ \A n \in 1..N : f[n].id = n
    OBVIOUS
  <2>2. IsFiniteSet(1..N) /\ Cardinality(1..N) = N
    BY <1>1, FS_Interval
  <2> HIDE DEF f
  <2>3. \E x, y \in 1..N : x # y /\ f[x] = f[y]
    <3>1. Cardinality(net) < Cardinality(1..N)
      BY <1>1, <2>2
    <3> HIDE DEF N
    <3>2. QED
      BY <1>1, <2>1, <2>2, <3>1, FS_PigeonHole
  <2>4. QED
    BY <2>1, <2>3
<1>3. QED
  BY <1>1, <1>2 DEF FreshId

\* RemoveAt(s, p) is s without its element at p.
LEMMA RemoveAtFacts ==
  ASSUME NEW S, NEW s \in Seq(S), NEW p \in 1..Len(s)
  PROVE  /\ RemoveAt(s, p) \in Seq(S) /\ Len(RemoveAt(s, p)) = Len(s) - 1
         /\ \A n \in 1..(Len(s) - 1) :
              RemoveAt(s, p)[n] = IF n < p THEN s[n] ELSE s[n + 1]
<1> DEFINE a == SubSeq(s, 1, p - 1)
           b == SubSeq(s, p + 1, Len(s))
<1>1. /\ a \in Seq(S) /\ Len(a) = p - 1 /\ \A n \in 1..(p - 1) : a[n] = s[n]
  OBVIOUS
<1>2. /\ b \in Seq(S) /\ Len(b) = Len(s) - p /\ \A n \in 1..(Len(s) - p) : b[n] = s[p + n]
  OBVIOUS
<1>3. RemoveAt(s, p) = a \o b
  BY DEF RemoveAt
<1> HIDE DEF a, b
<1>4. RemoveAt(s, p) \in Seq(S) /\ Len(RemoveAt(s, p)) = Len(s) - 1
  BY <1>1, <1>2, <1>3
<1>5. ASSUME NEW n \in 1..(Len(s) - 1), n < p PROVE RemoveAt(s, p)[n] = s[n]
  BY <1>1, <1>2, <1>3, <1>5
<1>6. ASSUME NEW n \in 1..(Len(s) - 1), ~(n < p) PROVE RemoveAt(s, p)[n] = s[n + 1]
  <2>1. (a \o b)[n] = b[n - Len(a)] /\ n - Len(a) \in 1..(Len(s) - p)
    BY <1>1, <1>2, <1>6
  <2>2. p + (n - Len(a)) = n + 1
    BY <1>1
  <2>3. QED
    BY <1>2, <1>3, <2>1, <2>2
<1>7. QED
  BY <1>4, <1>5, <1>6

\* Closing a dialog takes it out of the stack, wherever it is.
LEMMA CloseFacts ==
  ASSUME StackOK, NEW d
  PROVE  /\ Close(d) \in Seq(Dialogs)
         /\ \E p \in 1..(Len(stack) + 1) :
              /\ \/ p <= Len(stack) /\ stack[p] = d /\ Len(Close(d)) = Len(stack) - 1
                 \/ p = Len(stack) + 1 /\ ~OnStack(d) /\ Len(Close(d)) = Len(stack)
              /\ \A n \in 1..Len(Close(d)) :
                   Close(d)[n] = IF n < p THEN stack[n] ELSE stack[n + 1]
<1>1. stack \in Seq(Dialogs) /\ Len(stack) \in Nat
  BY DEF StackOK
<1>2. CASE ~OnStack(d)
  <2>1. Close(d) = stack
    BY <1>2 DEF Close, OnStack
  <2>2. QED
    BY <1>1, <1>2, <2>1
<1>3. CASE OnStack(d)
  <2>1. PICK p \in 1..Len(stack) : stack[p] = d /\ Close(d) = RemoveAt(stack, p)
    BY <1>3 DEF Close, OnStack
  <2>6. Close(d) \in Seq(Dialogs) /\ Len(Close(d)) = Len(stack) - 1
    BY <1>1, <2>1, RemoveAtFacts
  <2>7. ASSUME NEW n \in 1..(Len(stack) - 1)
        PROVE  Close(d)[n] = IF n < p THEN stack[n] ELSE stack[n + 1]
    BY <1>1, <2>1, RemoveAtFacts
  <2>8. p <= Len(stack) /\ p \in 1..(Len(stack) + 1)
    BY <1>1
  <2>9. QED
    BY <2>1, <2>6, <2>7, <2>8
<1>4. QED
  BY <1>2, <1>3

\* The stack has no dialog twice, before and after.
Single(q) == q \in Seq(Dialogs) /\ \A m, n \in 1..Len(q) : q[m] = q[n] => m = n

LEMMA CloseSingle ==
  ASSUME StackOK, NEW d
  PROVE  /\ Single(Close(d))
         /\ \A e : (\E n \in 1..Len(Close(d)) : Close(d)[n] = e) <=> (OnStack(e) /\ e # d)
<1>1. Single(stack) /\ Len(stack) \in Nat
  BY DEF StackOK, Single
<1>2. PICK p \in 1..(Len(stack) + 1) :
        /\ \/ p <= Len(stack) /\ stack[p] = d /\ Len(Close(d)) = Len(stack) - 1
           \/ p = Len(stack) + 1 /\ ~OnStack(d) /\ Len(Close(d)) = Len(stack)
        /\ \A n \in 1..Len(Close(d)) : Close(d)[n] = IF n < p THEN stack[n] ELSE stack[n + 1]
  BY CloseFacts
<1>3. Close(d) \in Seq(Dialogs)
  BY CloseFacts
<1> DEFINE at(n) == IF n < p THEN n ELSE n + 1
<1>4. /\ \A n \in 1..Len(Close(d)) : at(n) \in 1..Len(stack) /\ Close(d)[n] = stack[at(n)]
      /\ \A m, n \in 1..Len(Close(d)) : at(m) = at(n) => m = n
  BY <1>1, <1>2
<1>5. \A n \in 1..Len(Close(d)) : at(n) # p
  BY <1>2
<1>6. Single(Close(d))
  <2>1. ASSUME NEW m \in 1..Len(Close(d)), NEW n \in 1..Len(Close(d)), Close(d)[m] = Close(d)[n]
        PROVE  m = n
    <3>1. stack[at(m)] = stack[at(n)] /\ at(m) \in 1..Len(stack) /\ at(n) \in 1..Len(stack)
      BY <1>4, <2>1
    <3>2. at(m) = at(n)
      BY <1>1, <3>1 DEF Single
    <3>3. QED
      BY <1>4, <3>2
  <2>2. QED
    BY <1>3, <2>1 DEF Single
<1>7. ASSUME NEW n \in 1..Len(Close(d)) PROVE OnStack(Close(d)[n]) /\ Close(d)[n] # d
  <2>1. stack[at(n)] = Close(d)[n] /\ at(n) \in 1..Len(stack) /\ at(n) # p
    BY <1>4, <1>5
  <2>2. OnStack(Close(d)[n])
    BY <2>1 DEF OnStack
  <2>3. p <= Len(stack) => stack[at(n)] # stack[p]
    BY <1>1, <2>1 DEF Single
  <2>4. QED
    BY <1>2, <2>1, <2>2, <2>3
<1>8. ASSUME NEW m \in 1..Len(stack), stack[m] # d
      PROVE  \E n \in 1..Len(Close(d)) : Close(d)[n] = stack[m]
  <2>1. CASE m < p
    <3>1. m \in 1..Len(Close(d))
      BY <1>1, <1>2, <2>1
    <3>2. QED
      BY <1>2, <2>1, <3>1
  <2>2. CASE m > p
    <3>1. m - 1 \in 1..Len(Close(d)) /\ ~(m - 1 < p) /\ (m - 1) + 1 = m
      BY <1>1, <1>2, <2>2
    <3>2. QED
      BY <1>2, <3>1
  <2>3. QED
    BY <1>2, <1>8, <2>1, <2>2
<1>9. QED
  BY <1>6, <1>7, <1>8 DEF OnStack

LEMMA OpenSingle ==
  ASSUME StackOK, NEW d \in Dialogs
  PROVE  /\ Single(Open(d))
         /\ \A e : (\E n \in 1..Len(Open(d)) : Open(d)[n] = e) <=> (OnStack(e) \/ e = d)
<1>1. Single(Close(d))
      /\ \A e : (\E n \in 1..Len(Close(d)) : Close(d)[n] = e) <=> (OnStack(e) /\ e # d)
  BY CloseSingle
<1>2. PICK q \in Seq(Dialogs) : q = Close(d)
  BY <1>1 DEF Single
<1>3. /\ Open(d) \in Seq(Dialogs) /\ Len(Open(d)) = Len(q) + 1 /\ Open(d)[Len(q) + 1] = d
      /\ \A n \in 1..Len(q) : Open(d)[n] = q[n]
  BY <1>2 DEF Open
<1>4. \A n \in 1..Len(q) : q[n] # d
  BY <1>1, <1>2
<1>5. Single(Open(d))
  BY <1>1, <1>2, <1>3, <1>4 DEF Single
<1>6. \A n \in 1..(Len(q) + 1) : n \in 1..Len(q) \/ n = Len(q) + 1
  OBVIOUS
<1>7. QED
  BY <1>1, <1>2, <1>3, <1>5, <1>6

\* The kinds and what they are listed under.
LEMMA KindFacts ==
  /\ Edited \subseteq Kinds /\ Nested \subseteq Kinds /\ Appendable \subseteq Edited
  /\ Appendable \subseteq Nested
  /\ ParentKind["network"] = None /\ ParentKind["origin"] = "network"
  /\ ParentKind["snapshot"] = "network" /\ ParentKind["set"] = "origin"
  /\ ParentKind["log"] = "snapshot"
  /\ \A t \in Nested : ParentKind[t] \in Edited
  /\ \A i \in Items : KindOf[i] \in Kinds
  /\ None \notin Items /\ Blank \notin Items /\ Blank # None
BY ClientAssumption DEF Kinds, Edited, Nested, Appendable, ParentKind

LEMMA DialogFacts ==
  /\ \A t \in Kinds : t # "network" => <<"list", t>> \in Dialogs
  /\ \A k \in Edited : <<"edit", k>> \in Dialogs /\ <<"create", k>> \in Dialogs
BY DEF Dialogs

-----------------------------------------------------------------------------
(* Types: requests. *)

\* Closures are added, and those there are keep what they are about.
Grows ==
  /\ Len(closures) <= Len(closures')
  /\ \A a \in 1..Len(closures) :
       /\ closures'[a].kind = closures[a].kind /\ closures'[a].link = closures[a].link
       /\ closures'[a].meant = closures[a].meant

LEMMA SameGrows ==
  ASSUME ClosuresOK, UNCHANGED closures
  PROVE  Grows
BY DEF Grows, ClosuresOK

LEMMA StillOK ==
  ASSUME ClosuresOK, ClosuresOK', Grows, NEW r, RequestOK(r)
  PROVE  RequestOK(r)'
<1>1. r \in Requests /\ r.then <= Len(closures) /\ AsksOK(r) /\ AnswerOK(r)
  BY DEF RequestOK
<1>2. r.then \in Nat /\ Len(closures) \in Nat /\ Len(closures') \in Nat
  BY <1>1 DEF Requests, ClosuresOK
<1>3. r.then <= Len(closures')
  BY <1>1, <1>2 DEF Grows
<1>4. r.then # 0 => /\ closures'[r.then].kind = closures[r.then].kind
                    /\ closures'[r.then].link = closures[r.then].link
  BY <1>1, <1>2 DEF Grows
<1>5. AsksOK(r)'
  BY <1>1, <1>4 DEF AsksOK
<1>6. AnswerOK(r)'
  BY <1>1 DEF AnswerOK
<1>7. QED
  BY <1>1, <1>3, <1>5, <1>6 DEF RequestOK

\* One more request, and perhaps some less.
LEMMA NetAsks ==
  ASSUME NetOK, ClosuresOK, ClosuresOK', Grows,
         NEW rest \in SUBSET net, NEW q, q.id = FreshId, RequestOK(q)',
         net' = rest \union {q}
  PROVE  NetOK'
<1>1. IsFiniteSet(rest)
  BY FS_Subset DEF NetOK
<1>2. IsFiniteSet(net')
  BY <1>1, FS_AddElement
<1>3. \A r \in net' : RequestOK(r)'
  BY StillOK DEF NetOK
<1>4. \A r \in rest : r.id # q.id
  BY FreshFacts
<1>5. \A r, p \in net' : r.id = p.id => r = p
  BY <1>4 DEF NetOK
<1>6. QED
  BY <1>2, <1>3, <1>5 DEF NetOK

LEMMA NetLoses ==
  ASSUME NetOK, ClosuresOK, ClosuresOK', Grows, net' \subseteq net
  PROVE  NetOK'
<1>1. IsFiniteSet(net')
  BY FS_Subset DEF NetOK
<1>2. \A r \in net' : RequestOK(r)'
  BY StillOK DEF NetOK
<1>3. QED
  BY <1>1, <1>2 DEF NetOK

\* What a new request is.
LEMMA RequestFacts ==
  ASSUME NEW op, NEW kind, NEW link, NEW body, NEW then, NEW q,
         q = Request(op, kind, link, body, then)
  PROVE  /\ q.id = FreshId /\ q.op = op /\ q.kind = kind /\ q.link = link
         /\ q.body = body /\ q.then = then /\ q.code = 0 /\ q.data = <<>>
BY DEF Request

LEMMA RequestAnswer ==
  ASSUME NEW op, NEW kind, NEW link, NEW body, NEW then, NEW q,
         q = Request(op, kind, link, body, then)
  PROVE  AnswerOK(q)
BY DEF Request, AnswerOK

LEMMA RequestTyped ==
  ASSUME NetOK, NEW op \in Ops, NEW kind \in Kinds, NEW link \in Links,
         NEW body \in Seq(Links \union {Blank}), NEW then \in Nat, NEW q,
         q = Request(op, kind, link, body, then)
  PROVE  q \in Requests
<1>1. FreshId \in Nat
  BY FreshFacts
<1>2. <<>> \in Seq(Items \union {Blank})
  OBVIOUS
<1>3. QED
  BY <1>1, <1>2 DEF Request, Requests, Codes, Formats

\* Load keeps the types, and sends a request for a list.
LEMMA LoadOK ==
  ASSUME TypeInv, ClosuresOK', Grows, NEW t \in Kinds, NEW p \in Links,
         NEW rest \in SUBSET net, Load(t, p, rest)
  PROVE  NetOK' /\ dst' \in Kinds /\ rows' \in [Kinds -> Seq(Items)]
<1>a. PICK q : q = Request("list", t, p, <<>>, 0)
  OBVIOUS
<1>1. NetOK /\ ClosuresOK /\ rows \in [Kinds -> Seq(Items)]
  BY DEF TypeInv, PageOK
<1>2. /\ q.id = FreshId /\ q.op = "list" /\ q.then = 0 /\ AnswerOK(q) /\ q \in Requests
  <2>1. <<>> \in Seq(Links \union {Blank}) /\ 0 \in Nat
    OBVIOUS
  <2>2. /\ q.id = FreshId /\ q.op = "list" /\ q.then = 0
    BY <1>a, RequestFacts
  <2>3. "list" \in Ops
    BY DEF Ops
  <2>4. QED
    BY <1>a, <1>1, <2>1, <2>2, <2>3, RequestAnswer, RequestTyped
<1>3. dst' = t /\ rows' = [rows EXCEPT ![t] = <<>>] /\ net' = rest \union {q}
  BY <1>a DEF Load
<1>4. RequestOK(q)'
  <2>1. AsksOK(q)' /\ AnswerOK(q)'
    BY <1>2 DEF AsksOK, AnswerOK
  <2>2. 0 <= Len(closures')
    BY DEF ClosuresOK
  <2>3. QED
    BY <1>2, <2>1, <2>2 DEF RequestOK
<1>5. NetOK'
  BY <1>1, <1>2, <1>3, <1>4, NetAsks
<1>6. QED
  BY <1>1, <1>3, <1>5, <<>> \in Seq(Items)

\* A request that is answered.
LEMMA AnswerFacts ==
  ASSUME NetOK, ClosuresOK, UNCHANGED <<closures, onCreated>>, NEW r \in net, NEW reply, Answer(r, reply),
         reply.code \in Codes, reply.data \in Seq(Items \union {Blank}),
         reply.format \in Formats,
         AnswerOK([r EXCEPT !.code = reply.code, !.data = reply.data, !.format = reply.format])
  PROVE  NetOK'
<1> DEFINE a == [r EXCEPT !.code = reply.code, !.data = reply.data, !.format = reply.format]
<1>1. r \in Requests /\ r.then <= Len(closures) /\ AsksOK(r)
  BY DEF NetOK, RequestOK
<1>2. /\ a \in Requests /\ a.id = r.id /\ a.op = r.op /\ a.kind = r.kind /\ a.link = r.link
      /\ a.body = r.body /\ a.then = r.then
  <2>2. a \in Requests
    BY <1>1 DEF Requests
  <2>3. /\ a.id = r.id /\ a.op = r.op /\ a.kind = r.kind /\ a.link = r.link
        /\ a.body = r.body /\ a.then = r.then
    BY <1>1 DEF Requests
  <2>4. QED
    BY <2>2, <2>3
<1>3. net' = (net \ {r}) \union {a} /\ AnswerOK(a)
  BY DEF Answer
<1> HIDE DEF a
<1>4. AsksOK(a)
  BY <1>1, <1>2 DEF AsksOK
<1>5. RequestOK(a)
  BY <1>1, <1>2, <1>3, <1>4 DEF RequestOK
<1>6. Grows
  BY SameGrows
<1>7. ClosuresOK'
  BY DEF ClosuresOK, ClosureOK
<1>8. \A q \in net' : RequestOK(q)'
  BY <1>3, <1>5, <1>6, <1>7, StillOK DEF NetOK
<1>9. IsFiniteSet(net \ {r})
  BY FS_RemoveElement DEF NetOK
<1>10. IsFiniteSet(net')
  BY <1>3, <1>9, FS_AddElement
<1>11. \A p, q \in net' : p.id = q.id => p = q
  BY <1>2, <1>3 DEF NetOK
<1>12. QED
  BY <1>8, <1>10, <1>11 DEF NetOK

\* A new request that asks for something a request may.
LEMMA AskOK ==
  ASSUME TypeInv, ClosuresOK', Grows, NEW rest \in SUBSET net,
         NEW op \in Ops, NEW kind \in Kinds, NEW link \in Links,
         NEW body \in Seq(Links \union {Blank}), NEW then \in Nat, then <= Len(closures'),
         net' = rest \union {Request(op, kind, link, body, then)},
         \A q : q.op = op /\ q.kind = kind /\ q.link = link /\ q.body = body /\ q.then = then
                  => AsksOK(q)'
  PROVE  NetOK'
<1>1. PICK q : q = Request(op, kind, link, body, then)
  OBVIOUS
<1>2. NetOK /\ ClosuresOK
  BY DEF TypeInv
<1>3. /\ q.id = FreshId /\ q.op = op /\ q.kind = kind /\ q.link = link
      /\ q.body = body /\ q.then = then
  BY <1>1, RequestFacts
<1>4. q \in Requests
  BY <1>1, <1>2, RequestTyped
<1>5. AnswerOK(q)
  BY <1>1, RequestAnswer
<1>6. AsksOK(q)'
  BY <1>3
<1>7. RequestOK(q)'
  BY <1>3, <1>4, <1>5, <1>6 DEF RequestOK, AnswerOK
<1>8. net' = rest \union {q}
  BY <1>1
<1>9. QED
  BY <1>2, <1>3, <1>7, <1>8, NetAsks

-----------------------------------------------------------------------------
(* Types: the parts a step leaves alone, and the dialogs. *)

LEMMA SameServer ==
  ASSUME TypeInv, UNCHANGED <<server, home>>
  PROVE  ServerOK'
BY DEF TypeInv, ServerOK, server

LEMMA SameClosures ==
  ASSUME TypeInv, UNCHANGED <<closures, onCreated>>
  PROVE  ClosuresOK' /\ Grows
<1>1. ClosuresOK /\ ClosuresOK'
  BY DEF TypeInv, ClosuresOK, ClosureOK
<1>2. QED
  BY <1>1, SameGrows

LEMMA SamePage ==
  ASSUME TypeInv, UNCHANGED <<actual, dst, rows, form, opened>>, astray' \in BOOLEAN
  PROVE  PageOK'
BY DEF TypeInv, PageOK

\* Dialogs are closed, or those that open have what they are listed under.
LEMMA StackStep ==
  ASSUME TypeInv, Single(stack'), NEW d,
         \A e : OnStack(e)' => OnStack(e) \/ e = d,
         \A t \in Nested :
           /\ actual[ParentKind[t]] # None => actual'[ParentKind[t]] # None
           /\ opened[t] # None => opened'[t] # None
           /\ d \in {<<"list", t>>, <<"create", t>>} =>
                actual'[ParentKind[t]] # None /\ opened'[t] # None
  PROVE  StackOK'
<1>1. ASSUME NEW t \in Nested, OnStack(<<"list", t>>)' \/ OnStack(<<"create", t>>)'
      PROVE  actual'[ParentKind[t]] # None /\ opened'[t] # None
  BY <1>1 DEF TypeInv, StackOK
<1>2. QED
  BY <1>1 DEF StackOK, Single

LEMMA SameStack ==
  ASSUME TypeInv, UNCHANGED <<stack, actual, opened>>
  PROVE  StackOK'
BY DEF TypeInv, StackOK, OnStack

LEMMA ClosedStack ==
  ASSUME TypeInv, NEW d, stack' = Close(d), UNCHANGED <<actual, opened>>
  PROVE  StackOK'
<1>1. StackOK
  BY DEF TypeInv
<1>2. Single(stack')
  BY <1>1, CloseSingle
<1>3. \A e : OnStack(e)' => OnStack(e)
  BY <1>1, CloseSingle DEF OnStack
<1>4. QED
  BY <1>2, <1>3 DEF TypeInv, StackOK, Single

\* A dialog whose kind is neither a list nor a creation, or is supplied.
LEMMA OpenedStack ==
  ASSUME TypeInv, NEW d \in Dialogs, stack' = Open(d),
         \A t \in Nested :
           /\ actual[ParentKind[t]] # None => actual'[ParentKind[t]] # None
           /\ opened[t] # None => opened'[t] # None
           /\ d \in {<<"list", t>>, <<"create", t>>} =>
                actual'[ParentKind[t]] # None /\ opened'[t] # None
  PROVE  StackOK'
<1>1. StackOK
  BY DEF TypeInv
<1>2. Single(stack')
  BY <1>1, OpenSingle
<1>3. \A e : OnStack(e)' => OnStack(e) \/ e = d
  BY <1>1, OpenSingle DEF OnStack
<1>4. QED
  BY <1>2, <1>3, StackStep

LEMMA TypeInit ==
  ASSUME Init
  PROVE  TypeInv
<1>1. ServerOK
  <2>1. /\ status \in [Items -> {"free", "live", "gone"}]
        /\ parent \in [Items -> Links] /\ content \in [Items -> Items \union {Blank}]
        /\ home \in [Items -> Links]
    BY ClientAssumption DEF Init, Links
  <2>2. ASSUME NEW i \in Items, status[i] = "free" PROVE parent[i] = None
    BY <2>2, ClientAssumption DEF Init
  <2>3. ASSUME NEW i \in Items, KindOf[i] = "network" PROVE parent[i] = None
    <3>1. FirstParent[i] # None =>
            FirstParent[i] \in Items /\ KindOf[FirstParent[i]] = ParentKind["network"]
      BY <2>3, ClientAssumption
    <3>2. \A j \in Items : KindOf[j] # None
      BY ClientAssumption
    <3>3. FirstParent[i] = None
      BY <3>1, <3>2, KindFacts
    <3>4. QED
      BY <3>3 DEF Init
  <2>4. QED
    BY <2>1, <2>2, <2>3 DEF ServerOK
<1>2. PageOK
  <2>1. Listed({i \in Stored : KindOf[i] = "network"}) \in Seq(Items) /\ <<>> \in Seq(Items)
    BY ListedFacts
  <2>2. rows \in [Kinds -> Seq(Items)]
    BY <2>1 DEF Init
  <2>3. "network" \in Kinds
    BY DEF Kinds
  <2>4. QED
    BY <2>2, <2>3 DEF PageOK, Init, Links
<1>3. StackOK
  BY DEF StackOK, Init, OnStack
<1>4. ClosuresOK
  BY DEF ClosuresOK, Init
<1>5. NetOK
  BY FS_EmptySet DEF NetOK, Init
<1>6. QED
  BY <1>1, <1>2, <1>3, <1>4, <1>5 DEF TypeInv

LEMMA OpFacts ==
  /\ "list" \in Ops /\ "edit" \in Ops /\ "update" \in Ops /\ "destroy" \in Ops
  /\ "unindex" \in Ops /\ "collect" \in Ops /\ "create" \in Ops /\ "relate" \in Ops
  /\ <<>> \in Seq(Links \union {Blank}) /\ Items \subseteq Links /\ None \in Links
BY DEF Ops, Links

-----------------------------------------------------------------------------
(* Types: the administrator. *)

\* A button in a row.
LEMMA ShownFacts ==
  ASSUME TypeInv, NEW i \in Items, Shown(i)
  PROVE  astray' \in BOOLEAN /\ KindOf[i] \in Kinds
BY KindFacts DEF Shown, TypeInv, PageOK

LEMMA OpenListTypes ==
  ASSUME TypeInv, NEW i \in Items, NEW t \in Kinds, OpenList(i, t)
  PROVE  TypeInv'
<1>1. /\ Shown(i) /\ t \in Nested /\ ParentKind[t] = KindOf[i]
      /\ actual' = [actual EXCEPT ![KindOf[i]] = i] /\ Load(t, i, net)
      /\ stack' = Open(<<"list", t>>) /\ opened' = [opened EXCEPT ![t] = i]
      /\ UNCHANGED <<server, home, form, onCreated, closures>>
  BY DEF OpenList, Nested
<1>2. KindOf[i] \in Edited /\ t # "network" /\ i # None /\ i \in Links
  BY <1>1, KindFacts, OpFacts DEF Nested
<1>3. ServerOK' /\ ClosuresOK' /\ Grows
  BY <1>1, SameServer, SameClosures
<1>4. NetOK' /\ dst' \in Kinds /\ rows' \in [Kinds -> Seq(Items)]
  BY <1>1, <1>2, <1>3, LoadOK
<1>5. astray' \in BOOLEAN
  BY <1>1, ShownFacts
<1>6. actual \in [Edited -> Links] /\ opened \in [Kinds -> Links]
  BY DEF TypeInv, PageOK
<1>7. actual' \in [Edited -> Links] /\ \A k \in Edited : actual'[k] # None => KindOf[actual'[k]] = k
  BY <1>1, <1>2, <1>6 DEF TypeInv, PageOK
<1>8. /\ opened' \in [Kinds -> Links] /\ opened'["network"] = None
      /\ \A k \in Kinds : opened'[k] # None => KindOf[opened'[k]] = ParentKind[k]
  BY <1>1, <1>2, <1>6 DEF TypeInv, PageOK
<1>9. form' \in [Edited -> Items \union {Blank}]
  BY <1>1 DEF TypeInv, PageOK
<1>10. PageOK'
  BY <1>4, <1>5, <1>7, <1>8, <1>9 DEF PageOK
<1>11. <<"list", t>> \in Dialogs
  BY <1>2, DialogFacts
<1>12. ASSUME NEW k \in Nested
       PROVE  /\ actual[ParentKind[k]] # None => actual'[ParentKind[k]] # None
              /\ opened[k] # None => opened'[k] # None
              /\ <<"list", t>> \in {<<"list", k>>, <<"create", k>>} =>
                   actual'[ParentKind[k]] # None /\ opened'[k] # None
  <2>1. ParentKind[k] \in Edited /\ k \in Kinds
    BY KindFacts
  <2>2. /\ actual[ParentKind[k]] # None => actual'[ParentKind[k]] # None
        /\ opened[k] # None => opened'[k] # None
    BY <1>1, <1>2, <1>6, <2>1
  <2>3. actual'[ParentKind[t]] # None /\ opened'[t] # None
    BY <1>1, <1>2, <1>6
  <2>4. QED
    BY <2>2, <2>3
<1>13. StackOK'
  BY <1>1, <1>11, <1>12, OpenedStack
<1>14. QED
  BY <1>3, <1>4, <1>10, <1>13 DEF TypeInv

LEMMA OpenLogTypes ==
  ASSUME TypeInv, NEW i \in Items, OpenLog(i)
  PROVE  TypeInv'
<1>1. /\ Shown(i) /\ KindOf[i] = "snapshot" /\ Load("log", i, net)
      /\ opened' = [opened EXCEPT !["log"] = i]
      /\ UNCHANGED <<server, home, actual, form, stack, onCreated, closures>>
  BY DEF OpenLog
<1>2. i # None /\ i \in Links /\ "log" \in Kinds
  BY KindFacts, OpFacts DEF Kinds
<1>3. ServerOK' /\ ClosuresOK' /\ Grows
  BY <1>1, SameServer, SameClosures
<1>4. NetOK' /\ dst' \in Kinds /\ rows' \in [Kinds -> Seq(Items)]
  BY <1>1, <1>2, <1>3, LoadOK
<1>5. astray' \in BOOLEAN
  BY <1>1, ShownFacts
<1>6. opened \in [Kinds -> Links]
  BY DEF TypeInv, PageOK
<1>7. /\ opened' \in [Kinds -> Links] /\ opened'["network"] = None
      /\ \A k \in Kinds : opened'[k] # None => KindOf[opened'[k]] = ParentKind[k]
  BY <1>1, <1>2, <1>6, KindFacts DEF TypeInv, PageOK
<1>8. PageOK'
  BY <1>1, <1>4, <1>5, <1>7 DEF TypeInv, PageOK
<1>9. \A k \in Nested : opened'[k] = opened[k] /\ k \in Kinds
  BY <1>1, <1>6, KindFacts DEF Nested
<1>10. StackOK'
  BY <1>1, <1>9 DEF TypeInv, StackOK, OnStack
<1>11. QED
  BY <1>3, <1>4, <1>8, <1>10 DEF TypeInv

LEMMA ReloadTypes ==
  ASSUME TypeInv, ReloadSnapshots
  PROVE  TypeInv'
<1>1. /\ Load("snapshot", actual["network"], net)
      /\ UNCHANGED <<server, home, actual, form, stack, onCreated, closures, opened, astray>>
  BY DEF ReloadSnapshots
<1>2. "snapshot" \in Kinds /\ actual["network"] \in Links
  BY DEF TypeInv, PageOK, Kinds, Edited
<1>3. ServerOK' /\ ClosuresOK' /\ Grows /\ StackOK'
  BY <1>1, SameServer, SameClosures, SameStack
<1>4. NetOK' /\ dst' \in Kinds /\ rows' \in [Kinds -> Seq(Items)]
  BY <1>1, <1>2, <1>3, LoadOK
<1>5. PageOK'
  BY <1>1, <1>4 DEF TypeInv, PageOK
<1>6. QED
  BY <1>3, <1>4, <1>5 DEF TypeInv

\* The buttons that ask for something about their row's item.
LEMMA ButtonTypes ==
  ASSUME TypeInv, NEW i \in Items, Shown(i), NEW op \in {"edit", "destroy", "unindex"},
         KindOf[i] \in Edited, op = "unindex" => KindOf[i] = "network",
         net' = net \union {Request(op, KindOf[i], i, <<>>, 0)},
         UNCHANGED <<server, home, dst, rows, form, stack, onCreated, closures, opened>>,
         actual' \in {actual, [actual EXCEPT ![KindOf[i]] = i]}
  PROVE  TypeInv'
<1>1. i # None /\ i \in Links /\ op \in Ops
  BY KindFacts, OpFacts
<1>2. ServerOK' /\ ClosuresOK' /\ Grows
  BY SameServer, SameClosures
<1>3. astray' \in BOOLEAN /\ KindOf[i] \in Kinds
  BY ShownFacts
<1>4. NetOK'
  <2>1. 0 <= Len(closures') /\ 0 \in Nat
    BY <1>2 DEF ClosuresOK
  <2>2. ASSUME NEW q, q.op = op, q.kind = KindOf[i], q.link = i, q.then = 0 PROVE AsksOK(q)'
    BY <2>2 DEF AsksOK
  <2>3. QED
    BY <1>1, <1>2, <1>3, <2>1, <2>2, OpFacts, AskOK
<1>5. actual \in [Edited -> Links]
  BY DEF TypeInv, PageOK
<1>6. /\ actual' \in [Edited -> Links]
      /\ \A k \in Edited : /\ actual'[k] # None => KindOf[actual'[k]] = k
                           /\ actual[k] # None => actual'[k] # None
  BY <1>1, <1>5 DEF TypeInv, PageOK
<1>7. PageOK'
  BY <1>3, <1>6 DEF TypeInv, PageOK
<1>8. StackOK'
  <2>1. \A t \in Nested : ParentKind[t] \in Edited
    BY KindFacts
  <2>2. \A t \in Nested : actual[ParentKind[t]] # None => actual'[ParentKind[t]] # None
    BY <1>6, <2>1
  <2>3. QED
    BY <2>2 DEF TypeInv, StackOK, OnStack
<1>9. QED
  BY <1>2, <1>4, <1>7, <1>8 DEF TypeInv

LEMMA OnTopIsOn ==
  ASSUME TypeInv, NEW d, OnTop(d)
  PROVE  OnStack(d)
BY DEF TypeInv, StackOK, OnTop, OnStack

LEMMA SaveTypes ==
  ASSUME TypeInv, NEW k \in Edited, SaveEdit(k)
  PROVE  TypeInv'
<1>1. /\ net' = net \union {Request("update", k, actual[k], <<form[k]>>, 0)}
      /\ stack' = Close(<<"edit", k>>)
      /\ UNCHANGED <<server, home, actual, dst, rows, form, onCreated, closures, opened, astray>>
  BY DEF SaveEdit, history
<1>2. /\ actual[k] \in Links /\ form[k] \in Items \union {Blank} /\ k \in Kinds
      /\ actual[k] \in Items => KindOf[actual[k]] = k
  BY KindFacts DEF TypeInv, PageOK
<1>3. ServerOK' /\ ClosuresOK' /\ Grows /\ StackOK'
  BY <1>1, SameServer, SameClosures, ClosedStack
<1>4. PageOK'
  BY <1>1, SamePage DEF TypeInv, PageOK
<1>5. NetOK'
  <2>1. 0 <= Len(closures') /\ 0 \in Nat
    BY <1>3 DEF ClosuresOK
  <2>2. <<form[k]>> \in Seq(Links \union {Blank})
    BY <1>2 DEF Links
  <2>3. ASSUME NEW q, q.op = "update", q.kind = k, q.link = actual[k], q.body = <<form[k]>>,
               q.then = 0
        PROVE  AsksOK(q)'
    BY <1>2, <2>3 DEF AsksOK
  <2>4. QED
    BY <1>1, <1>2, <1>3, <2>1, <2>2, <2>3, OpFacts, AskOK
<1>6. QED
  BY <1>3, <1>4, <1>5 DEF TypeInv

LEMMA OpenCreateTypes ==
  ASSUME TypeInv, NEW k \in Edited, OpenCreate(k)
  PROVE  TypeInv'
<1>1. /\ Clickable(k) /\ stack' = Open(<<"create", k>>)
      /\ UNCHANGED <<server, home, actual, dst, rows, form, onCreated, closures, opened,
                     astray, net>>
  BY DEF OpenCreate, history
<1>2. ServerOK' /\ ClosuresOK' /\ Grows
  BY <1>1, SameServer, SameClosures
<1>3. PageOK'
  BY <1>1, SamePage DEF TypeInv, PageOK
<1>4. NetOK'
  BY <1>1, <1>2, NetLoses DEF TypeInv
<1>5. ASSUME NEW t \in Nested, <<"create", k>> \in {<<"list", t>>, <<"create", t>>}
      PROVE  actual[ParentKind[t]] # None /\ opened[t] # None
  <2>1. t = k /\ t # "network"
    BY <1>5 DEF Nested
  <2>2. OnStack(<<"list", t>>)
    BY <1>1, <2>1, OnTopIsOn DEF Clickable
  <2>3. QED
    BY <2>2 DEF TypeInv, StackOK
<1>6. <<"create", k>> \in Dialogs
  BY DialogFacts
<1>7. StackOK'
  BY <1>1, <1>5, <1>6, OpenedStack
<1>8. QED
  BY <1>2, <1>3, <1>4, <1>7 DEF TypeInv

LEMMA CreateNetworkTypes ==
  ASSUME TypeInv, CreateNetwork
  PROVE  TypeInv'
<1>1. /\ net' = net \union {Request("create", "network", None, <<>>, 0)}
      /\ stack' = Close(<<"create", "network">>)
      /\ UNCHANGED <<server, home, actual, dst, rows, form, onCreated, closures, opened, astray>>
  BY DEF CreateNetwork, history
<1>2. ServerOK' /\ ClosuresOK' /\ Grows /\ StackOK'
  BY <1>1, SameServer, SameClosures, ClosedStack
<1>3. PageOK'
  BY <1>1, SamePage DEF TypeInv, PageOK
<1>4. NetOK'
  <2>1. 0 <= Len(closures') /\ 0 \in Nat /\ "network" \in Kinds
    BY <1>2 DEF ClosuresOK, Kinds
  <2>2. ASSUME NEW q, q.op = "create", q.kind = "network", q.link = None, q.then = 0
        PROVE  AsksOK(q)'
    BY <2>2 DEF AsksOK
  <2>3. QED
    BY <1>1, <1>2, <2>1, <2>2, OpFacts, AskOK
<1>5. QED
  BY <1>2, <1>3, <1>4 DEF TypeInv

LEMMA CreateChildTypes ==
  ASSUME TypeInv, NEW k \in Edited, CreateChild(k)
  PROVE  TypeInv'
<1> DEFINE collection == actual[ParentKind[k]]
<1>1. /\ k \in Appendable /\ OnTop(<<"create", k>>)
      /\ closures' = Append(closures,
           [kind |-> k, link |-> collection, meant |-> opened[k], items |-> <<>>])
      /\ onCreated' = Len(closures')
      /\ net' = net \union {Request("collect", k, collection, <<>>, Len(closures'))}
      /\ stack' = Close(<<"create", k>>)
      /\ UNCHANGED <<server, home, actual, dst, rows, form, opened, astray>>
  BY DEF CreateChild, Appendable
<1>2. ServerOK' /\ StackOK'
  BY <1>1, SameServer, ClosedStack
<1>3. PageOK'
  BY <1>1, SamePage DEF TypeInv, PageOK
<1>4. /\ collection # None /\ opened[k] # None /\ k \in Nested /\ k \in Kinds
      /\ ParentKind[k] \in Edited
  BY <1>1, OnTopIsOn, KindFacts DEF TypeInv, StackOK
<1>5. /\ collection \in Items /\ opened[k] \in Items /\ KindOf[collection] = ParentKind[k]
      /\ collection \in Links
  BY <1>4 DEF TypeInv, PageOK, Links
<1>6. PICK c : c = [kind |-> k, link |-> collection, meant |-> opened[k], items |-> <<>>]
  OBVIOUS
<1>7. c \in [kind : Appendable, link : Items, meant : Items, items : Seq(Items)]
  BY <1>1, <1>5, <1>6, <<>> \in Seq(Items)
<1>8. /\ closures \in Seq([kind : Appendable, link : Items, meant : Items, items : Seq(Items)])
      /\ \A a \in 1..Len(closures) : ClosureOK(closures[a])
  BY DEF TypeInv, ClosuresOK
<1>9. /\ closures' \in Seq([kind : Appendable, link : Items, meant : Items, items : Seq(Items)])
      /\ Len(closures') = Len(closures) + 1 /\ Len(closures) \in Nat
      /\ \A a \in 1..Len(closures) : closures'[a] = closures[a]
      /\ closures'[Len(closures')] = c
  BY <1>1, <1>6, <1>7, <1>8
<1>10. ClosureOK(c)
  BY <1>5, <1>6, <1>7 DEF ClosureOK, ListOf
<1>11. ClosuresOK'
  BY <1>1, <1>8, <1>9, <1>10 DEF ClosuresOK, ClosureOK
<1>12. Grows
  BY <1>9 DEF Grows
<1>13. PICK n \in Nat : n = Len(closures')
  BY <1>9
<1>14. n <= Len(closures') /\ n # 0 /\ closures'[n].kind = k /\ closures'[n].link = collection
  BY <1>6, <1>9, <1>13
<1>15. ASSUME NEW q, q.op = "collect", q.kind = k, q.link = collection, q.then = n
       PROVE  AsksOK(q)'
  BY <1>14, <1>15 DEF AsksOK
<1>16. net' = net \union {Request("collect", k, collection, <<>>, n)}
  BY <1>1, <1>13
<1>17. NetOK'
  BY <1>4, <1>5, <1>11, <1>12, <1>14, <1>15, <1>16, OpFacts, AskOK
<1>18. QED
  BY <1>2, <1>3, <1>11, <1>17 DEF TypeInv

LEMMA CloseTopTypes ==
  ASSUME TypeInv, CloseTop
  PROVE  TypeInv'
<1>1. /\ stack' = Close(stack[Len(stack)])
      /\ UNCHANGED <<server, home, actual, dst, rows, form, onCreated, closures, opened,
                     astray, net>>
  BY DEF CloseTop, history
<1>2. ServerOK' /\ ClosuresOK' /\ Grows /\ StackOK'
  BY <1>1, SameServer, SameClosures, ClosedStack
<1>3. PageOK'
  BY <1>1, SamePage DEF TypeInv, PageOK
<1>4. NetOK'
  BY <1>1, <1>2, NetLoses DEF TypeInv
<1>5. QED
  BY <1>2, <1>3, <1>4 DEF TypeInv

LEMMA AdministratorTypes ==
  ASSUME TypeInv, Administrator
  PROVE  TypeInv'
<1>1. ASSUME NEW i \in Items, OpenEdit(i) PROVE TypeInv'
  BY <1>1, ButtonTypes DEF OpenEdit
<1>2. ASSUME NEW i \in Items, Delete(i) PROVE TypeInv'
  BY <1>2, ButtonTypes DEF Delete, page
<1>3. ASSUME NEW i \in Items, Unindex(i) PROVE TypeInv'
  <2>1. "network" \in Edited
    BY DEF Edited
  <2>2. QED
    BY <1>3, <2>1, ButtonTypes DEF Unindex, page
<1>4. QED
  BY <1>1, <1>2, <1>3, OpenListTypes, OpenLogTypes, ReloadTypes, SaveTypes, OpenCreateTypes,
     CreateNetworkTypes, CreateChildTypes, CloseTopTypes DEF Administrator

-----------------------------------------------------------------------------
(* Types: the server. *)

\* What a request that is carried out finds, by what it asks for.
LEMMA RequestIs ==
  ASSUME TypeInv, NEW r \in net
  PROVE  /\ r \in Requests /\ r.then <= Len(closures) /\ AsksOK(r) /\ AnswerOK(r)
         /\ r.then \in Nat /\ r.kind \in Kinds /\ r.op \in Ops /\ r.link \in Links
         /\ r.body \in Seq(Links \union {Blank}) /\ r.data \in Seq(Items \union {Blank})
         /\ r.code \in Codes /\ Len(closures) \in Nat
BY DEF TypeInv, NetOK, RequestOK, Requests, ClosuresOK

\* The item that is created next.
LEMMA UnusedFacts ==
  ASSUME NEW k, Unused(k) # <<>>
  PROVE  /\ Head(Unused(k)) \in Items /\ status[Head(Unused(k))] = "free"
         /\ KindOf[Head(Unused(k))] = k
<1> DEFINE S == {i \in Items : status[i] = "free" /\ KindOf[i] = k}
<1>1. Unused(k) = Listed(S)
  BY DEF Unused
<1> HIDE DEF S
<1>2. PICK q \in Seq(Items) : q = Listed(S) /\ \A n \in 1..Len(q) : q[n] \in S
  BY ListedFacts
<1>3. q # <<>> /\ Head(q) = q[1] /\ 1 \in 1..Len(q)
  BY <1>1, <1>2
<1>4. Head(q) \in S
  BY <1>2, <1>3
<1>5. QED
  BY <1>1, <1>2, <1>4 DEF S

LEMMA ChildrenFacts ==
  ASSUME NEW k, NEW p
  PROVE  /\ ListOf(Children(k, p), k)
         /\ \A n \in 1..Len(Children(k, p)) :
              Live(Children(k, p)[n]) /\ parent[Children(k, p)[n]] = p
         /\ \A i \in Items : Live(i) /\ KindOf[i] = k /\ parent[i] = p =>
              \E n \in 1..Len(Children(k, p)) : Children(k, p)[n] = i
<1> DEFINE S == {i \in Items : status[i] = "live" /\ KindOf[i] = k /\ parent[i] = p}
<1>1. Children(k, p) = Listed(S)
  BY DEF Children
<1>2. \A i : i \in S <=> Live(i) /\ KindOf[i] = k /\ parent[i] = p
  BY DEF Live
<1> HIDE DEF S
<1>3. QED
  BY <1>1, <1>2, ListedFacts DEF ListOf

\* A relation goes to a collection, whose kind is not that of a network's set.
LEMMA RelateFacts ==
  ASSUME TypeInv, NEW r \in net, r.op = "relate"
  PROVE  /\ r.then \in 1..Len(closures) /\ r.kind = closures[r.then].kind
         /\ r.link = closures[r.then].link /\ r.link \in Items /\ r.kind \in Appendable
         /\ KindOf[r.link] = ParentKind[r.kind] /\ r.body # <<>>
         /\ \A n \in 1..Len(r.body) :
              r.body[n] # None => r.body[n] \in Items /\ KindOf[r.body[n]] \in Appendable
<1>1. /\ r.then # 0 /\ r.kind = closures[r.then].kind /\ r.link = closures[r.then].link
      /\ r.body # <<>>
      /\ \A n \in 1..Len(r.body) :
           r.body[n] # None => r.body[n] \in Items /\ KindOf[r.body[n]] \in Appendable
  BY RequestIs DEF AsksOK
<1>2. r.then \in 1..Len(closures)
  BY <1>1, RequestIs
<1>3. ClosureOK(closures[r.then])
  BY <1>2 DEF TypeInv, ClosuresOK
<1>4. QED
  BY <1>1, <1>2, <1>3 DEF ClosureOK

LEMMA EffectTypes ==
  ASSUME TypeInv, NEW r \in net, Accepts(r), Effect(r)
  PROVE  ServerOK'
<1>0. /\ status \in [Items -> {"free", "live", "gone"}]
      /\ parent \in [Items -> Links] /\ content \in [Items -> Items \union {Blank}]
      /\ home \in [Items -> Links]
      /\ \A i \in Items : status[i] = "free" \/ KindOf[i] = "network" => parent[i] = None
  BY DEF TypeInv, ServerOK
<1>1. CASE r.op = "destroy"
  <2>1. /\ status' = [i \in Items |->
             IF i \in Family(r.link) /\ Live(i) THEN "gone" ELSE status[i]]
        /\ parent' = parent /\ content' = content /\ home' = home
    BY <1>1 DEF Effect
  <2>2. status' \in [Items -> {"free", "live", "gone"}]
    BY <1>0, <2>1
  <2>3. \A i \in Items : status'[i] = "free" => status[i] = "free"
    BY <1>0, <2>1
  <2>4. QED
    BY <1>0, <2>1, <2>2, <2>3 DEF ServerOK
<1>2. CASE r.op = "create"
  <2> DEFINE new == Head(Unused(r.kind))
  <2>1. /\ status' = [status EXCEPT ![new] = "live"] /\ parent' = parent /\ content' = content
        /\ home' = [home EXCEPT ![new] = r.link]
    BY <1>2 DEF Effect
  <2>2. new \in Items
    BY <1>2, UnusedFacts DEF Accepts
  <2>3. r.link \in Links
    BY RequestIs
  <2> HIDE DEF new
  <2>4. QED
    BY <1>0, <2>1, <2>2, <2>3 DEF ServerOK
<1>3. CASE r.op = "relate"
  <2>1. /\ parent' = [i \in Items |->
             IF \E n \in 1..Len(r.body) : r.body[n] = i THEN r.link
             ELSE IF parent[i] = r.link /\ KindOf[i] = r.kind THEN None ELSE parent[i]]
        /\ status' = status /\ content' = content /\ home' = home
    BY <1>3 DEF Effect
  <2>2. r.link \in Links /\ None \in Links
    BY RequestIs, OpFacts
  <2>3. ASSUME NEW n \in 1..Len(r.body)
        PROVE  status[r.body[n]] = "live" /\ KindOf[r.body[n]] # "network"
    <3>1. Live(r.body[n])
      BY <1>3 DEF Accepts
    <3>2. r.body[n] # None
      BY <3>1, KindFacts DEF Live
    <3>3. QED
      BY <1>3, <3>1, <3>2, RelateFacts DEF Live, Appendable
  <2>4. parent' \in [Items -> Links]
    BY <1>0, <2>1, <2>2
  <2>5. \A i \in Items : status[i] = "free" \/ KindOf[i] = "network" => parent'[i] = None
    BY <1>0, <2>1, <2>3
  <2>6. QED
    BY <1>0, <2>1, <2>4, <2>5 DEF ServerOK
<1>4. CASE r.op = "update"
  <2>1. /\ content' = [content EXCEPT ![r.link] = r.body[1]]
        /\ status' = status /\ parent' = parent /\ home' = home
    BY <1>4 DEF Effect
  <2>2. r.body[1] \in Items \union {Blank}
    BY <1>4, RequestIs DEF AsksOK
  <2>3. QED
    BY <1>0, <2>1, <2>2 DEF ServerOK
<1>5. CASE r.op \notin {"destroy", "create", "relate", "update"}
  <2>1. status' = status /\ parent' = parent /\ content' = content /\ home' = home
    BY <1>5 DEF Effect
  <2>2. QED
    BY <1>0, <2>1 DEF ServerOK
<1>6. QED
  BY <1>1, <1>2, <1>3, <1>4, <1>5

\* What an answer is, by what was asked.
LEMMA ReplyShape ==
  ASSUME NEW r, NEW reply, reply \in Replies(r)
  PROVE  \/ /\ r.op \in {"list", "collect"} /\ reply.code = 200 /\ reply.format = "json"
            /\ reply.data = Children(r.kind, r.link)
         \/ /\ r.op = "edit" /\ reply.code = 200 /\ reply.format = "json"
            /\ reply.data = <<content[r.link]>>
         \/ /\ r.op = "create" /\ reply.code = 201 /\ reply.format \in {"none", "json"}
            /\ reply.data = <<Head(Unused(r.kind))>>
         \/ /\ r.op = "unindex" \/ (r.op = "destroy" /\ r.kind = "network")
            /\ reply.code = 200 /\ reply.format = "text" /\ reply.data = <<>>
         \/ /\ r.op \notin {"list", "collect", "edit", "create", "unindex"}
            /\ ~(r.op = "destroy" /\ r.kind = "network")
            /\ reply.code = 204 /\ reply.format = "none" /\ reply.data = <<>>
<1>1. CASE r.op \in {"list", "collect"}
  BY <1>1 DEF Replies
<1>2. CASE r.op = "edit"
  BY <1>2 DEF Replies
<1>3. CASE r.op = "create"
  <2>1. Replies(r) = {[code |-> 201, data |-> <<Head(Unused(r.kind))>>, format |-> f] :
                        f \in {"none", "json"}}
    BY <1>3 DEF Replies
  <2>2. PICK f \in {"none", "json"} :
          reply = [code |-> 201, data |-> <<Head(Unused(r.kind))>>, format |-> f]
    BY <2>1
  <2>3. reply.code = 201 /\ reply.data = <<Head(Unused(r.kind))>> /\ reply.format = f
    BY <2>2
  <2>4. QED
    BY <1>3, <2>2, <2>3
<1>4. CASE r.op = "unindex" \/ (r.op = "destroy" /\ r.kind = "network")
  BY <1>4 DEF Replies
<1>5. CASE /\ r.op \notin {"list", "collect", "edit", "create", "unindex"}
           /\ ~(r.op = "destroy" /\ r.kind = "network")
  BY <1>5 DEF Replies
<1>6. QED
  BY <1>1, <1>2, <1>3, <1>4, <1>5

\* Which makes it an answer that fits the request.
LEMMA ReplyFits ==
  ASSUME TypeInv, NEW r \in net, Accepts(r), NEW reply, reply \in Replies(r), NEW a,
         a.op = r.op, a.kind = r.kind, a.code = reply.code, a.data = reply.data,
         a.format = reply.format
  PROVE  /\ AnswerOK(a) /\ reply.code \in Codes /\ reply.format \in Formats
         /\ reply.data \in Seq(Items \union {Blank})
<1>1. r.op \in Ops
  BY RequestIs
<1>2. CASE /\ r.op \in {"list", "collect"} /\ reply.code = 200 /\ reply.format = "json"
           /\ reply.data = Children(r.kind, r.link)
  <2>1. ListOf(reply.data, r.kind)
    BY <1>2, ChildrenFacts
  <2>2. reply.data \in Seq(Items \union {Blank})
    BY <2>1 DEF ListOf
  <2>3. AnswerOK(a)
    BY <1>2, <2>1 DEF AnswerOK
  <2>4. QED
    BY <1>2, <2>2, <2>3 DEF Codes, Formats
<1>3. CASE /\ r.op = "edit" /\ reply.code = 200 /\ reply.format = "json"
           /\ reply.data = <<content[r.link]>>
  <2>1. content[r.link] \in Items \union {Blank}
    BY <1>3, RequestIs DEF AsksOK, TypeInv, ServerOK
  <2>2. AnswerOK(a)
    BY <1>3, <2>1 DEF AnswerOK
  <2>3. reply.data \in Seq(Items \union {Blank})
    BY <1>3, <2>1
  <2>4. QED
    BY <1>3, <2>2, <2>3 DEF Codes, Formats
<1>4. CASE /\ r.op = "create" /\ reply.code = 201 /\ reply.format \in {"none", "json"}
           /\ reply.data = <<Head(Unused(r.kind))>>
  <2>1. Head(Unused(r.kind)) \in Items /\ KindOf[Head(Unused(r.kind))] = r.kind
    BY <1>4, UnusedFacts DEF Accepts
  <2>2. AnswerOK(a)
    BY <1>4, <2>1 DEF AnswerOK
  <2>3. reply.data \in Seq(Items \union {Blank})
    BY <1>4, <2>1
  <2>4. QED
    BY <1>4, <2>2, <2>3 DEF Codes, Formats
<1>5. CASE /\ r.op = "unindex" \/ (r.op = "destroy" /\ r.kind = "network")
           /\ reply.code = 200 /\ reply.format = "text" /\ reply.data = <<>>
  <2>1. AnswerOK(a)
    BY <1>5 DEF AnswerOK
  <2>2. QED
    BY <1>5, <2>1 DEF Codes, Formats
<1>6. CASE /\ r.op \notin {"list", "collect", "edit", "create", "unindex"}
           /\ ~(r.op = "destroy" /\ r.kind = "network")
           /\ reply.code = 204 /\ reply.format = "none" /\ reply.data = <<>>
  <2>1. r.op \in {"update", "relate"} \/ (r.op = "destroy" /\ r.kind # "network")
    BY <1>1, <1>6 DEF Ops
  <2>2. AnswerOK(a)
    BY <1>6, <2>1 DEF AnswerOK
  <2>3. QED
    BY <1>6, <2>2 DEF Codes, Formats
<1>7. QED
  BY <1>2, <1>3, <1>4, <1>5, <1>6, ReplyShape

\* The copy of a request that is its answer.
Answering(r, reply) ==
  [r EXCEPT !.code = reply.code, !.data = reply.data, !.format = reply.format]

LEMMA AnsweringFacts ==
  ASSUME NEW r \in Requests, NEW reply
  PROVE  LET a == Answering(r, reply)
         IN  /\ a.id = r.id /\ a.op = r.op /\ a.kind = r.kind /\ a.link = r.link
             /\ a.body = r.body /\ a.then = r.then
             /\ a.code = reply.code /\ a.data = reply.data /\ a.format = reply.format
BY DEF Answering, Requests

LEMMA ServedTypes ==
  ASSUME TypeInv, NEW r \in net, ServerOK', UNCHANGED page, UNCHANGED <<opened, astray>>,
         \/ Answer(r, Failure)
         \/ Accepts(r) /\ \E reply \in Replies(r) : Answer(r, reply)
  PROVE  TypeInv'
<1>1. PageOK' /\ StackOK' /\ ClosuresOK'
  <2>1. astray' \in BOOLEAN
    BY DEF TypeInv, PageOK
  <2>2. QED
    BY <2>1, SamePage, SameStack, SameClosures DEF page
<1>2. PICK reply : Answer(r, reply) /\ (reply = Failure \/ (Accepts(r) /\ reply \in Replies(r)))
  OBVIOUS
<1>3. PICK a : a = Answering(r, reply)
  OBVIOUS
<1>4. a.op = r.op /\ a.kind = r.kind /\ a.code = reply.code /\ a.data = reply.data
      /\ a.format = reply.format
  BY <1>3, AnsweringFacts, RequestIs
<1>5. /\ AnswerOK(a) /\ reply.code \in Codes /\ reply.format \in Formats
      /\ reply.data \in Seq(Items \union {Blank})
  <2>1. CASE reply = Failure
    BY <1>4, <2>1 DEF Failure, AnswerOK, Codes, Formats
  <2>2. CASE Accepts(r) /\ reply \in Replies(r)
    BY <1>4, <2>2, ReplyFits
  <2>3. QED
    BY <1>2, <2>1, <2>2
<1>6. AnswerOK([r EXCEPT !.code = reply.code, !.data = reply.data, !.format = reply.format])
  BY <1>3, <1>5 DEF Answering
<1>7. NetOK /\ ClosuresOK /\ UNCHANGED <<closures, onCreated>>
  BY DEF TypeInv, page
<1>8. NetOK'
  BY <1>2, <1>5, <1>6, <1>7, AnswerFacts
<1>9. QED
  BY <1>1, <1>8 DEF TypeInv

LEMMA ServeTypes ==
  ASSUME TypeInv, NEW r \in net, Serve(r) \/ Fail(r)
  PROVE  TypeInv'
<1>1. /\ UNCHANGED <<page, opened, astray>>
      /\ \/ Accepts(r) /\ Effect(r) /\ \E reply \in Replies(r) : Answer(r, reply)
         \/ Answer(r, Failure) /\ UNCHANGED <<server, home>>
         \/ Answer(r, Failure) /\ Accepts(r) /\ Effect(r)
  BY DEF Serve, Fail
<1>2. ServerOK'
  BY <1>1, SameServer, EffectTypes
<1>3. QED
  BY <1>1, <1>2, ServedTypes

-----------------------------------------------------------------------------
(* Types: the handlers of answers. *)

LEMMA NetWithout ==
  ASSUME TypeInv, NEW r, net' = net \ {r}, UNCHANGED <<closures, onCreated>>
  PROVE  ClosuresOK' /\ NetOK'
<1>1. ClosuresOK' /\ Grows
  BY SameClosures
<1>2. QED
  BY <1>1, NetLoses DEF TypeInv

\* A refresh, or none: whatever is loaded goes by a link of the page.
LEMMA RefreshTypes ==
  ASSUME TypeInv, NEW r, NEW k \in Edited, UNCHANGED <<server, home>>,
         UNCHANGED <<actual, form, stack, onCreated, closures, opened, astray>>,
         \/ Refresh(k, r)
         \/ net' = net \ {r} /\ UNCHANGED <<dst, rows>>
  PROVE  TypeInv'
<1>1. ServerOK' /\ ClosuresOK' /\ Grows /\ StackOK'
  BY SameServer, SameClosures, SameStack
<1>2. CASE Refresh(k, r)
  <2> DEFINE p == IF k = "network" THEN None ELSE actual[ParentKind[k]]
  <2>1. k \in Kinds /\ (k # "network" => ParentKind[k] \in Edited)
    BY KindFacts DEF Edited
  <2>2. p \in Links
    BY <2>1, OpFacts DEF TypeInv, PageOK
  <2>3. Load(k, p, net \ {r})
    BY <1>2 DEF Refresh
  <2> HIDE DEF p
  <2>4. NetOK' /\ dst' \in Kinds /\ rows' \in [Kinds -> Seq(Items)]
    BY <1>1, <2>1, <2>2, <2>3, LoadOK
  <2>5. PageOK'
    BY <2>4 DEF TypeInv, PageOK
  <2>6. QED
    BY <1>1, <2>4, <2>5 DEF TypeInv
<1>3. CASE net' = net \ {r} /\ UNCHANGED <<dst, rows>>
  <2>1. NetOK'
    BY <1>3, NetWithout
  <2>2. PageOK'
    BY <1>3, SamePage DEF TypeInv, PageOK
  <2>3. QED
    BY <1>1, <2>1, <2>2 DEF TypeInv
<1>4. QED
  BY <1>2, <1>3

\* A list is answered by items.
LEMMA ListAnswer ==
  ASSUME TypeInv, NEW r \in net, r.op \in {"list", "collect"}, Succeeds(r)
  PROVE  r.code = 200 /\ ListOf(r.data, r.kind)
BY RequestIs DEF AnswerOK, Succeeds

LEMMA JoinedFacts ==
  ASSUME NEW p \in Seq(Items), NEW q \in Seq(Items)
  PROVE  Joined(p, q) \in Seq(Items)
<1>1. SubSeq(q, Len(p) + 1, Len(q)) \in Seq(Items)
  OBVIOUS
<1>2. QED
  BY <1>1 DEF Joined

LEMMA ListArrivesTypes ==
  ASSUME TypeInv, NEW r \in net, ListArrives(r)
  PROVE  TypeInv'
<1>1. /\ r.op = "list" /\ net' = net \ {r}
      /\ \/ /\ Succeeds(r) /\ rows' = [rows EXCEPT ![dst] = Joined(@, r.data)]
            /\ stack' = IF r.kind = "log" THEN Open(<<"list", "log">>) ELSE stack
         \/ UNCHANGED <<rows, stack>>
      /\ UNCHANGED <<server, home, actual, dst, form, onCreated, closures, opened, astray>>
  BY DEF ListArrives, Answered
<1>2. ServerOK' /\ ClosuresOK' /\ NetOK'
  BY <1>1, SameServer, NetWithout
<1>3. dst \in Kinds /\ rows \in [Kinds -> Seq(Items)]
  BY DEF TypeInv, PageOK
<1>4. rows' \in [Kinds -> Seq(Items)]
  <2>1. CASE Succeeds(r) /\ rows' = [rows EXCEPT ![dst] = Joined(@, r.data)]
    <3>1. r.data \in Seq(Items)
      BY <1>1, <2>1, ListAnswer DEF ListOf
    <3>2. Joined(rows[dst], r.data) \in Seq(Items)
      BY <1>3, <3>1, JoinedFacts
    <3>3. QED
      BY <1>3, <2>1, <3>2
  <2>2. QED
    BY <1>1, <1>3, <2>1
<1>5. PageOK'
  BY <1>1, <1>4 DEF TypeInv, PageOK
<1>6. StackOK'
  <2>1. CASE stack' = Open(<<"list", "log">>)
    <3>1. <<"list", "log">> \in Dialogs
      BY DialogFacts DEF Kinds
    <3>2. \A t \in Nested : <<"list", "log">> \notin {<<"list", t>>, <<"create", t>>}
      BY DEF Nested
    <3>3. QED
      BY <1>1, <2>1, <3>1, <3>2, OpenedStack
  <2>2. CASE stack' = stack
    BY <1>1, <2>2, SameStack
  <2>3. QED
    BY <1>1, <2>1, <2>2
<1>7. QED
  BY <1>2, <1>5, <1>6 DEF TypeInv

LEMMA FormArrivesTypes ==
  ASSUME TypeInv, NEW r \in net, FormArrives(r)
  PROVE  TypeInv'
<1>1. /\ r.op = "edit" /\ ~Waiting(r) /\ net' = net \ {r}
      /\ \/ /\ Succeeds(r) /\ form' = [form EXCEPT ![r.kind] = r.data[1]]
            /\ stack' = Open(<<"edit", r.kind>>)
         \/ form' = [form EXCEPT ![r.kind] = Blank] /\ stack' = Open(<<"edit", r.kind>>)
         \/ UNCHANGED <<form, stack>>
      /\ UNCHANGED <<server, home, actual, dst, rows, onCreated, closures, opened, astray>>
  BY DEF FormArrives, Answered
<1>2. r.kind \in Edited
  BY <1>1, RequestIs DEF AsksOK
<1>3. ServerOK' /\ ClosuresOK' /\ NetOK'
  BY <1>1, SameServer, NetWithout
<1>4. Succeeds(r) => r.data[1] \in Items \union {Blank}
  BY <1>1, RequestIs DEF AnswerOK, Succeeds
<1>5. form' \in [Edited -> Items \union {Blank}]
  BY <1>1, <1>2, <1>4 DEF TypeInv, PageOK
<1>6. PageOK'
  BY <1>1, <1>5 DEF TypeInv, PageOK
<1>7. StackOK'
  <2>1. CASE stack' = Open(<<"edit", r.kind>>)
    <3>1. <<"edit", r.kind>> \in Dialogs
      BY <1>2, DialogFacts
    <3>2. \A t \in Nested : <<"edit", r.kind>> \notin {<<"list", t>>, <<"create", t>>}
      OBVIOUS
    <3>3. QED
      BY <1>1, <2>1, <3>1, <3>2, OpenedStack
  <2>2. CASE stack' = stack
    BY <1>1, <2>2, SameStack
  <2>3. QED
    BY <1>1, <2>1, <2>2
<1>8. QED
  BY <1>3, <1>6, <1>7 DEF TypeInv

LEMMA CollectionArrivesTypes ==
  ASSUME TypeInv, NEW r \in net, CollectionArrives(r)
  PROVE  TypeInv'
<1>1. PICK a : a = r.then
  OBVIOUS
<1>2. PICK more : more = IF Succeeds(r) THEN r.data ELSE <<>>
  OBVIOUS
<1>3. /\ r.op = "collect"
      /\ closures' = [closures EXCEPT ![a].items = @ \o more]
      /\ net' = (net \ {r}) \union
           {Request("create", closures[a].kind, closures[a].meant, <<>>, onCreated)}
      /\ UNCHANGED <<server, home, actual, dst, rows, form, stack, onCreated, opened, astray>>
  BY <1>1, <1>2 DEF CollectionArrives, Answered
<1>4. a \in 1..Len(closures) /\ r.kind = closures[a].kind
  BY <1>1, <1>3, RequestIs DEF AsksOK
<1>5. /\ closures \in Seq([kind : Appendable, link : Items, meant : Items, items : Seq(Items)])
      /\ \A b \in 1..Len(closures) : ClosureOK(closures[b])
      /\ onCreated = Len(closures)
  BY DEF TypeInv, ClosuresOK
<1>6. ListOf(more, closures[a].kind)
  <2>1. ListOf(<<>>, closures[a].kind)
    BY DEF ListOf
  <2>2. QED
    BY <1>2, <1>3, <1>4, <2>1, ListAnswer
<1>7. PICK c : c = [closures[a] EXCEPT !.items = @ \o more]
  OBVIOUS
<1>8. closures' = [closures EXCEPT ![a] = c]
  BY <1>3, <1>7
<1>9. ClosureOK(closures[a])
  BY <1>4, <1>5
<1>10. /\ c.kind = closures[a].kind /\ c.link = closures[a].link /\ c.meant = closures[a].meant
       /\ c.items = closures[a].items \o more
       /\ c \in [kind : Appendable, link : Items, meant : Items, items : Seq(Items)]
  <2>1. closures[a].items \o more \in Seq(Items)
    BY <1>6, <1>9 DEF ClosureOK, ListOf
  <2>2. QED
    BY <1>7, <1>9, <2>1 DEF ClosureOK
<1>11. ListOf(c.items, c.kind)
  <2>1. PICK p \in Seq(Items) : p = closures[a].items /\ \A n \in 1..Len(p) : KindOf[p[n]] = c.kind
    BY <1>9, <1>10 DEF ClosureOK, ListOf
  <2>2. more \in Seq(Items) /\ \A n \in 1..Len(more) : KindOf[more[n]] = c.kind
    BY <1>6, <1>10 DEF ListOf
  <2>3. /\ p \o more \in Seq(Items) /\ Len(p \o more) = Len(p) + Len(more)
        /\ \A n \in 1..(Len(p) + Len(more)) :
             (p \o more)[n] = IF n <= Len(p) THEN p[n] ELSE more[n - Len(p)]
    BY <2>2
  <2>4. \A n \in 1..(Len(p) + Len(more)) : n <= Len(p) \/ n - Len(p) \in 1..Len(more)
    BY <2>2
  <2>5. ASSUME NEW n \in 1..(Len(p) + Len(more)) PROVE KindOf[(p \o more)[n]] = c.kind
    <3>1. CASE n <= Len(p)
      BY <2>1, <2>3, <3>1
    <3>2. CASE ~(n <= Len(p))
      BY <2>2, <2>3, <2>4, <3>2
    <3>3. QED
      BY <3>1, <3>2
  <2>6. c.items = p \o more
    BY <1>10, <2>1
  <2>7. QED
    BY <2>3, <2>5, <2>6 DEF ListOf
<1>12. ClosureOK(c)
  BY <1>9, <1>10, <1>11 DEF ClosureOK
<1>13. /\ closures' \in Seq([kind : Appendable, link : Items, meant : Items, items : Seq(Items)])
       /\ Len(closures') = Len(closures) /\ Len(closures) \in Nat
       /\ \A b \in 1..Len(closures) : closures'[b] = IF b = a THEN c ELSE closures[b]
  <2>1. PICK C : C = [kind : Appendable, link : Items, meant : Items, items : Seq(Items)]
    OBVIOUS
  <2>2. closures \in Seq(C) /\ c \in C
    BY <1>5, <1>10, <2>1
  <2>3. /\ closures' \in Seq(C) /\ Len(closures') = Len(closures) /\ Len(closures) \in Nat
        /\ \A b \in 1..Len(closures) : closures'[b] = IF b = a THEN c ELSE closures[b]
    BY <1>4, <1>8, <2>2
  <2>4. QED
    BY <2>1, <2>3
<1>14. ClosuresOK'
  <2>1. \A b \in 1..Len(closures') : ClosureOK(closures'[b])
    BY <1>5, <1>12, <1>13
  <2>2. onCreated' = Len(closures')
    BY <1>3, <1>5, <1>13
  <2>3. QED
    BY <1>13, <2>1, <2>2 DEF ClosuresOK, ClosureOK
<1>15. Grows
  <2>1. ASSUME NEW b \in 1..Len(closures)
        PROVE  /\ closures'[b].kind = closures[b].kind /\ closures'[b].link = closures[b].link
               /\ closures'[b].meant = closures[b].meant
    BY <1>10, <1>13
  <2>2. Len(closures) <= Len(closures')
    BY <1>13
  <2>3. QED
    BY <2>1, <2>2 DEF Grows
<1>16. PICK k, m : k = closures[a].kind /\ m = closures[a].meant
  OBVIOUS
<1>17. k \in Appendable /\ k \in Kinds /\ m \in Items /\ m \in Links
  BY <1>9, <1>16, KindFacts, OpFacts DEF ClosureOK
<1>18. onCreated \in Nat /\ onCreated <= Len(closures') /\ onCreated # 0
  BY <1>4, <1>5, <1>13
<1>19. PICK n \in Nat : n = onCreated
  BY <1>18
<1>20. NetOK'
  <2>1. ASSUME NEW q, q.op = "create", q.kind = k, q.link = m, q.then = n PROVE AsksOK(q)'
    BY <1>17, <1>18, <1>19, <2>1 DEF AsksOK
  <2>2. net' = (net \ {r}) \union {Request("create", k, m, <<>>, n)}
    BY <1>3, <1>16, <1>19
  <2>3. QED
    BY <1>14, <1>15, <1>17, <1>18, <1>19, <2>1, <2>2, OpFacts, AskOK
<1>21. ServerOK' /\ StackOK'
  BY <1>3, SameServer, SameStack
<1>22. PageOK'
  BY <1>3, SamePage DEF TypeInv, PageOK
<1>23. QED
  BY <1>14, <1>20, <1>21, <1>22 DEF TypeInv

\* What the relation that follows a creation asks for.
LEMMA RelationBody ==
  ASSUME TypeInv, NEW r \in net, r.op = "create", r.then # 0, NEW last,
         last = IF r.code = 201 THEN r.data ELSE <<None>>
  PROVE  /\ closures[r.then].items \in Seq(Items) /\ r.then \in 1..Len(closures)
         /\ \E x \in Links :
              last = <<x>> /\ (x # None => KindOf[x] \in Appendable /\ r.code = 201)
<1>1. r.then \in 1..Len(closures) /\ r.kind \in Appendable
  BY RequestIs DEF AsksOK
<1>2. closures[r.then].items \in Seq(Items)
  BY <1>1 DEF TypeInv, ClosuresOK, ClosureOK
<1>3. CASE r.code = 201
  <2>1. \E i \in Items : KindOf[i] = r.kind /\ r.data = <<i>>
    BY <1>3, RequestIs DEF AnswerOK
  <2>2. QED
    BY <1>1, <1>2, <1>3, <2>1, OpFacts
<1>4. CASE r.code # 201
  BY <1>1, <1>2, <1>4, OpFacts
<1>5. QED
  BY <1>3, <1>4

LEMMA ChildCreatedTypes ==
  ASSUME TypeInv, NEW r \in net, ChildCreated(r)
  PROVE  TypeInv'
<1>1. /\ r.op = "create" /\ r.then # 0
      /\ UNCHANGED <<server, page, opened, home, astray>>
      /\ \/ net' = net \ {r}
         \/ net' = (net \ {r}) \union
              {Request("relate", closures[r.then].kind, closures[r.then].link,
                       closures[r.then].items \o (IF r.code = 201 THEN r.data ELSE <<None>>),
                       r.then)}
  BY DEF ChildCreated, Answered
<1>2. ServerOK' /\ StackOK' /\ ClosuresOK' /\ Grows
  BY <1>1, SameServer, SameStack, SameClosures DEF page
<1>3. PageOK'
  BY <1>1, SamePage DEF TypeInv, PageOK, page
<1>4. NetOK'
  <2>1. CASE net' = net \ {r}
    BY <1>1, <2>1, NetWithout DEF page
  <2>2. CASE net' # net \ {r}
    <3> DEFINE last == IF r.code = 201 THEN r.data ELSE <<None>>
    <3>1. last = IF r.code = 201 THEN r.data ELSE <<None>>
      OBVIOUS
    <3> HIDE DEF last
    <3>2. PICK x \in Links : last = <<x>> /\ (x # None => KindOf[x] \in Appendable)
      BY <1>1, <3>1, RelationBody
    <3>3. r.then \in 1..Len(closures) /\ closures[r.then].items \in Seq(Items)
      BY <1>1, <3>1, RelationBody
    <3>4. ClosureOK(closures[r.then])
      BY <3>3 DEF TypeInv, ClosuresOK
    <3>5. PICK items \in Seq(Items) : items = closures[r.then].items
      BY <3>3
    <3>6. PICK body : body = Append(items, x)
      OBVIOUS
    <3>7. items \o last = body
      BY <3>2, <3>6
    <3>8. /\ items \in Seq(Links \union {Blank}) /\ body \in Seq(Links \union {Blank})
          /\ Len(body) = Len(items) + 1 /\ body[Len(items) + 1] = x
          /\ \A n \in 1..Len(items) : body[n] = items[n]
      BY <3>2, <3>6 DEF Links
    <3>9. \A n \in 1..Len(items) : items[n] \in Items /\ KindOf[items[n]] \in Appendable
      BY <3>4, <3>5 DEF ClosureOK, ListOf
    <3>10. ASSUME NEW n \in 1..Len(body), body[n] # None
           PROVE  body[n] \in Items /\ KindOf[body[n]] \in Appendable
      <4>1. n \in 1..Len(items) \/ n = Len(items) + 1
        BY <3>8
      <4>2. QED
        BY <3>2, <3>8, <3>9, <3>10, <4>1 DEF Links
    <3>11. PICK k, p, a : k = closures[r.then].kind /\ p = closures[r.then].link /\ a = r.then
      OBVIOUS
    <3>12. k \in Kinds /\ p \in Links /\ a \in Nat /\ a <= Len(closures') /\ a # 0
      BY <1>1, <3>3, <3>4, <3>11, KindFacts, OpFacts DEF ClosureOK, page
    <3>13. net' = (net \ {r}) \union {Request("relate", k, p, body, a)}
      BY <1>1, <2>2, <3>5, <3>7, <3>11 DEF last
    <3>14. body # <<>>
      BY <3>8
    <3>15. k = closures'[a].kind /\ p = closures'[a].link
      BY <1>1, <3>11 DEF page
    <3>16. ASSUME NEW q, q.op = "relate", q.kind = k, q.link = p, q.body = body, q.then = a
           PROVE  AsksOK(q)'
      BY <3>10, <3>12, <3>14, <3>15, <3>16 DEF AsksOK
    <3>17. QED
      BY <1>2, <3>8, <3>12, <3>13, <3>16, OpFacts, AskOK
  <2>3. QED
    BY <2>1, <2>2
<1>5. QED
  BY <1>2, <1>3, <1>4 DEF TypeInv

LEMMA HandleTypes ==
  ASSUME TypeInv, NEW r \in net, Handle(r)
  PROVE  TypeInv'
<1>0. "network" \in Edited /\ Appendable \subseteq Edited
  BY KindFacts DEF Edited
<1>1. CASE Updated(r)
  <2>1. r.kind \in Edited
    BY <1>1, RequestIs DEF Updated, Answered, AsksOK
  <2>2. QED
    BY <1>1, <2>1, RefreshTypes DEF Updated, NoRefresh
<1>2. CASE Deleted(r)
  <2>1. r.kind \in Edited
    BY <1>0, <1>2, RequestIs DEF Deleted, Answered, AsksOK
  <2>2. QED
    BY <1>2, <2>1, RefreshTypes DEF Deleted
<1>3. CASE NetworkCreated(r)
  BY <1>0, <1>3, RefreshTypes DEF NetworkCreated
<1>4. CASE Related(r)
  <2>1. closures[r.then].kind \in Edited
    BY <1>0, <1>4, RelateFacts DEF Related, Answered
  <2>2. QED
    BY <1>4, <2>1, RefreshTypes DEF Related
<1>5. QED
  BY <1>1, <1>2, <1>3, <1>4, ListArrivesTypes, FormArrivesTypes, CollectionArrivesTypes,
     ChildCreatedTypes DEF Handle

LEMMA TypeStep ==
  ASSUME TypeInv, [Next]_vars
  PROVE  TypeInv'
<1>1. CASE UNCHANGED vars
  <2>1. UNCHANGED <<server, page, net, history>>
    BY <1>1 DEF vars
  <2>2. ServerOK' /\ StackOK' /\ ClosuresOK' /\ Grows
    BY <2>1, SameServer, SameStack, SameClosures DEF page, history
  <2>3. PageOK'
    BY <2>1, SamePage DEF TypeInv, PageOK, page, history
  <2>4. NetOK'
    BY <2>1, <2>2, NetLoses DEF TypeInv
  <2>5. QED
    BY <2>2, <2>3, <2>4 DEF TypeInv
<1>2. QED
  BY <1>1, AdministratorTypes, ServeTypes, HandleTypes DEF Next

\* The state is well typed: the stack has no dialog twice, the handler of a
\* creation is that of the last append(), and no two requests have one number.
THEOREM TypeCorrect == Spec => []TypeOK
<1>1. TypeInv => TypeOK
  <2>1. ASSUME TypeInv PROVE \A k \in Kinds : rows[k] \in Seq(Items)
    BY <2>1 DEF TypeInv, PageOK
  <2>2. QED
    BY <2>1 DEF TypeInv, ServerOK, PageOK, StackOK, ClosuresOK, NetOK, TypeOK
<1>2. Spec => []TypeInv
  BY TypeInit, TypeStep, PTL DEF Spec
<1>3. QED
  BY <1>1, <1>2, PTL

-----------------------------------------------------------------------------
(* What the page has heard of exists, or did. *)

\* Only a request that is carried out changes the rows.
LEMMA StepServer ==
  ASSUME TypeInv, [Next]_vars
  PROVE  UNCHANGED <<server, home>> \/ \E r \in net : Accepts(r) /\ Effect(r)
<1>1. CASE UNCHANGED vars
  BY <1>1 DEF vars, history
<1>2. CASE Administrator
  BY <1>2 DEF Administrator, OpenList, OpenLog, OpenEdit, Delete, Unindex, SaveEdit, OpenCreate,
     CreateChild, ReloadSnapshots, CreateNetwork, CloseTop, history
<1>3. ASSUME NEW r \in net, Serve(r) \/ Fail(r)
      PROVE  UNCHANGED <<server, home>> \/ (Accepts(r) /\ Effect(r))
  BY <1>3 DEF Serve, Fail
<1>4. ASSUME NEW r \in net, Handle(r) PROVE UNCHANGED <<server, home>>
  BY <1>4 DEF Handle, ListArrives, FormArrives, Updated, Deleted, CollectionArrives,
     NetworkCreated, ChildCreated, Related, history
<1>5. QED
  BY <1>1, <1>2, <1>3, <1>4 DEF Next

\* What is no longer free stays so.
LEMMA EffectKnows ==
  ASSUME TypeInv, NEW r \in net, Accepts(r), Effect(r)
  PROVE  \A i : Known(i, status) => Known(i, status')
<1>0. status \in [Items -> {"free", "live", "gone"}]
  BY DEF TypeInv, ServerOK
<1>1. CASE r.op = "destroy"
  <2>1. status' = [i \in Items |-> IF i \in Family(r.link) /\ Live(i) THEN "gone" ELSE status[i]]
    BY <1>1 DEF Effect
  <2>2. \A i \in Items : status'[i] \in {"gone", status[i]}
    BY <1>0, <2>1
  <2>3. QED
    BY <2>2 DEF Known
<1>2. CASE r.op = "create"
  <2>1. status' = [status EXCEPT ![Head(Unused(r.kind))] = "live"]
    BY <1>2 DEF Effect
  <2>2. \A i \in Items : status'[i] \in {"live", status[i]}
    BY <1>0, <2>1
  <2>3. QED
    BY <2>2 DEF Known
<1>3. CASE r.op \notin {"destroy", "create"}
  <2>1. status' = status
    BY <1>3 DEF Effect
  <2>2. QED
    BY <2>1 DEF Known
<1>4. QED
  BY <1>1, <1>2, <1>3

LEMMA KnownStays ==
  ASSUME TypeInv, [Next]_vars
  PROVE  \A i : Known(i, status) => Known(i, status')
<1>1. CASE UNCHANGED <<server, home>>
  BY <1>1 DEF Known, server
<1>2. QED
  BY <1>1, StepServer, EffectKnows

\* A step that sends at most one request and adds nothing unknown to the page.
LEMMA KnownParts ==
  ASSUME KnownInv, \A i : Known(i, status) => Known(i, status'),
         \A t \in Kinds : rows'[t] = rows[t] \/ AllKnown(rows'[t], status'),
         \A t \in Kinds : opened'[t] = opened[t] \/ Known(opened'[t], status),
         \A a \in 1..Len(closures') :
           \/ a \in 1..Len(closures) /\ closures'[a].items = closures[a].items
           \/ AllKnown(closures'[a].items, status'),
         \A r \in net' : r \in net \/ KnownIn(r, status')
  PROVE  KnownInv'
<1>1. \A q : AllKnown(q, status) => AllKnown(q, status')
  BY DEF AllKnown
<1>2. \A t \in Kinds : AllKnown(rows'[t], status')
  BY <1>1 DEF KnownInv
<1>3. \A t \in Kinds : Known(opened'[t], status')
  BY DEF KnownInv
<1>4. \A a \in 1..Len(closures') : AllKnown(closures'[a].items, status')
  BY <1>1 DEF KnownInv
<1>5. \A r \in net' : KnownIn(r, status')
  BY <1>1 DEF KnownInv, KnownIn
<1>6. QED
  BY <1>2, <1>3, <1>4, <1>5 DEF KnownInv, AllKnown, Known

LEMMA EmptyKnown == AllKnown(<<>>, status) /\ AllKnown(<<>>, status')
BY DEF AllKnown

LEMMA NewKnown ==
  ASSUME NEW op, NEW kind, NEW link, NEW body, NEW then, NEW q,
         q = Request(op, kind, link, body, then), op = "relate" => AllKnown(body, status')
  PROVE  KnownIn(q, status')
<1>1. q.op = op /\ q.body = body /\ q.data = <<>>
  BY RequestFacts
<1>2. QED
  BY <1>1, EmptyKnown DEF KnownIn

LEMMA LoadKnown ==
  ASSUME TypeInv, NEW t \in Kinds, NEW p, NEW rest \in SUBSET net, Load(t, p, rest)
  PROVE  /\ \A k \in Kinds : rows'[k] = rows[k] \/ AllKnown(rows'[k], status')
         /\ \A r \in net' : r \in net \/ KnownIn(r, status')
<1>1. rows' = [rows EXCEPT ![t] = <<>>] /\ rows \in [Kinds -> Seq(Items)]
  BY DEF Load, TypeInv, PageOK
<1>2. \A k \in Kinds : rows'[k] = rows[k] \/ rows'[k] = <<>>
  BY <1>1
<1>3. net' = rest \union {Request("list", t, p, <<>>, 0)}
  BY DEF Load
<1>4. \A q : q = Request("list", t, p, <<>>, 0) => KnownIn(q, status')
  BY NewKnown
<1>5. QED
  BY <1>2, <1>3, <1>4, EmptyKnown DEF AllKnown, Known

LEMMA ShownKnown ==
  ASSUME KnownInv, NEW i \in Items, Shown(i)
  PROVE  Known(i, status)
BY DEF Shown, KnownInv, AllKnown

LEMMA AdministratorKnows ==
  ASSUME TypeInv, KnownInv, Administrator, \A i : Known(i, status) => Known(i, status')
  PROVE  KnownInv'
<1>0. opened \in [Kinds -> Links]
  BY DEF TypeInv, PageOK
<1>1. ASSUME NEW i \in Items, NEW t \in Kinds, OpenList(i, t) PROVE KnownInv'
  <2>1. /\ Load(t, i, net) /\ Shown(i) /\ opened' = [opened EXCEPT ![t] = i]
        /\ UNCHANGED closures
    BY <1>1 DEF OpenList
  <2>2. \A k \in Kinds : opened'[k] = opened[k] \/ Known(opened'[k], status)
    BY <1>0, <2>1, ShownKnown
  <2>3. /\ \A k \in Kinds : rows'[k] = rows[k] \/ AllKnown(rows'[k], status')
        /\ \A r \in net' : r \in net \/ KnownIn(r, status')
    BY <2>1, LoadKnown
  <2>4. QED
    BY <2>1, <2>2, <2>3, KnownParts
<1>2. ASSUME NEW i \in Items, OpenLog(i) PROVE KnownInv'
  <2>1. /\ Load("log", i, net) /\ Shown(i) /\ opened' = [opened EXCEPT !["log"] = i]
        /\ UNCHANGED closures /\ "log" \in Kinds
    BY <1>2 DEF OpenLog, Kinds
  <2>2. \A k \in Kinds : opened'[k] = opened[k] \/ Known(opened'[k], status)
    BY <1>0, <2>1, ShownKnown
  <2>3. /\ \A k \in Kinds : rows'[k] = rows[k] \/ AllKnown(rows'[k], status')
        /\ \A r \in net' : r \in net \/ KnownIn(r, status')
    BY <2>1, LoadKnown
  <2>4. QED
    BY <2>1, <2>2, <2>3, KnownParts
<1>3. CASE ReloadSnapshots
  <2>1. Load("snapshot", actual["network"], net) /\ UNCHANGED <<closures, opened>>
        /\ "snapshot" \in Kinds
    BY <1>3 DEF ReloadSnapshots, Kinds
  <2>2. /\ \A k \in Kinds : rows'[k] = rows[k] \/ AllKnown(rows'[k], status')
        /\ \A r \in net' : r \in net \/ KnownIn(r, status')
    BY <2>1, LoadKnown
  <2>3. QED
    BY <2>1, <2>2, KnownParts
<1>4. ASSUME UNCHANGED <<rows, opened, closures>>,
             NEW op, NEW kind, NEW link, NEW body, NEW then, op # "relate",
             net' = net \union {Request(op, kind, link, body, then)}
      PROVE  KnownInv'
  <2>1. \A r \in net' : r \in net \/ KnownIn(r, status')
    BY <1>4, NewKnown
  <2>2. QED
    BY <1>4, <2>1, KnownParts
<1>5. ASSUME NEW i \in Items, OpenEdit(i) \/ Delete(i) \/ Unindex(i) PROVE KnownInv'
  <2>1. /\ UNCHANGED <<rows, opened, closures>>
        /\ \/ net' = net \union {Request("edit", KindOf[i], i, <<>>, 0)}
           \/ net' = net \union {Request("destroy", KindOf[i], i, <<>>, 0)}
           \/ net' = net \union {Request("unindex", "network", i, <<>>, 0)}
    BY <1>5 DEF OpenEdit, Delete, Unindex, page
  <2>2. QED
    BY <1>4, <2>1
<1>6. ASSUME NEW k \in Edited, SaveEdit(k) PROVE KnownInv'
  <2>1. /\ UNCHANGED <<rows, opened, closures>>
        /\ net' = net \union {Request("update", k, actual[k], <<form[k]>>, 0)}
    BY <1>6 DEF SaveEdit, history
  <2>2. QED
    BY <1>4, <2>1
<1>7. CASE CreateNetwork
  <2>1. /\ UNCHANGED <<rows, opened, closures>>
        /\ net' = net \union {Request("create", "network", None, <<>>, 0)}
    BY <1>7 DEF CreateNetwork, history
  <2>2. QED
    BY <1>4, <2>1
<1>8. ASSUME NEW k \in Edited, CreateChild(k) PROVE KnownInv'
  <2>1. PICK c : c = [kind |-> k, link |-> actual[ParentKind[k]], meant |-> opened[k],
                      items |-> <<>>]
    OBVIOUS
  <2>2. /\ closures' = Append(closures, c)
        /\ net' = net \union {Request("collect", k, actual[ParentKind[k]], <<>>, Len(closures'))}
        /\ UNCHANGED <<rows, opened>>
    BY <1>8, <2>1 DEF CreateChild
  <2>3. PICK n : n = Len(closures')
    OBVIOUS
  <2>4. net' = net \union {Request("collect", k, actual[ParentKind[k]], <<>>, n)}
    BY <2>2, <2>3
  <2>5. \A r \in net' : r \in net \/ KnownIn(r, status')
    BY <2>4, NewKnown
  <2>6. c.items = <<>>
    BY <2>1
  <2>7. /\ Len(closures') = Len(closures) + 1 /\ closures'[Len(closures) + 1] = c
        /\ \A a \in 1..Len(closures) : closures'[a] = closures[a]
        /\ Len(closures) \in Nat
    BY <2>2 DEF TypeInv, ClosuresOK
  <2>8. ASSUME NEW a \in 1..Len(closures')
        PROVE  \/ a \in 1..Len(closures) /\ closures'[a].items = closures[a].items
               \/ AllKnown(closures'[a].items, status')
    <3>1. a \in 1..Len(closures) \/ closures'[a].items = <<>>
      BY <2>6, <2>7
    <3>2. QED
      BY <2>7, <3>1, EmptyKnown DEF AllKnown, Known
  <2>9. QED
    BY <2>2, <2>5, <2>8, KnownParts
<1>9. CASE CloseTop \/ \E k \in Edited : OpenCreate(k)
  <2>1. UNCHANGED <<rows, opened, closures, net>>
    BY <1>9 DEF CloseTop, OpenCreate, history
  <2>2. QED
    BY <2>1, KnownParts
<1>10. QED
  BY <1>1, <1>2, <1>3, <1>5, <1>6, <1>7, <1>8, <1>9 DEF Administrator

\* An answer names what is listed, or what it has just created.
LEMMA ServeKnows ==
  ASSUME TypeInv, KnownInv, NEW r \in net, Serve(r) \/ Fail(r), \A i : Known(i, status) => Known(i, status')
  PROVE  KnownInv'
<1>1. /\ UNCHANGED <<page, opened>>
      /\ \E reply : /\ Answer(r, reply)
                    /\ reply = Failure \/ (Accepts(r) /\ Effect(r) /\ reply \in Replies(r))
  BY DEF Serve, Fail
<1>2. PICK reply : /\ Answer(r, reply)
                   /\ reply = Failure \/ (Accepts(r) /\ Effect(r) /\ reply \in Replies(r))
  BY <1>1
<1>3. PICK a : a = Answering(r, reply)
  OBVIOUS
<1>4. a.op = r.op /\ a.body = r.body /\ a.data = reply.data
  BY <1>3, AnsweringFacts, RequestIs
<1>5. net' = (net \ {r}) \union {a}
  BY <1>2, <1>3 DEF Answer, Answering
<1>6. r.op # "edit" => AllKnown(reply.data, status')
  <2>1. CASE reply = Failure
    BY <2>1, EmptyKnown DEF Failure
  <2>2. CASE Accepts(r) /\ Effect(r) /\ reply \in Replies(r) /\ r.op # "edit"
    <3>1. CASE r.op \in {"list", "collect"} /\ reply.data = Children(r.kind, r.link)
      <4>1. \A n \in 1..Len(reply.data) : Known(reply.data[n], status)
        BY <3>1, ChildrenFacts DEF Live, Known
      <4>2. QED
        BY <4>1 DEF AllKnown
    <3>2. CASE r.op = "create" /\ reply.data = <<Head(Unused(r.kind))>>
      <4>1. PICK i \in Items : i = Head(Unused(r.kind))
        BY <2>2, <3>2, UnusedFacts DEF Accepts
      <4>2. status' = [status EXCEPT ![i] = "live"]
        BY <2>2, <3>2, <4>1 DEF Effect
      <4>3. status'[i] = "live"
        BY <4>2 DEF TypeInv, ServerOK
      <4>4. reply.data = <<i>>
        BY <3>2, <4>1
      <4>5. QED
        BY <4>3, <4>4 DEF AllKnown, Known
    <3>3. CASE reply.data = <<>>
      BY <3>3, EmptyKnown
    <3>4. QED
      BY <2>2, <3>1, <3>2, <3>3, ReplyShape
  <2>3. QED
    BY <1>2, <2>1, <2>2
<1>7. KnownIn(a, status')
  <2>1. r.op = "relate" => AllKnown(r.body, status')
    BY DEF KnownInv, KnownIn, AllKnown
  <2>2. QED
    BY <1>4, <1>6, <2>1 DEF KnownIn
<1>8. \A q \in net' : q \in net \/ KnownIn(q, status')
  BY <1>5, <1>7
<1>9. UNCHANGED <<rows, opened, closures>>
  BY <1>1 DEF page
<1>10. QED
  BY <1>8, <1>9, KnownParts

LEMMA RefreshKnown ==
  ASSUME TypeInv, NEW r, NEW k \in Kinds, Refresh(k, r)
  PROVE  /\ \A t \in Kinds : rows'[t] = rows[t] \/ AllKnown(rows'[t], status')
         /\ \A q \in net' : q \in net \/ KnownIn(q, status')
<1> DEFINE p == IF k = "network" THEN None ELSE actual[ParentKind[k]]
<1>1. Load(k, p, net \ {r})
  BY DEF Refresh
<1> HIDE DEF p
<1>2. QED
  BY <1>1, LoadKnown

LEMMA KnownTogether ==
  ASSUME NEW p \in Seq(Items), NEW q \in Seq(Items), AllKnown(p, status), AllKnown(q, status)
  PROVE  AllKnown(p \o q, status)
<1>1. /\ Len(p \o q) = Len(p) + Len(q)
      /\ \A n \in 1..(Len(p) + Len(q)) : (p \o q)[n] = IF n <= Len(p) THEN p[n] ELSE q[n - Len(p)]
  OBVIOUS
<1>2. ASSUME NEW n \in 1..(Len(p) + Len(q)) PROVE Known((p \o q)[n], status)
  <2>1. CASE n <= Len(p)
    BY <1>1, <2>1 DEF AllKnown
  <2>2. CASE ~(n <= Len(p))
    <3>1. n - Len(p) \in 1..Len(q)
      BY <2>2
    <3>2. QED
      BY <1>1, <2>2, <3>1 DEF AllKnown
  <2>3. QED
    BY <2>1, <2>2
<1>3. QED
  BY <1>1, <1>2 DEF AllKnown

LEMMA HandleKnows ==
  ASSUME TypeInv, KnownInv, NEW r \in net, Handle(r), \A i : Known(i, status) => Known(i, status')
  PROVE  KnownInv'
<1>0. \A q : AllKnown(q, status) => AllKnown(q, status')
  BY DEF AllKnown
<1>1. ASSUME NEW k \in Kinds, UNCHANGED <<opened, closures>>,
             Refresh(k, r) \/ (net' = net \ {r} /\ UNCHANGED rows)
      PROVE  KnownInv'
  <2>1. /\ \A t \in Kinds : rows'[t] = rows[t] \/ AllKnown(rows'[t], status')
        /\ \A q \in net' : q \in net \/ KnownIn(q, status')
    BY <1>1, RefreshKnown
  <2>2. QED
    BY <1>1, <2>1, KnownParts
<1>2. r.kind \in Kinds /\ "network" \in Kinds
  BY RequestIs DEF Kinds
<1>3. CASE Updated(r)
  BY <1>1, <1>2, <1>3 DEF Updated, NoRefresh
<1>4. CASE Deleted(r)
  BY <1>1, <1>2, <1>4 DEF Deleted
<1>5. CASE NetworkCreated(r)
  BY <1>1, <1>2, <1>5 DEF NetworkCreated
<1>6. CASE Related(r)
  <2>1. closures[r.then].kind \in Kinds
    BY <1>6, RelateFacts, KindFacts DEF Related, Answered
  <2>2. QED
    BY <1>1, <1>6, <2>1 DEF Related
<1>7. CASE FormArrives(r)
  BY <1>1, <1>2, <1>7 DEF FormArrives
<1>8. CASE ListArrives(r)
  <2>1. /\ r.op = "list" /\ net' = net \ {r} /\ UNCHANGED <<opened, closures>>
        /\ (Succeeds(r) /\ rows' = [rows EXCEPT ![dst] = Joined(@, r.data)]) \/ UNCHANGED rows
    BY <1>8 DEF ListArrives, Answered
  <2>2. CASE Succeeds(r) /\ rows' = [rows EXCEPT ![dst] = Joined(@, r.data)]
    <3>1. PICK data \in Seq(Items) : data = r.data
      BY <2>1, <2>2, ListAnswer DEF ListOf
    <3>2. AllKnown(data, status)
      BY <2>1, <3>1 DEF KnownInv, KnownIn
    <3>3. dst \in Kinds /\ rows \in [Kinds -> Seq(Items)]
      BY DEF TypeInv, PageOK
    <3>4. PICK p \in Seq(Items) : p = rows[dst]
      BY <3>3
    <3>5. PICK more \in Seq(Items) : more = SubSeq(data, Len(p) + 1, Len(data))
      <4>1. SubSeq(data, Len(p) + 1, Len(data)) \in Seq(Items)
        OBVIOUS
      <4>2. QED
        BY <4>1, Zenon
    <3>6. AllKnown(more, status)
      <4>1. \A n \in 1..Len(more) : Len(p) + n \in 1..Len(data) /\ more[n] = data[Len(p) + n]
        BY <3>5
      <4>2. QED
        BY <3>2, <4>1 DEF AllKnown
    <3>7. AllKnown(p, status)
      BY <3>3, <3>4 DEF KnownInv
    <3>8. AllKnown(p \o more, status)
      BY <3>6, <3>7, KnownTogether
    <3>9. Joined(rows[dst], r.data) = p \o more
      BY <3>1, <3>4, <3>5 DEF Joined
    <3>10. \A t \in Kinds : rows'[t] = rows[t] \/ rows'[t] = p \o more
      BY <2>2, <3>3, <3>9
    <3>11. \A t \in Kinds : rows'[t] = rows[t] \/ AllKnown(rows'[t], status')
      BY <1>0, <3>8, <3>10 DEF AllKnown, Known
    <3>12. QED
      BY <2>1, <3>11, KnownParts
  <2>3. CASE UNCHANGED rows
    BY <2>1, <2>3, KnownParts
  <2>4. QED
    BY <2>1, <2>2, <2>3
<1>9. CASE CollectionArrives(r)
  <2>1. PICK a : a = r.then
    OBVIOUS
  <2>2. PICK more : more = IF Succeeds(r) THEN r.data ELSE <<>>
    OBVIOUS
  <2>3. PICK k, m, n : k = closures[a].kind /\ m = closures[a].meant /\ n = onCreated
    OBVIOUS
  <2>4. /\ r.op = "collect" /\ closures' = [closures EXCEPT ![a].items = @ \o more]
        /\ net' = (net \ {r}) \union {Request("create", k, m, <<>>, n)}
        /\ UNCHANGED <<rows, opened>>
    BY <1>9, <2>1, <2>2, <2>3 DEF CollectionArrives, Answered
  <2>5. a \in 1..Len(closures) /\ Len(closures) \in Nat
    BY <2>1, <2>4, RequestIs DEF AsksOK
  <2>6. more \in Seq(Items) /\ AllKnown(more, status)
    <3>1. Succeeds(r) => r.data \in Seq(Items)
      BY <2>4, ListAnswer DEF ListOf
    <3>2. AllKnown(r.data, status)
      BY <2>4 DEF KnownInv, KnownIn
    <3>3. QED
      BY <2>2, <3>1, <3>2, EmptyKnown
  <2>7. PICK p \in Seq(Items) : p = closures[a].items
    BY <2>5 DEF TypeInv, ClosuresOK, ClosureOK
  <2>8. AllKnown(p \o more, status)
    BY <2>5, <2>6, <2>7, KnownTogether DEF KnownInv
  <2>9. PICK c : c = [closures[a] EXCEPT !.items = @ \o more]
    OBVIOUS
  <2>10. c.items = p \o more
    BY <2>5, <2>7, <2>9 DEF TypeInv, ClosuresOK, ClosureOK
  <2>11. closures' = [closures EXCEPT ![a] = c]
    BY <2>4, <2>9
  <2>12. \A b \in 1..Len(closures') :
           b \in 1..Len(closures) /\ closures'[b].items \in {closures[b].items, p \o more}
    BY <2>5, <2>10, <2>11 DEF TypeInv, ClosuresOK
  <2>13. AllKnown(p \o more, status')
    BY <1>0, <2>8
  <2>14. \A b \in 1..Len(closures') :
           \/ b \in 1..Len(closures) /\ closures'[b].items = closures[b].items
           \/ AllKnown(closures'[b].items, status')
    BY <2>12, <2>13 DEF AllKnown, Known
  <2>15. \A q \in net' : q \in net \/ KnownIn(q, status')
    BY <2>4, NewKnown
  <2>16. QED
    BY <2>4, <2>14, <2>15, KnownParts
<1>10. CASE ChildCreated(r)
  <2> DEFINE last == IF r.code = 201 THEN r.data ELSE <<None>>
  <2>1. PICK k, p, items, a : /\ k = closures[r.then].kind /\ p = closures[r.then].link
                              /\ items = closures[r.then].items /\ a = r.then
    OBVIOUS
  <2>2. /\ r.op = "create" /\ r.then # 0 /\ UNCHANGED <<rows, opened, closures>>
        /\ \/ net' = net \ {r}
           \/ net' = (net \ {r}) \union {Request("relate", k, p, items \o last, a)}
    BY <1>10, <2>1 DEF ChildCreated, Answered, page
  <2> HIDE DEF last
  <2>3. AllKnown(items \o last, status)
    <3>1. r.then \in 1..Len(closures) /\ items \in Seq(Items)
      BY <2>1, <2>2, RelationBody
    <3>2. PICK x \in Links : last = <<x>> /\ (x # None => r.code = 201)
      BY <2>2, RelationBody DEF last
    <3>3. Known(x, status)
      <4>1. CASE x # None
        <5>1. AllKnown(<<x>>, status)
          BY <2>2, <3>2, <4>1 DEF KnownInv, KnownIn, last
        <5>2. QED
          BY <5>1 DEF AllKnown
      <4>2. CASE x = None
        BY <4>2, KindFacts DEF Known
      <4>3. QED
        BY <4>1, <4>2
    <3>4. AllKnown(items, status)
      BY <2>1, <3>1 DEF KnownInv
    <3>5. items \o last = Append(items, x)
      BY <3>1, <3>2
    <3>6. /\ Len(Append(items, x)) = Len(items) + 1 /\ Append(items, x)[Len(items) + 1] = x
          /\ \A n \in 1..Len(items) : Append(items, x)[n] = items[n]
          /\ Len(items) \in Nat
      BY <3>1
    <3>7. AllKnown(Append(items, x), status)
      BY <3>3, <3>4, <3>6 DEF AllKnown
    <3>8. QED
      BY <3>5, <3>7
  <2>4. AllKnown(items \o last, status')
    BY <1>0, <2>3
  <2>5. PICK body : body = items \o last
    OBVIOUS
  <2>6. AllKnown(body, status')
    BY <2>4, <2>5 DEF AllKnown, Known
  <2>7. \A q \in net' : q \in net \/ KnownIn(q, status')
    BY <2>2, <2>5, <2>6, NewKnown
  <2>8. QED
    BY <2>2, <2>7, KnownParts
<1>11. QED
  BY <1>3, <1>4, <1>5, <1>6, <1>7, <1>8, <1>9, <1>10 DEF Handle

LEMMA KnownInit ==
  ASSUME Init, TypeInv
  PROVE  KnownInv
<1>1. \A t \in Kinds : AllKnown(rows[t], status)
  <2>1. PICK q : q = Listed({i \in Stored : KindOf[i] = "network"})
    OBVIOUS
  <2>2. \A n \in 1..Len(q) : q[n] \in Stored
    BY <2>1, ListedFacts
  <2>3. AllKnown(q, status)
    BY <2>2, ClientAssumption DEF AllKnown, Known, Init
  <2>4. \A t \in Kinds : rows[t] = q \/ rows[t] = <<>>
    BY <2>1 DEF Init
  <2>5. QED
    BY <2>3, <2>4, EmptyKnown
<1>2. \A t \in Kinds : Known(opened[t], status)
  BY KindFacts DEF Init, Known
<1>3. closures = <<>> /\ net = {}
  BY DEF Init
<1>4. \A a \in 1..Len(closures) : AllKnown(closures[a].items, status)
  BY <1>3
<1>5. QED
  BY <1>1, <1>2, <1>3, <1>4 DEF KnownInv

LEMMA KnownStep ==
  ASSUME TypeInv, KnownInv, [Next]_vars
  PROVE  KnownInv'
<1>1. \A i : Known(i, status) => Known(i, status')
  BY KnownStays
<1>2. CASE UNCHANGED vars
  BY <1>1, <1>2, KnownParts DEF vars, page, history
<1>3. QED
  BY <1>1, <1>2, AdministratorKnows, ServeKnows, HandleKnows DEF Next

-----------------------------------------------------------------------------
(* The order of the dialogs. *)

\* The dialogs that have their place.
Anchored == {<<"list", "origin">>, <<"list", "set">>, <<"list", "snapshot">>}

LEMMA PlacedClose ==
  ASSUME StackOK, Placed(stack), NEW d,
         d \notin Anchored \/ (stack # <<>> /\ stack[Len(stack)] = d)
  PROVE  Placed(Close(d))
<1>1. Single(stack) /\ Len(stack) \in Nat
  BY DEF StackOK, Single
<1>2. PICK q : q = Close(d) /\ q \in Seq(Dialogs)
  BY CloseFacts
<1>3. PICK p \in 1..(Len(stack) + 1) :
        /\ \/ p <= Len(stack) /\ stack[p] = d /\ Len(q) = Len(stack) - 1
           \/ p = Len(stack) + 1 /\ ~OnStack(d) /\ Len(q) = Len(stack)
        /\ \A n \in 1..Len(q) : q[n] = IF n < p THEN stack[n] ELSE stack[n + 1]
  BY <1>2, CloseFacts
<1>4. \A n \in 1..Len(stack) :
        /\ stack[n] \in {<<"list", "origin">>, <<"list", "snapshot">>} => n = 1
        /\ stack[n] = <<"list", "set">> => n = 2 /\ stack[1] = <<"list", "origin">>
        /\ stack[n] = <<"create", "origin">> => stack[1] = <<"list", "origin">>
        /\ stack[n] = <<"create", "set">> => Len(stack) > 1 /\ stack[2] = <<"list", "set">>
  BY DEF Placed
<1>5. CASE p > Len(q)
  <2>1. \A n \in 1..Len(q) : q[n] = stack[n] /\ n \in 1..Len(stack)
    BY <1>1, <1>3, <1>5
  <2>2. ASSUME NEW n \in 1..Len(q), q[n] = <<"create", "set">>
        PROVE  Len(q) > 1 /\ q[2] = <<"list", "set">>
    <3>1. Len(stack) > 1 /\ stack[2] = <<"list", "set">> /\ stack[n] = <<"create", "set">>
      BY <1>4, <2>1, <2>2
    <3>2. stack[1] = <<"list", "origin">>
      BY <1>1, <1>4, <3>1
    <3>3. n # 1 /\ n # 2
      BY <3>1, <3>2
    <3>4. 2 \in 1..Len(q)
      BY <1>2, <3>3
    <3>5. QED
      BY <2>1, <3>1, <3>4
  <2>3. ASSUME NEW n \in 1..Len(q)
        PROVE  /\ q[n] \in {<<"list", "origin">>, <<"list", "snapshot">>} => n = 1
               /\ q[n] = <<"list", "set">> => n = 2 /\ q[1] = <<"list", "origin">>
               /\ q[n] = <<"create", "origin">> => q[1] = <<"list", "origin">>
    <3>1. 1 \in 1..Len(q) /\ q[1] = stack[1]
      BY <1>2, <2>1
    <3>2. QED
      BY <1>4, <2>1, <3>1
  <2>4. QED
    BY <1>2, <2>2, <2>3 DEF Placed
<1>6. CASE ~(p > Len(q))
  <2>1. p <= Len(stack) /\ stack[p] = d /\ Len(q) = Len(stack) - 1
    BY <1>1, <1>3, <1>6
  <2>2. p # Len(stack)
    BY <1>1, <1>6, <2>1
  <2>3. d \notin Anchored
    <3>1. stack[p] # stack[Len(stack)]
      BY <1>1, <2>1, <2>2 DEF Single
    <3>2. QED
      BY <2>1, <3>1
  <2> DEFINE at(n) == IF n < p THEN n ELSE n + 1
  <2>4. \A n \in 1..Len(q) : q[n] = stack[at(n)] /\ at(n) \in 1..Len(stack) /\ at(n) # p
    BY <1>1, <1>3, <2>1
  <2>5. /\ p \in 1..Len(stack)
        /\ stack[1] = <<"list", "origin">> => p # 1
        /\ stack[2] = <<"list", "set">> => p # 2
    <3>1. <<"list", "origin">> \in Anchored /\ <<"list", "set">> \in Anchored
      BY DEF Anchored
    <3>2. stack[p] \notin Anchored
      BY <2>1, <2>3
    <3>3. QED
      BY <2>1, <3>1, <3>2
  <2>6. ASSUME NEW n \in 1..Len(q), q[n] \in {<<"list", "origin">>, <<"list", "snapshot">>}
        PROVE  n = 1
    <3>1. at(n) = 1
      BY <1>4, <2>4, <2>6
    <3>2. QED
      BY <1>2, <3>1
  <2>7. stack[1] = <<"list", "origin">> /\ Len(q) >= 1 => q[1] = <<"list", "origin">>
    BY <1>2, <1>3, <2>5
  <2>8. ASSUME NEW n \in 1..Len(q), q[n] = <<"list", "set">>
        PROVE  n = 2 /\ q[1] = <<"list", "origin">>
    <3>1. at(n) = 2 /\ stack[1] = <<"list", "origin">>
      BY <1>4, <2>4, <2>8
    <3>2. QED
      BY <1>2, <2>5, <2>7, <3>1
  <2>9. ASSUME NEW n \in 1..Len(q), q[n] = <<"create", "origin">>
        PROVE  q[1] = <<"list", "origin">>
    BY <1>2, <1>4, <2>4, <2>7, <2>9
  <2>10. ASSUME NEW n \in 1..Len(q), q[n] = <<"create", "set">>
         PROVE  Len(q) > 1 /\ q[2] = <<"list", "set">>
    <3>1. Len(stack) > 1 /\ stack[2] = <<"list", "set">>
      BY <1>4, <2>4, <2>10
    <3>2. stack[1] = <<"list", "origin">>
      BY <1>1, <1>4, <3>1
    <3>3. p # 1 /\ p # 2 /\ q[1] = <<"list", "origin">>
      BY <1>2, <2>5, <2>7, <3>1, <3>2
    <3>4. n # 1
      BY <2>10, <3>3
    <3>5. 2 \in 1..Len(q) /\ 2 < p
      BY <1>2, <3>3, <3>4
    <3>6. QED
      BY <1>3, <3>1, <3>5
  <2>11. QED
    BY <1>2, <2>6, <2>8, <2>9, <2>10 DEF Placed
<1>7. QED
  BY <1>5, <1>6

\* A dialog that opens on top, where it belongs.
LEMMA PlacedAppend ==
  ASSUME NEW q \in Seq(Dialogs), Placed(q), NEW d \in Dialogs,
         d \in {<<"list", "origin">>, <<"list", "snapshot">>} => q = <<>>,
         d = <<"list", "set">> => Len(q) = 1 /\ q[1] = <<"list", "origin">>,
         d = <<"create", "origin">> => Len(q) >= 1 /\ q[1] = <<"list", "origin">>,
         d = <<"create", "set">> => Len(q) > 1 /\ q[2] = <<"list", "set">>
  PROVE  Placed(Append(q, d))
<1>1. /\ Len(Append(q, d)) = Len(q) + 1 /\ Append(q, d)[Len(q) + 1] = d /\ Len(q) \in Nat
      /\ \A n \in 1..Len(q) : Append(q, d)[n] = q[n]
  OBVIOUS
<1>2. PICK s : s = Append(q, d)
  OBVIOUS
<1>3. ASSUME NEW n \in 1..Len(s)
      PROVE  /\ s[n] \in {<<"list", "origin">>, <<"list", "snapshot">>} => n = 1
             /\ s[n] = <<"list", "set">> => n = 2 /\ s[1] = <<"list", "origin">>
             /\ s[n] = <<"create", "origin">> => s[1] = <<"list", "origin">>
             /\ s[n] = <<"create", "set">> => Len(s) > 1 /\ s[2] = <<"list", "set">>
  <2>1. CASE n \in 1..Len(q)
    BY <1>1, <1>2, <2>1 DEF Placed
  <2>2. CASE n = Len(q) + 1
    <3>1. s[n] = d
      BY <1>1, <1>2, <2>2
    <3>2. d \in {<<"list", "origin">>, <<"list", "snapshot">>} => n = 1
      BY <2>2
    <3>3. Len(q) >= 1 => s[1] = q[1]
      BY <1>1, <1>2
    <3>4. Len(q) > 1 => s[2] = q[2] /\ Len(s) > 1
      BY <1>1, <1>2
    <3>5. QED
      BY <2>2, <3>1, <3>2, <3>3, <3>4
  <2>3. QED
    BY <1>1, <1>2, <2>1, <2>2
<1>4. QED
  BY <1>2, <1>3 DEF Placed

\* With the dialog of a list on top, only those it lies on are open.
LEMMA TopFacts ==
  ASSUME StackOK, Placed(stack)
  PROVE  /\ \A t \in {"origin", "snapshot"} : OnTop(<<"list", t>>) => Len(stack) = 1
         /\ OnTop(<<"list", "set">>) => Len(stack) = 2 /\ stack[1] = <<"list", "origin">>
<1>1. stack # <<>> => Len(stack) \in 1..Len(stack)
  BY DEF StackOK
<1>2. QED
  BY <1>1 DEF OnTop, Placed

\* A row is clicked in its own table.
LEMMA RowClicked ==
  ASSUME TypeInv, NEW i \in Items, Shown(i), ~astray'
  PROVE  ~astray /\ Clickable(KindOf[i])
BY DEF Shown, TypeInv, PageOK

LEMMA SameOrder ==
  ASSUME OrderInv, UNCHANGED <<stack, actual, opened, astray>>
  PROVE  OrderInv'
BY DEF OrderInv, OnStack

\* Dialogs close, or one without a place opens.
LEMMA ClosedOrder ==
  ASSUME TypeInv, OrderInv, UNCHANGED <<actual, opened, astray>>, NEW d,
         stack' = Close(d), d \notin Anchored \/ (stack # <<>> /\ stack[Len(stack)] = d)
  PROVE  OrderInv'
<1> SUFFICES ASSUME ~astray PROVE OrderInv'
  BY DEF OrderInv
<1>1. StackOK /\ Placed(stack)
  BY DEF TypeInv, OrderInv
<1>2. Placed(stack')
  BY <1>1, PlacedClose
<1>3. \A e : OnStack(e)' => OnStack(e)
  BY <1>1, CloseSingle DEF OnStack
<1>4. QED
  BY <1>2, <1>3 DEF OrderInv, Placed

LEMMA OpenedOrder ==
  ASSUME TypeInv, OrderInv, UNCHANGED <<actual, opened, astray>>, NEW d \in Dialogs,
         stack' = Open(d), d \notin Anchored,
         d = <<"create", "origin">> => OnTop(<<"list", "origin">>),
         d = <<"create", "set">> => OnTop(<<"list", "set">>)
  PROVE  OrderInv'
<1> SUFFICES ASSUME ~astray PROVE OrderInv'
  BY DEF OrderInv
<1>1. StackOK /\ Placed(stack)
  BY DEF TypeInv, OrderInv
<1>2. PICK q \in Seq(Dialogs) : q = Close(d)
  BY <1>1, CloseFacts
<1>3. Placed(q)
  BY <1>1, <1>2, PlacedClose
<1>4. \A e : (\E n \in 1..Len(q) : q[n] = e) <=> (OnStack(e) /\ e # d)
  BY <1>1, <1>2, CloseSingle
<1>5. d = <<"create", "origin">> => Len(q) >= 1 /\ q[1] = <<"list", "origin">>
  <2> SUFFICES ASSUME d = <<"create", "origin">>
               PROVE  Len(q) >= 1 /\ q[1] = <<"list", "origin">>
    OBVIOUS
  <2>1. PICK n \in 1..Len(q) : q[n] = <<"list", "origin">>
    BY <1>4, OnTopIsOn
  <2>2. n = 1
    BY <1>3, <2>1 DEF Placed
  <2>3. QED
    BY <2>1, <2>2
<1>6. d = <<"create", "set">> => Len(q) > 1 /\ q[2] = <<"list", "set">>
  <2> SUFFICES ASSUME d = <<"create", "set">>
               PROVE  Len(q) > 1 /\ q[2] = <<"list", "set">>
    OBVIOUS
  <2>1. PICK n \in 1..Len(q) : q[n] = <<"list", "set">>
    BY <1>4, OnTopIsOn
  <2>2. n = 2
    BY <1>3, <2>1 DEF Placed
  <2>3. QED
    BY <2>1, <2>2
<1>7. d \notin {<<"list", "origin">>, <<"list", "snapshot">>} /\ d # <<"list", "set">>
  BY DEF Anchored
<1>8. Placed(Append(q, d))
  BY <1>3, <1>5, <1>6, <1>7, PlacedAppend
<1>9. Placed(stack')
  BY <1>2, <1>8 DEF Open
<1>10. \A e : OnStack(e)' => OnStack(e) \/ e = d
  BY <1>1, OpenSingle DEF OnStack
<1>11. \A t \in Nested : OnStack(<<"list", t>>)' => OnStack(<<"list", t>>)
  BY <1>10 DEF Anchored, Nested
<1>12. QED
  BY <1>9, <1>11 DEF OrderInv, Placed

LEMMA OpenListOrder ==
  ASSUME TypeInv, OrderInv, NEW i \in Items, NEW t \in Kinds, OpenList(i, t)
  PROVE  OrderInv'
<1> SUFFICES ASSUME ~astray' PROVE OrderInv'
  BY DEF OrderInv
<1>1. /\ Shown(i) /\ t \in Nested /\ ParentKind[t] = KindOf[i]
      /\ actual' = [actual EXCEPT ![KindOf[i]] = i]
      /\ stack' = Open(<<"list", t>>) /\ opened' = [opened EXCEPT ![t] = i]
  BY DEF OpenList, Nested
<1>2. ~astray /\ Clickable(KindOf[i])
  BY <1>1, RowClicked
<1>3. /\ actual \in [Edited -> Links] /\ opened \in [Kinds -> Links] /\ StackOK
      /\ stack \in Seq(Dialogs)
  BY DEF TypeInv, PageOK, StackOK
<1>4. <<"list", t>> \in Dialogs
  BY <1>1, DialogFacts, KindFacts DEF Nested
<1>5. KindOf[i] \in Edited
  BY <1>1, KindFacts
<1>6. actual'[ParentKind[t]] = i /\ opened'[t] = i
  BY <1>1, <1>3, <1>5
<1>7. PICK d \in Dialogs : d = <<"list", t>>
  BY <1>4
<1>8. CASE KindOf[i] = "network"
  <2>1. stack = <<>> /\ t \in {"origin", "snapshot"}
    BY <1>1, <1>2, <1>8, KindFacts DEF Clickable, Nested
  <2>2. Close(d) = <<>>
    BY <2>1 DEF Close
  <2>3. Placed(<<>>)
    BY DEF Placed
  <2>4. Placed(Append(<<>>, d))
    BY <1>7, <2>1, <2>3, PlacedAppend, <<>> \in Seq(Dialogs)
  <2>5. Placed(stack')
    BY <1>1, <1>7, <2>2, <2>4 DEF Open
  <2>6. \A e : OnStack(e)' => e = d
    <3>1. \A e : OnStack(e)' => OnStack(e) \/ e = d
      BY <1>1, <1>3, <1>7, OpenSingle DEF OnStack
    <3>2. \A e : ~OnStack(e)
      BY <2>1 DEF OnStack
    <3>3. QED
      BY <3>1, <3>2
  <2>7. \A k \in Nested : OnStack(<<"list", k>>)' => k = t
    BY <1>7, <2>6
  <2>8. QED
    BY <1>6, <2>5, <2>7 DEF OrderInv, Placed
<1>9. CASE KindOf[i] = "origin"
  <2>1. t = "set" /\ OnTop(<<"list", "origin">>)
    BY <1>1, <1>2, <1>9, KindFacts DEF Clickable, Nested
  <2>2. Placed(stack) /\ Len(stack) = 1 /\ stack[1] = <<"list", "origin">>
    BY <1>2, <1>3, <2>1, TopFacts DEF OrderInv, OnTop
  <2>3. ~OnStack(d)
    BY <1>7, <2>1, <2>2 DEF OnStack
  <2>4. Close(d) = stack
    BY <2>3 DEF Close, OnStack
  <2>5. d = <<"list", "set">>
    BY <1>7, <2>1
  <2>6. Placed(Append(stack, d))
    BY <1>3, <2>2, <2>5, PlacedAppend
  <2>7. Placed(stack')
    BY <1>1, <1>7, <2>4, <2>6 DEF Open
  <2>8. \A e : OnStack(e)' => OnStack(e) \/ e = d
    BY <1>1, <1>3, <1>7, OpenSingle DEF OnStack
  <2>9. ASSUME NEW k \in Nested, OnStack(<<"list", k>>)' PROVE actual'[ParentKind[k]] = opened'[k]
    <3>1. CASE k = t
      BY <1>6, <3>1
    <3>2. CASE k # t
      <4>1. OnStack(<<"list", k>>)
        BY <1>7, <2>8, <2>9, <3>2
      <4>2. k \in {"origin", "snapshot"} /\ k \in Kinds
        BY <2>1, <3>2, KindFacts DEF Nested
      <4>3. ParentKind[k] = "network" /\ "network" \in Edited
        BY <4>2, KindFacts DEF Edited
      <4>4. actual'["network"] = actual["network"] /\ opened'[k] = opened[k]
        BY <1>1, <1>3, <1>9, <3>2, <4>2, <4>3
      <4>5. QED
        BY <1>2, <4>1, <4>3, <4>4 DEF OrderInv
    <3>3. QED
      BY <3>1, <3>2
  <2>10. QED
    BY <2>7, <2>9 DEF OrderInv, Placed
<1>10. QED
  BY <1>1, <1>8, <1>9, KindFacts DEF Nested

LEMMA OpenEditOrder ==
  ASSUME TypeInv, OrderInv, NEW i \in Items, OpenEdit(i)
  PROVE  OrderInv'
<1> SUFFICES ASSUME ~astray' PROVE OrderInv'
  BY DEF OrderInv
<1>1. /\ Shown(i) /\ KindOf[i] \in Edited /\ actual' = [actual EXCEPT ![KindOf[i]] = i]
      /\ UNCHANGED <<stack, opened>>
  BY DEF OpenEdit
<1>2. ~astray /\ Clickable(KindOf[i]) /\ StackOK
  BY <1>1, RowClicked DEF TypeInv
<1>3. actual \in [Edited -> Links]
  BY DEF TypeInv, PageOK
<1>4. ASSUME NEW k \in Nested, OnStack(<<"list", k>>) PROVE actual'[ParentKind[k]] = opened[k]
  <2>1. KindOf[i] # ParentKind[k]
    <3>1. CASE KindOf[i] = "network"
      BY <1>2, <1>4, <3>1 DEF Clickable, OnStack
    <3>2. CASE KindOf[i] = "origin"
      <4>1. Len(stack) = 1 /\ stack[1] = <<"list", "origin">>
        BY <1>2, <3>2, TopFacts DEF Clickable, OnTop, OrderInv
      <4>2. k = "origin"
        BY <1>4, <4>1 DEF OnStack
      <4>3. QED
        BY <3>2, <4>2, KindFacts
    <3>3. CASE KindOf[i] = "set"
      BY <3>3, KindFacts DEF Nested
    <3>4. QED
      BY <1>1, <3>1, <3>2, <3>3 DEF Edited
  <2>2. actual'[ParentKind[k]] = actual[ParentKind[k]]
    BY <1>1, <1>3, <2>1, KindFacts
  <2>3. QED
    BY <1>2, <1>4, <2>2 DEF OrderInv
<1>5. QED
  BY <1>1, <1>2, <1>4 DEF OrderInv, Placed, OnStack

LEMMA OrderStep ==
  ASSUME TypeInv, OrderInv, [Next]_vars
  PROVE  OrderInv'
<1>0. Anchored \subseteq {<<"list", t>> : t \in Kinds}
  BY DEF Anchored, Kinds
<1>1. CASE UNCHANGED vars
  BY <1>1, SameOrder DEF vars, page, history
<1>2. ASSUME NEW i \in Items, OpenLog(i) PROVE OrderInv'
  <2> SUFFICES ASSUME ~astray' PROVE OrderInv'
    BY DEF OrderInv
  <2>1. Shown(i) /\ opened' = [opened EXCEPT !["log"] = i] /\ UNCHANGED <<actual, stack>>
    BY <1>2 DEF OpenLog
  <2>2. ~astray /\ opened \in [Kinds -> Links]
    BY <2>1, RowClicked DEF TypeInv, PageOK
  <2>3. \A t \in Nested : opened'[t] = opened[t]
    BY <2>1, <2>2, KindFacts DEF Nested
  <2>4. QED
    BY <2>1, <2>2, <2>3 DEF OrderInv, Placed, OnStack
<1>3. ASSUME NEW i \in Items, Delete(i) \/ Unindex(i) PROVE OrderInv'
  <2> SUFFICES ASSUME ~astray' PROVE OrderInv'
    BY DEF OrderInv
  <2>1. Shown(i) /\ UNCHANGED <<actual, stack, opened>>
    BY <1>3 DEF Delete, Unindex, page
  <2>2. ~astray
    BY <2>1, RowClicked
  <2>3. QED
    BY <2>1, <2>2 DEF OrderInv, Placed, OnStack
<1>4. ASSUME NEW k \in Edited, SaveEdit(k) \/ CreateChild(k) PROVE OrderInv'
  <2>1. /\ UNCHANGED <<actual, opened, astray>>
        /\ stack' = Close(<<"edit", k>>) \/ stack' = Close(<<"create", k>>)
    BY <1>4 DEF SaveEdit, CreateChild, history
  <2>2. <<"edit", k>> \notin Anchored /\ <<"create", k>> \notin Anchored
    BY DEF Anchored
  <2>3. QED
    BY <2>1, <2>2, ClosedOrder
<1>5. CASE CreateNetwork
  <2>1. /\ UNCHANGED <<actual, opened, astray>>
        /\ stack' = Close(<<"create", "network">>)
    BY <1>5 DEF CreateNetwork, history
  <2>2. <<"create", "network">> \notin Anchored
    BY DEF Anchored
  <2>3. QED
    BY <2>1, <2>2, ClosedOrder
<1>6. CASE CloseTop
  BY <1>6, ClosedOrder DEF CloseTop, history
<1>7. CASE ReloadSnapshots
  BY <1>7, SameOrder DEF ReloadSnapshots
<1>8. ASSUME NEW k \in Edited, OpenCreate(k) PROVE OrderInv'
  <2>1. PICK d \in Dialogs : d = <<"create", k>>
    BY DialogFacts
  <2>2. Clickable(k) /\ stack' = Open(d) /\ UNCHANGED <<actual, opened, astray>>
    BY <1>8, <2>1 DEF OpenCreate, history
  <2>3. d \notin Anchored
    BY <2>1 DEF Anchored
  <2>4. /\ d = <<"create", "origin">> => OnTop(<<"list", "origin">>)
        /\ d = <<"create", "set">> => OnTop(<<"list", "set">>)
    BY <2>1, <2>2 DEF Clickable
  <2>5. QED
    BY <2>2, <2>3, <2>4, OpenedOrder
<1>9. ASSUME NEW r \in net, Serve(r) \/ Fail(r) PROVE OrderInv'
  BY <1>9, SameOrder DEF Serve, Fail, page
<1>10. ASSUME NEW r \in net, ListArrives(r) PROVE OrderInv'
  <2>1. /\ UNCHANGED <<actual, opened, astray>>
        /\ stack' = Open(<<"list", "log">>) \/ stack' = stack
    BY <1>10 DEF ListArrives
  <2>2. PICK d \in Dialogs : d = <<"list", "log">>
    BY DialogFacts DEF Kinds
  <2>3. d \notin Anchored /\ d # <<"create", "origin">> /\ d # <<"create", "set">>
    BY <2>2 DEF Anchored
  <2>4. QED
    BY <2>1, <2>2, <2>3, OpenedOrder, SameOrder
<1>11. ASSUME NEW r \in net, FormArrives(r) PROVE OrderInv'
  <2>1. /\ UNCHANGED <<actual, opened, astray>> /\ r.op = "edit"
        /\ stack' = Open(<<"edit", r.kind>>) \/ stack' = stack
    BY <1>11 DEF FormArrives, Answered
  <2>2. r.kind \in Edited
    BY <2>1, RequestIs DEF AsksOK
  <2>3. PICK d \in Dialogs : d = <<"edit", r.kind>>
    BY <2>2, DialogFacts
  <2>4. d \notin Anchored /\ d # <<"create", "origin">> /\ d # <<"create", "set">>
    BY <2>3 DEF Anchored
  <2>5. QED
    BY <2>1, <2>3, <2>4, OpenedOrder, SameOrder
<1>12. ASSUME NEW r \in net, Handle(r), ~ListArrives(r), ~FormArrives(r) PROVE OrderInv'
  <2>1. UNCHANGED <<stack, actual, opened, astray>>
    BY <1>12 DEF Handle, Updated, Deleted, CollectionArrives, NetworkCreated, ChildCreated,
       Related, page
  <2>2. QED
    BY <2>1, SameOrder
<1>13. QED
  BY <1>1, <1>2, <1>3, <1>4, <1>5, <1>6, <1>7, <1>8, <1>9, <1>10, <1>11, <1>12,
     OpenListOrder, OpenEditOrder DEF Next, Administrator

-----------------------------------------------------------------------------
(* The edits. *)

LEMMA ClosedIsOn ==
  ASSUME TypeInv, NEW d, stack' = Close(d)
  PROVE  \A e : OnStack(e)' => OnStack(e)
<1>1. StackOK
  BY DEF TypeInv
<1>2. \A e : (\E n \in 1..Len(stack') : stack'[n] = e) => OnStack(e)
  BY <1>1, CloseSingle
<1>3. QED
  BY <1>2 DEF OnStack

LEMMA OwnParts ==
  ASSUME NEW k, OwnData(k), UNCHANGED content, actual'[k] = actual[k],
         OnStack(<<"edit", k>>)' => OnStack(<<"edit", k>>) /\ form'[k] = form[k],
         \A r \in net' : r \in net \/ r.kind # k \/ EditOK(r)'
  PROVE  OwnData(k)'
<1>1. \A i \in Items : KindOf[i] = k => content'[i] = i
  BY DEF OwnData
<1>2. OnStack(<<"edit", k>>)' => form'[k] = actual'[k]
  BY DEF OwnData
<1>3. ASSUME NEW r \in net', r.kind = k PROVE EditOK(r)'
  BY <1>3 DEF OwnData, EditOK
<1>4. QED
  BY <1>1, <1>2, <1>3 DEF OwnData

\* Requests that are no edits.
LEMMA NoEditOK ==
  ASSUME NEW op, NEW kind, NEW link, NEW body, NEW then, NEW q,
         q = Request(op, kind, link, body, then), op \notin {"edit", "update"}
  PROVE  EditOK(q)'
BY RequestFacts DEF EditOK

LEMMA LoadEditOK ==
  ASSUME NEW t, NEW p, NEW rest \in SUBSET net, Load(t, p, rest)
  PROVE  \A q \in net' : q \in net \/ EditOK(q)'
BY NoEditOK DEF Load

\* Where the rows of a kind can be clicked, no edit form of it is open.
LEMMA NoFormBelow ==
  ASSUME TypeInv, OrderInv, ~astray, NEW k \in Edited, Clickable(k)
  PROVE  ~OnStack(<<"edit", k>>)
<1>1. StackOK /\ Placed(stack)
  BY DEF TypeInv, OrderInv
<1>2. CASE k = "network"
  BY <1>2 DEF Clickable, OnStack
<1>3. CASE k = "origin"
  <2>1. Len(stack) = 1 /\ stack[1] = <<"list", "origin">>
    BY <1>1, <1>3, TopFacts DEF Clickable, OnTop
  <2>2. QED
    BY <2>1 DEF OnStack
<1>4. CASE k = "set"
  <2>1. Len(stack) = 2 /\ stack[1] = <<"list", "origin">> /\ stack[2] = <<"list", "set">>
    BY <1>1, <1>4, TopFacts DEF Clickable, OnTop
  <2>2. QED
    BY <2>1 DEF OnStack
<1>5. QED
  BY <1>2, <1>3, <1>4 DEF Edited

\* A click that changes a link finds no edit of its kind under way.
LEMMA ClickedOwn ==
  ASSUME TypeInv, OrderInv, EditInv, NEW i \in Items, Shown(i), Crossing(KindOf[i]),
         KindOf[i] \in Edited, ~astray', NEW k \in Edited \ crossed', UNCHANGED content,
         actual' = [actual EXCEPT ![KindOf[i]] = i],
         OnStack(<<"edit", k>>)' => OnStack(<<"edit", k>>), UNCHANGED form,
         \A r \in net' : \/ r \in net
                         \/ r.op \notin {"edit", "update"}
                         \/ r.op = "edit" /\ r.kind = KindOf[i] /\ r.link = i /\ r.code = 0
  PROVE  OwnData(k)'
<1>1. ~astray /\ Clickable(KindOf[i])
  BY RowClicked
<1>2. k \in Edited \ crossed
  BY DEF Crossing
<1>3. OwnData(k) /\ actual \in [Edited -> Links]
  BY <1>1, <1>2 DEF EditInv, TypeInv, PageOK
<1>4. CASE k # KindOf[i]
  <2>1. actual'[k] = actual[k]
    BY <1>2, <1>3, <1>4
  <2>2. \A r \in net' : r \in net \/ r.kind # k \/ EditOK(r)'
    BY <1>4 DEF EditOK
  <2>3. QED
    BY <1>3, <2>1, <2>2, OwnParts
<1>5. CASE k = KindOf[i]
  <2>1. \A r \in net : r.op = "edit" => r.kind # k
    BY <1>5 DEF Crossing, InFlight
  <2>2. ~OnStack(<<"edit", k>>)
    BY <1>1, <1>5, NoFormBelow
  <2>3. actual'[k] = i
    BY <1>2, <1>3, <1>5
  <2>4. ASSUME NEW r \in net', r.kind = k PROVE EditOK(r)'
    <3>1. r \in net => r.op # "edit" /\ EditOK(r)
      BY <1>3, <2>1, <2>4 DEF OwnData
    <3>2. QED
      BY <1>5, <2>3, <2>4, <3>1 DEF EditOK
  <2>5. \A j \in Items : KindOf[j] = k => content'[j] = j
    BY <1>3 DEF OwnData
  <2>6. QED
    BY <2>2, <2>4, <2>5 DEF OwnData
<1>6. QED
  BY <1>4, <1>5

LEMMA OpenListEdits ==
  ASSUME TypeInv, OrderInv, EditInv, NEW i \in Items, NEW t \in Kinds, OpenList(i, t)
  PROVE  EditInv'
<1> SUFFICES ASSUME ~astray', NEW k \in Edited \ crossed' PROVE OwnData(k)'
  BY DEF EditInv
<1>1. /\ Shown(i) /\ Crossing(KindOf[i]) /\ actual' = [actual EXCEPT ![KindOf[i]] = i]
      /\ ParentKind[t] = KindOf[i] /\ t \in Nested /\ Load(t, i, net)
      /\ stack' = Open(<<"list", t>>) /\ UNCHANGED <<content, form>>
  BY DEF OpenList, Nested, server
<1>2. KindOf[i] \in Edited /\ t # "network"
  BY <1>1, KindFacts DEF Nested
<1>3. PICK d \in Dialogs : d = <<"list", t>>
  BY <1>2, DialogFacts
<1>4. \A e : OnStack(e)' => OnStack(e) \/ e = d
  BY <1>1, <1>3, OpenSingle DEF OnStack, TypeInv
<1>5. OnStack(<<"edit", k>>)' => OnStack(<<"edit", k>>)
  BY <1>3, <1>4
<1>6. \A q : q = Request("list", t, i, <<>>, 0) => q.op \notin {"edit", "update"}
  BY RequestFacts
<1>7. \A r \in net' : r \in net \/ r.op \notin {"edit", "update"}
  BY <1>1, <1>6 DEF Load
<1>8. QED
  BY <1>1, <1>2, <1>5, <1>7, ClickedOwn

LEMMA OpenEditEdits ==
  ASSUME TypeInv, OrderInv, EditInv, NEW i \in Items, OpenEdit(i)
  PROVE  EditInv'
<1> SUFFICES ASSUME ~astray', NEW k \in Edited \ crossed' PROVE OwnData(k)'
  BY DEF EditInv
<1>1. /\ Shown(i) /\ Crossing(KindOf[i]) /\ actual' = [actual EXCEPT ![KindOf[i]] = i]
      /\ KindOf[i] \in Edited /\ net' = net \union {Request("edit", KindOf[i], i, <<>>, 0)}
      /\ UNCHANGED <<content, form, stack>>
  BY DEF OpenEdit, server
<1>2. \A q : q = Request("edit", KindOf[i], i, <<>>, 0) =>
               q.op = "edit" /\ q.kind = KindOf[i] /\ q.link = i /\ q.code = 0
  BY RequestFacts
<1>3. \A r \in net' :
        r \in net \/ (r.op = "edit" /\ r.kind = KindOf[i] /\ r.link = i /\ r.code = 0)
  BY <1>1, <1>2
<1>4. OnStack(<<"edit", k>>)' => OnStack(<<"edit", k>>)
  BY <1>1 DEF OnStack
<1>5. QED
  BY <1>1, <1>3, <1>4, ClickedOwn

LEMMA SaveEdits ==
  ASSUME TypeInv, EditInv, NEW j \in Edited, SaveEdit(j)
  PROVE  EditInv'
<1> SUFFICES ASSUME ~astray', NEW k \in Edited \ crossed' PROVE OwnData(k)'
  BY DEF EditInv
<1>1. /\ net' = net \union {Request("update", j, actual[j], <<form[j]>>, 0)}
      /\ OnTop(<<"edit", j>>) /\ stack' = Close(<<"edit", j>>)
      /\ UNCHANGED <<content, form, actual, astray, crossed>>
  BY DEF SaveEdit, server, history
<1>2. OwnData(k)
  BY <1>1 DEF EditInv
<1>3. OnStack(<<"edit", k>>)' => OnStack(<<"edit", k>>)
  BY <1>1, ClosedIsOn
<1>4. ASSUME NEW q, q = Request("update", j, actual[j], <<form[j]>>, 0), q.kind = k
      PROVE  EditOK(q)'
  <2>1. q.op = "update" /\ q.kind = j /\ q.link = actual[j] /\ q.body = <<form[j]>>
    BY <1>4, RequestFacts
  <2>2. form[j] = actual[j]
    BY <1>1, <1>2, <1>4, <2>1, OnTopIsOn DEF OwnData
  <2>3. QED
    BY <2>1, <2>2 DEF EditOK
<1>5. \A r \in net' : r \in net \/ r.kind # k \/ EditOK(r)'
  BY <1>1, <1>4
<1>6. QED
  BY <1>1, <1>2, <1>3, <1>5, OwnParts

\* What leaves the forms, links and data alone.
LEMMA PlainEdits ==
  ASSUME EditInv, UNCHANGED <<content, form, actual>>, astray => astray', crossed \subseteq crossed',
         \A k \in Edited : OnStack(<<"edit", k>>)' => OnStack(<<"edit", k>>),
         \A r \in net' : r \in net \/ EditOK(r)'
  PROVE  EditInv'
<1> SUFFICES ASSUME ~astray', NEW k \in Edited \ crossed' PROVE OwnData(k)'
  BY DEF EditInv
<1>1. OwnData(k)
  BY DEF EditInv
<1>2. QED
  BY <1>1, OwnParts

\* A form that is saved goes to its own row, and one that is asked for gets it.
LEMMA ServeEdits ==
  ASSUME TypeInv, EditInv, NEW r \in net, Serve(r) \/ Fail(r)
  PROVE  EditInv'
<1> SUFFICES ASSUME ~astray', NEW k \in Edited \ crossed' PROVE OwnData(k)'
  BY DEF EditInv
<1>1. /\ UNCHANGED <<page, crossed, astray>>
      /\ \E reply :
           /\ Answer(r, reply)
           /\ \/ reply = Failure /\ UNCHANGED content
              \/ reply = Failure /\ Accepts(r) /\ Effect(r)
              \/ Accepts(r) /\ Effect(r) /\ reply \in Replies(r)
  BY DEF Serve, Fail, server
<1>2. PICK reply :
        /\ Answer(r, reply)
        /\ \/ reply = Failure /\ UNCHANGED content
           \/ reply = Failure /\ Accepts(r) /\ Effect(r)
           \/ Accepts(r) /\ Effect(r) /\ reply \in Replies(r)
  BY <1>1
<1>3. OwnData(k)
  BY <1>1 DEF EditInv
<1>4. PICK a : a = Answering(r, reply)
  OBVIOUS
<1>5. /\ a.op = r.op /\ a.kind = r.kind /\ a.link = r.link /\ a.body = r.body
      /\ a.code = reply.code /\ a.data = reply.data
  BY <1>4, AnsweringFacts, RequestIs
<1>6. net' = (net \ {r}) \union {a}
  BY <1>2, <1>4 DEF Answer, Answering
<1>7. ASSUME r.kind = k PROVE EditOK(a)
  <2>1. EditOK(r)
    BY <1>3, <1>7 DEF OwnData
  <2>2. ASSUME r.op = "edit", reply.code = 200 PROVE reply.data = <<r.link>>
    <3>1. Accepts(r) /\ reply \in Replies(r)
      BY <1>2, <2>2 DEF Failure
    <3>2. reply.data = <<content[r.link]>>
      BY <2>2, <3>1, ReplyShape
    <3>3. r.link \in Items /\ KindOf[r.link] = k
      BY <1>7, <2>2, RequestIs DEF AsksOK
    <3>4. QED
      BY <1>3, <3>2, <3>3 DEF OwnData
  <2>3. QED
    BY <1>5, <2>1, <2>2 DEF EditOK
<1>8. \A i \in Items : KindOf[i] = k => content'[i] = i
  <2>1. CASE UNCHANGED content
    BY <1>3, <2>1 DEF OwnData
  <2>2. CASE Accepts(r) /\ Effect(r) /\ r.op = "update"
    <3>1. content' = [content EXCEPT ![r.link] = r.body[1]]
      BY <2>2 DEF Effect
    <3>2. r.link \in Items /\ KindOf[r.link] = r.kind
      BY <2>2, RequestIs DEF AsksOK, Accepts, Live
    <3>3. r.kind = k => r.body[1] = r.link
      BY <1>3, <2>2 DEF OwnData, EditOK
    <3>4. QED
      BY <1>3, <3>1, <3>2, <3>3 DEF OwnData, TypeInv, ServerOK
  <2>3. CASE Effect(r) /\ r.op # "update"
    BY <1>3, <2>3 DEF OwnData, Effect
  <2>4. QED
    BY <1>2, <2>1, <2>2, <2>3
<1>9. ASSUME NEW q \in net', q.kind = k PROVE EditOK(q)'
  <2>1. EditOK(q)
    BY <1>3, <1>5, <1>6, <1>7, <1>9 DEF OwnData
  <2>2. QED
    BY <1>1, <2>1 DEF EditOK, page
<1>10. OnStack(<<"edit", k>>)' => form'[k] = actual'[k]
  BY <1>1, <1>3 DEF OwnData, OnStack, page
<1>11. QED
  BY <1>8, <1>9, <1>10 DEF OwnData

LEMMA FormArrivesEdits ==
  ASSUME TypeInv, EditInv, NEW r \in net, FormArrives(r)
  PROVE  EditInv'
<1> SUFFICES ASSUME ~astray', NEW k \in Edited \ crossed' PROVE OwnData(k)'
  BY DEF EditInv
<1>1. /\ r.op = "edit" /\ net' = net \ {r} /\ UNCHANGED <<content, actual, astray>>
      /\ \/ /\ Succeeds(r) /\ form' = [form EXCEPT ![r.kind] = r.data[1]]
            /\ stack' = Open(<<"edit", r.kind>>) /\ UNCHANGED crossed
         \/ /\ form' = [form EXCEPT ![r.kind] = Blank] /\ stack' = Open(<<"edit", r.kind>>)
            /\ crossed' = crossed \union {r.kind}
         \/ UNCHANGED <<form, stack, crossed>>
  BY DEF FormArrives, Answered, server
<1>2. OwnData(k)
  BY <1>1 DEF EditInv
<1>3. form \in [Edited -> Items \union {Blank}] /\ r.kind \in Edited
  BY <1>1, RequestIs DEF TypeInv, PageOK, AsksOK
<1>4. \A q \in net' : q \in net
  BY <1>1
<1>5. CASE UNCHANGED <<form, stack, crossed>>
  BY <1>1, <1>2, <1>4, <1>5, OwnParts DEF OnStack
<1>6. CASE stack' = Open(<<"edit", r.kind>>)
  <2>1. PICK d \in Dialogs : d = <<"edit", r.kind>>
    BY <1>3, DialogFacts
  <2>2. \A e : OnStack(e)' => OnStack(e) \/ e = d
    BY <1>6, <2>1, OpenSingle DEF OnStack, TypeInv
  <2>3. CASE k # r.kind
    <3>1. OnStack(<<"edit", k>>)' => OnStack(<<"edit", k>>)
      BY <2>1, <2>2, <2>3
    <3>2. form'[k] = form[k]
      BY <1>1, <1>3, <2>3
    <3>3. QED
      BY <1>1, <1>2, <1>4, <3>1, <3>2, OwnParts
  <2>4. CASE k = r.kind
    <3>1. CASE form' = form /\ stack' = stack
      BY <1>1, <1>2, <1>4, <3>1, OwnParts DEF OnStack
    <3>2. CASE Succeeds(r) /\ form' = [form EXCEPT ![r.kind] = r.data[1]]
      <4>1. r.code = 200
        BY <1>1, <3>2, RequestIs DEF AnswerOK, Succeeds
      <4>2. r.link = actual[k] /\ r.data = <<r.link>>
        BY <1>1, <1>2, <2>4, <4>1 DEF OwnData, EditOK
      <4>3. form'[k] = actual'[k]
        BY <1>1, <1>3, <2>4, <3>2, <4>2
      <4>4. \A q \in net' : q.kind = k => EditOK(q)'
        BY <1>1, <1>2 DEF OwnData, EditOK
      <4>5. QED
        BY <1>1, <1>2, <4>3, <4>4 DEF OwnData
    <3>3. CASE crossed' = crossed \union {r.kind}
      BY <2>4, <3>3
    <3>4. QED
      BY <1>1, <3>1, <3>2, <3>3
  <2>5. QED
    BY <2>3, <2>4
<1>7. QED
  BY <1>1, <1>5, <1>6

LEMMA EditStep ==
  ASSUME TypeInv, OrderInv, EditInv, [Next]_vars
  PROVE  EditInv'
<1>1. CASE UNCHANGED vars
  BY <1>1, PlainEdits DEF vars, server, page, history, OnStack
<1>2. ASSUME NEW i \in Items, OpenLog(i) PROVE EditInv'
  <2>1. /\ Shown(i) /\ Load("log", i, net) /\ UNCHANGED <<content, form, actual, stack, crossed>>
    BY <1>2 DEF OpenLog, server
  <2>2. astray => astray'
    BY <2>1 DEF Shown
  <2>3. \A r \in net' : r \in net \/ EditOK(r)'
    BY <2>1, LoadEditOK
  <2>4. QED
    BY <2>1, <2>2, <2>3, PlainEdits DEF OnStack
<1>3. ASSUME NEW i \in Items, Delete(i) \/ Unindex(i) PROVE EditInv'
  <2>1. /\ Shown(i) /\ UNCHANGED <<content, form, actual, stack, crossed>>
        /\ \/ net' = net \union {Request("destroy", KindOf[i], i, <<>>, 0)}
           \/ net' = net \union {Request("unindex", "network", i, <<>>, 0)}
    BY <1>3 DEF Delete, Unindex, page, server
  <2>2. astray => astray'
    BY <2>1 DEF Shown
  <2>3. \A r \in net' : r \in net \/ EditOK(r)'
    BY <2>1, NoEditOK
  <2>4. QED
    BY <2>1, <2>2, <2>3, PlainEdits DEF OnStack
<1>4. CASE ReloadSnapshots
  <2>1. /\ Load("snapshot", actual["network"], net)
        /\ UNCHANGED <<content, form, actual, stack, crossed, astray>>
    BY <1>4 DEF ReloadSnapshots, server
  <2>2. \A r \in net' : r \in net \/ EditOK(r)'
    BY <2>1, LoadEditOK
  <2>3. QED
    BY <2>1, <2>2, PlainEdits DEF OnStack
<1>5. CASE CreateNetwork
  <2>1. /\ UNCHANGED <<content, form, actual, crossed, astray>>
        /\ stack' = Close(<<"create", "network">>)
        /\ net' = net \union {Request("create", "network", None, <<>>, 0)}
    BY <1>5 DEF CreateNetwork, server, history
  <2>2. \A r \in net' : r \in net \/ EditOK(r)'
    BY <2>1, NoEditOK
  <2>3. \A e : OnStack(e)' => OnStack(e)
    BY <2>1, ClosedIsOn
  <2>4. QED
    BY <2>1, <2>2, <2>3, PlainEdits
<1>6. ASSUME NEW k \in Edited, CreateChild(k) PROVE EditInv'
  <2>1. PICK n : n = Len(closures')
    OBVIOUS
  <2>2. /\ UNCHANGED <<content, form, actual, crossed, astray>>
        /\ stack' = Close(<<"create", k>>)
        /\ net' = net \union {Request("collect", k, actual[ParentKind[k]], <<>>, n)}
    BY <1>6, <2>1 DEF CreateChild, server
  <2>3. \A r \in net' : r \in net \/ EditOK(r)'
    BY <2>2, NoEditOK
  <2>4. \A e : OnStack(e)' => OnStack(e)
    BY <2>2, ClosedIsOn
  <2>5. QED
    BY <2>2, <2>3, <2>4, PlainEdits
<1>7. ASSUME NEW k \in Edited, OpenCreate(k) PROVE EditInv'
  <2>1. /\ UNCHANGED <<content, form, actual, crossed, astray, net>>
        /\ stack' = Open(<<"create", k>>)
    BY <1>7 DEF OpenCreate, server, history
  <2>2. PICK d \in Dialogs : d = <<"create", k>>
    BY DialogFacts
  <2>3. \A e : OnStack(e)' => OnStack(e) \/ e = d
    BY <2>1, <2>2, OpenSingle DEF OnStack, TypeInv
  <2>4. \A j \in Edited : OnStack(<<"edit", j>>)' => OnStack(<<"edit", j>>)
    BY <2>2, <2>3
  <2>5. QED
    BY <2>1, <2>4, PlainEdits
<1>8. CASE CloseTop
  <2>1. /\ UNCHANGED <<content, form, actual, crossed, astray, net>>
        /\ stack' = Close(stack[Len(stack)])
    BY <1>8 DEF CloseTop, server, history
  <2>2. \A e : OnStack(e)' => OnStack(e)
    BY <2>1, ClosedIsOn
  <2>3. QED
    BY <2>1, <2>2, PlainEdits
<1>9. ASSUME NEW r \in net, ListArrives(r) PROVE EditInv'
  <2>1. /\ UNCHANGED <<content, form, actual, crossed, astray>> /\ net' = net \ {r}
        /\ stack' = Open(<<"list", "log">>) \/ stack' = stack
    BY <1>9 DEF ListArrives, server
  <2>2. PICK d \in Dialogs : d = <<"list", "log">>
    BY DialogFacts DEF Kinds
  <2>3. \A e : OnStack(e)' => OnStack(e) \/ e = d
    BY <2>1, <2>2, OpenSingle DEF OnStack, TypeInv
  <2>4. \A j \in Edited : OnStack(<<"edit", j>>)' => OnStack(<<"edit", j>>)
    BY <2>2, <2>3
  <2>5. QED
    BY <2>1, <2>4, PlainEdits
<1>10. ASSUME NEW r \in net, Handle(r), ~ListArrives(r), ~FormArrives(r) PROVE EditInv'
  <2>1. UNCHANGED <<content, form, actual, stack, crossed, astray>>
    BY <1>10 DEF Handle, Updated, Deleted, CollectionArrives, NetworkCreated, ChildCreated,
       Related, page, server
  <2>2. \A q \in net' : q \in net \/ EditOK(q)'
    <3>1. ASSUME NEW k, Refresh(k, r) PROVE \A q \in net' : q \in net \/ EditOK(q)'
      <4>1. PICK p : p = IF k = "network" THEN None ELSE actual[ParentKind[k]]
        OBVIOUS
      <4>2. Load(k, p, net \ {r})
        BY <3>1, <4>1 DEF Refresh
      <4>3. QED
        BY <4>2, LoadEditOK
    <3>2. CASE CollectionArrives(r)
      <4>1. PICK k, m, n : /\ k = closures[r.then].kind /\ m = closures[r.then].meant
                           /\ n = onCreated
        OBVIOUS
      <4>2. net' = (net \ {r}) \union {Request("create", k, m, <<>>, n)}
        BY <3>2, <4>1 DEF CollectionArrives
      <4>3. QED
        BY <4>2, NoEditOK
    <3>3. CASE ChildCreated(r)
      <4> DEFINE last == IF r.code = 201 THEN r.data ELSE <<None>>
      <4>1. PICK k, p, items : /\ k = closures[r.then].kind /\ p = closures[r.then].link
                               /\ items = closures[r.then].items
        OBVIOUS
      <4>2. \/ net' = net \ {r}
            \/ net' = (net \ {r}) \union {Request("relate", k, p, items \o last, r.then)}
        BY <3>3, <4>1 DEF ChildCreated
      <4> HIDE DEF last
      <4>3. QED
        BY <4>2, NoEditOK
    <3>4. CASE net' = net \ {r}
      BY <3>4
    <3>5. QED
      BY <1>10, <3>1, <3>2, <3>3, <3>4 DEF Handle, Updated, Deleted, NetworkCreated, Related,
         NoRefresh
  <2>3. QED
    BY <2>1, <2>2, PlainEdits DEF OnStack
<1>11. QED
  BY <1>1, <1>2, <1>3, <1>4, <1>5, <1>6, <1>7, <1>8, <1>9, <1>10, OpenListEdits, OpenEditEdits,
     SaveEdits, ServeEdits, FormArrivesEdits DEF Next, Administrator

\* What no form edits keeps its data.
LEMMA PlainStep ==
  ASSUME TypeInv, PlainInv, [Next]_vars
  PROVE  PlainInv'
<1> SUFFICES ASSUME NEW i \in Items, KindOf[i] \notin Edited PROVE content'[i] = i
  BY DEF PlainInv
<1>1. content[i] = i /\ content \in [Items -> Items \union {Blank}]
  BY DEF PlainInv, TypeInv, ServerOK
<1>2. CASE UNCHANGED server
  BY <1>1, <1>2 DEF server
<1>3. ASSUME NEW r \in net, Accepts(r), Effect(r) PROVE content'[i] = i
  <2>1. CASE r.op = "update"
    <3>1. content' = [content EXCEPT ![r.link] = r.body[1]]
      BY <1>3, <2>1 DEF Effect
    <3>2. r.link \in Items /\ KindOf[r.link] \in Edited
      BY <1>3, <2>1, RequestIs DEF AsksOK, Accepts, Live
    <3>3. QED
      BY <1>1, <3>1, <3>2
  <2>2. CASE r.op # "update"
    BY <1>1, <1>3, <2>2 DEF Effect
  <2>3. QED
    BY <2>1, <2>2
<1>4. QED
  BY <1>2, <1>3, StepServer

\* An edit form saves an item's own data over it, unless another item of its
\* kind was clicked before its answer, the request was refused, or a row in a
\* wrong table was clicked.
THEOREM OwnContents == Spec => []OwnContent
<1>1. Init => OrderInv
  BY DEF Init, OrderInv, Placed, OnStack
<1>2. Init => EditInv /\ PlainInv
  BY DEF Init, EditInv, OwnData, OnStack, PlainInv
<1>3. TypeInv /\ OrderInv /\ EditInv /\ PlainInv /\ [Next]_vars => OrderInv' /\ EditInv' /\ PlainInv'
  BY OrderStep, EditStep, PlainStep
<1>4. EditInv /\ PlainInv => OwnContent
  BY DEF EditInv, OwnData, PlainInv, OwnContent
<1>5. QED
  BY <1>1, <1>2, <1>3, <1>4, TypeInit, TypeStep, PTL DEF Spec

-----------------------------------------------------------------------------
(* The appends: which steps there are. *)

QuietStep ==
  /\ Appends' = Appends /\ (astray => astray')
  /\ UNCHANGED <<server, home, closures, onCreated, contested>>

LEMMA AppendsAsk ==
  ASSUME NEW rest \in SUBSET net, NEW q, q.then = 0, net' = rest \union {q},
         \A r \in net \ rest : r.then = 0
  PROVE  Appends' = Appends
BY DEF Appends

LEMMA AppendsLose ==
  ASSUME NEW r, r.then = 0, net' = net \ {r}
  PROVE  Appends' = Appends
BY DEF Appends

LEMMA LoadAppends ==
  ASSUME NEW t, NEW p, NEW rest \in SUBSET net, Load(t, p, rest),
         \A r \in net \ rest : r.then = 0
  PROVE  Appends' = Appends
<1>1. PICK q : q = Request("list", t, p, <<>>, 0)
  OBVIOUS
<1>2. q.then = 0
  BY <1>1, RequestFacts
<1>3. net' = rest \union {q}
  BY <1>1 DEF Load
<1>4. QED
  BY <1>2, <1>3, AppendsAsk

LEMMA RefreshAppends ==
  ASSUME NEW k, NEW r, r.then = 0, Refresh(k, r)
  PROVE  Appends' = Appends
<1>1. PICK p : p = IF k = "network" THEN None ELSE actual[ParentKind[k]]
  OBVIOUS
<1>2. Load(k, p, net \ {r})
  BY <1>1 DEF Refresh
<1>3. QED
  BY <1>2, LoadAppends

LEMMA AskedAppends ==
  ASSUME NEW op, NEW kind, NEW link, NEW body,
         net' = net \union {Request(op, kind, link, body, 0)}
  PROVE  Appends' = Appends
<1>1. PICK q : q = Request(op, kind, link, body, 0)
  OBVIOUS
<1>2. q.then = 0
  BY <1>1, RequestFacts
<1>3. QED
  BY <1>1, <1>2, AppendsAsk

\* What the administrator does starts an append, or has nothing to do with one.
LEMMA QuietAdministrator ==
  ASSUME TypeInv, Administrator
  PROVE  QuietStep \/ \E k \in Appendable : CreateChild(k)
<1>1. ASSUME NEW i \in Items, NEW t \in Kinds, OpenList(i, t) PROVE QuietStep
  <2>1. /\ Load(t, i, net) /\ Shown(i)
        /\ UNCHANGED <<server, home, closures, onCreated, contested>>
    BY <1>1 DEF OpenList
  <2>2. QED
    BY <2>1, LoadAppends DEF QuietStep, Shown
<1>2. ASSUME NEW i \in Items, OpenLog(i) PROVE QuietStep
  <2>1. /\ Load("log", i, net) /\ Shown(i)
        /\ UNCHANGED <<server, home, closures, onCreated, contested>>
    BY <1>2 DEF OpenLog
  <2>2. QED
    BY <2>1, LoadAppends DEF QuietStep, Shown
<1>3. ASSUME NEW i \in Items, OpenEdit(i) \/ Delete(i) \/ Unindex(i) PROVE QuietStep
  <2>1. /\ Shown(i) /\ UNCHANGED <<server, home, closures, onCreated, contested>>
        /\ \E op : net' = net \union {Request(op, KindOf[i], i, <<>>, 0)}
    BY <1>3 DEF OpenEdit, Delete, Unindex, page
  <2>2. QED
    BY <2>1, AskedAppends DEF QuietStep, Shown
<1>4. ASSUME NEW k \in Edited, SaveEdit(k) PROVE QuietStep
  <2>1. /\ net' = net \union {Request("update", k, actual[k], <<form[k]>>, 0)}
        /\ UNCHANGED <<server, home, closures, onCreated, contested, astray>>
    BY <1>4 DEF SaveEdit, history
  <2>2. QED
    BY <2>1, AskedAppends DEF QuietStep
<1>5. ASSUME NEW k \in Edited, OpenCreate(k) \/ CloseTop PROVE QuietStep
  BY <1>5 DEF OpenCreate, CloseTop, history, QuietStep, Appends
<1>6. CASE ReloadSnapshots
  <2>1. /\ Load("snapshot", actual["network"], net)
        /\ UNCHANGED <<server, home, closures, onCreated, contested, astray>>
    BY <1>6 DEF ReloadSnapshots
  <2>2. QED
    BY <2>1, LoadAppends DEF QuietStep
<1>7. CASE CreateNetwork
  <2>1. /\ net' = net \union {Request("create", "network", None, <<>>, 0)}
        /\ UNCHANGED <<server, home, closures, onCreated, contested, astray>>
    BY <1>7 DEF CreateNetwork, history
  <2>2. QED
    BY <2>1, AskedAppends DEF QuietStep
<1>8. ASSUME NEW k \in Edited, CreateChild(k) PROVE k \in Appendable
  BY <1>8 DEF CreateChild, Appendable
<1>9. "network" \in Edited
  BY DEF Edited
<1>10. QED
  BY <1>1, <1>2, <1>3, <1>4, <1>5, <1>6, <1>7, <1>8, <1>9 DEF Administrator

LEMMA QuietHandle ==
  ASSUME TypeInv, NEW r \in net, Handle(r)
  PROVE  QuietStep \/ (r \in Appends /\ (CollectionArrives(r) \/ ChildCreated(r) \/ Related(r)))
<1>0. AsksOK(r)
  BY RequestIs
<1>1. CASE ListArrives(r) \/ FormArrives(r)
  <2>1. /\ r.op \in {"list", "edit"} /\ net' = net \ {r}
        /\ UNCHANGED <<server, home, closures, onCreated, contested, astray>>
    BY <1>1 DEF ListArrives, FormArrives, Answered
  <2>2. r.then = 0
    BY <1>0, <2>1 DEF AsksOK
  <2>3. QED
    BY <2>1, <2>2, AppendsLose DEF QuietStep
<1>2. CASE Updated(r) \/ Deleted(r) \/ NetworkCreated(r)
  <2>1. /\ r.op \in {"update", "destroy", "unindex"} \/ r.then = 0
        /\ UNCHANGED <<server, home, closures, onCreated, contested, astray>>
        /\ net' = net \ {r} \/ \E k : Refresh(k, r)
    BY <1>2 DEF Updated, Deleted, NetworkCreated, Answered, NoRefresh
  <2>2. r.then = 0
    BY <1>0, <2>1 DEF AsksOK
  <2>3. QED
    BY <2>1, <2>2, AppendsLose, RefreshAppends DEF QuietStep
<1>3. CASE CollectionArrives(r) \/ ChildCreated(r) \/ Related(r)
  <2>1. r.op \in {"collect", "relate"} \/ r.then # 0
    BY <1>3 DEF CollectionArrives, ChildCreated, Related, Answered
  <2>2. r.then # 0
    BY <1>0, <2>1 DEF AsksOK
  <2>3. QED
    BY <1>3, <2>2 DEF Appends
<1>4. QED
  BY <1>1, <1>2, <1>3 DEF Handle

LEMMA AppendCases ==
  ASSUME TypeInv, [Next]_vars
  PROVE  \/ QuietStep
         \/ \E k \in Appendable : CreateChild(k)
         \/ \E r \in net : Serve(r) \/ Fail(r)
         \/ \E r \in Appends : CollectionArrives(r) \/ ChildCreated(r) \/ Related(r)
<1>1. CASE UNCHANGED vars
  BY <1>1 DEF vars, page, history, QuietStep, Appends
<1>2. QED
  BY <1>1, QuietAdministrator, QuietHandle DEF Next

\* A request r that is served becomes the answer a.
Served(r, a) ==
  /\ r.code = 0 /\ r.data = <<>>
  /\ a.op = r.op /\ a.kind = r.kind /\ a.link = r.link /\ a.body = r.body /\ a.then = r.then
  /\ a.code # 0 /\ net' = (net \ {r}) \union {a}
  /\ UNCHANGED <<closures, onCreated, astray>> /\ contested \subseteq contested'
  /\ \/ a.code = 500 /\ a.data = <<>> /\ UNCHANGED <<server, home>>
     \/ /\ a.code = 500 /\ a.data = <<>> /\ Accepts(r) /\ Effect(r)
        /\ Appended(r) \subseteq contested'
     \/ /\ a.code # 500 /\ Accepts(r) /\ Effect(r)
        /\ r.op \in {"list", "collect"} => a.code = 200 /\ a.data = Children(r.kind, r.link)
        /\ r.op = "create" => a.code = 201 /\ a.data = <<Head(Unused(r.kind))>>
        /\ r.op = "relate" => a.code = 204

LEMMA ServeShape ==
  ASSUME TypeInv, NEW r \in net, Serve(r) \/ Fail(r)
  PROVE  \E a : Served(r, a)
<1>1. /\ r.code = 0 /\ UNCHANGED <<closures, onCreated, astray>> /\ contested \subseteq contested'
      /\ \E reply :
           /\ Answer(r, reply)
           /\ \/ reply = Failure /\ UNCHANGED <<server, home>>
              \/ /\ reply = Failure /\ Accepts(r) /\ Effect(r)
                 /\ Appended(r) \subseteq contested'
              \/ Accepts(r) /\ Effect(r) /\ reply \in Replies(r)
  BY DEF Serve, Fail, Waiting, page
<1>2. PICK reply :
        /\ Answer(r, reply)
        /\ \/ reply = Failure /\ UNCHANGED <<server, home>>
           \/ /\ reply = Failure /\ Accepts(r) /\ Effect(r)
              /\ Appended(r) \subseteq contested'
           \/ Accepts(r) /\ Effect(r) /\ reply \in Replies(r)
  BY <1>1
<1>3. PICK a : a = Answering(r, reply)
  OBVIOUS
<1>4. /\ a.op = r.op /\ a.kind = r.kind /\ a.link = r.link /\ a.body = r.body
      /\ a.then = r.then /\ a.code = reply.code /\ a.data = reply.data
  BY <1>3, AnsweringFacts, RequestIs
<1>5. r.data = <<>>
  BY <1>1, RequestIs DEF AnswerOK
<1>6. net' = (net \ {r}) \union {a}
  BY <1>2, <1>3 DEF Answer, Answering
<1>7. CASE reply = Failure
  <2>1. a.code = 500 /\ a.data = <<>>
    BY <1>4, <1>7 DEF Failure
  <2>2. ~(Accepts(r) /\ Effect(r) /\ reply \in Replies(r))
    BY <1>7, ReplyShape DEF Failure
  <2>3. QED
    BY <1>1, <1>2, <1>4, <1>5, <1>6, <2>1, <2>2 DEF Served
<1>8. CASE reply # Failure
  <2>1. Accepts(r) /\ Effect(r) /\ reply \in Replies(r)
    BY <1>2, <1>8
  <2>2. /\ a.code \notin {0, 500}
        /\ r.op \in {"list", "collect"} => a.code = 200 /\ a.data = Children(r.kind, r.link)
        /\ r.op = "create" => a.code = 201 /\ a.data = <<Head(Unused(r.kind))>>
        /\ r.op = "relate" => a.code = 204
    BY <1>4, <2>1, ReplyShape
  <2>3. QED
    BY <1>1, <1>4, <1>5, <1>6, <2>1, <2>2 DEF Served
<1>9. QED
  BY <1>7, <1>8

\* The steps of a chain: a collection is asked for, it arrives and the item is
\* created, it is related, and the relation is answered.
Asked(k, q) ==
  LET p == actual[ParentKind[k]]
  IN  /\ q.op = "collect" /\ q.link = p /\ q.then = onCreated' /\ q.code = 0 /\ q.data = <<>>
      /\ Appends' = Appends \union {q}
      /\ closures' = Append(closures, [kind |-> k, link |-> p, meant |-> opened[k], items |-> <<>>])
      /\ onCreated' = Len(closures) + 1
      /\ contested' = IF Appends = {} THEN contested
                      ELSE contested \union {p, opened[k]} \union UNION {Appended(r) : r \in Appends}
      /\ OnTop(<<"create", k>>) /\ UNCHANGED <<server, home, astray>>
Collected(r, q) ==
  /\ r.op = "collect" /\ r.code # 0
  /\ q.op = "create" /\ q.link = closures[r.then].meant /\ q.then = onCreated
  /\ q.code = 0 /\ q.data = <<>>
  /\ Appends' = (Appends \ {r}) \union {q}
  /\ closures' = [closures EXCEPT ![r.then].items = @ \o (IF Succeeds(r) THEN r.data ELSE <<>>)]
  /\ contested' = IF Succeeds(r) THEN contested ELSE contested \union Appended(r)
  /\ UNCHANGED <<server, home, onCreated, astray>>
Created(r, q) ==
  /\ r.op = "create" /\ r.code # 0
  /\ \/ Succeeds(r) /\ Appends' = Appends \ {r}
     \/ /\ ~Succeeds(r) /\ Appends' = (Appends \ {r}) \union {q}
        /\ q.op = "relate" /\ q.kind = closures[r.then].kind /\ q.link = closures[r.then].link
        /\ q.body = closures[r.then].items \o (IF r.code = 201 THEN r.data ELSE <<None>>)
        /\ q.then = r.then /\ q.code = 0 /\ q.data = <<>>
  /\ contested' = IF Succeeds(r) \/ r.code # 201 THEN contested \union Appended(r)
                                                 ELSE contested
  /\ UNCHANGED <<server, home, closures, onCreated, astray>>
Finished(r) ==
  /\ r.op = "relate" /\ r.code # 0 /\ Appends' = Appends \ {r}
  /\ contested' = IF Succeeds(r) THEN contested ELSE contested \union Appended(r)
  /\ UNCHANGED <<server, home, closures, onCreated, astray>>

LEMMA AppendsPass ==
  ASSUME NEW r, NEW q, q.then # 0, net' = (net \ {r}) \union {q}
  PROVE  Appends' = (Appends \ {r}) \union {q}
BY DEF Appends

LEMMA AskedShape ==
  ASSUME TypeInv, NEW k, CreateChild(k)
  PROVE  \E q : Asked(k, q)
<1>1. PICK p, n : p = actual[ParentKind[k]] /\ n = Len(closures')
  OBVIOUS
<1>2. /\ closures' = Append(closures, [kind |-> k, link |-> p, meant |-> opened[k], items |-> <<>>])
      /\ onCreated' = n /\ net' = net \union {Request("collect", k, p, <<>>, n)}
      /\ contested' = IF Appends = {} THEN contested
                      ELSE contested \union {p, opened[k]} \union UNION {Appended(r) : r \in Appends}
      /\ OnTop(<<"create", k>>) /\ UNCHANGED <<server, home, astray>>
  BY <1>1 DEF CreateChild
<1>3. PICK q : q = Request("collect", k, p, <<>>, n)
  OBVIOUS
<1>4. q.op = "collect" /\ q.link = p /\ q.then = n /\ q.code = 0 /\ q.data = <<>>
  BY <1>3, RequestFacts
<1>5. n = Len(closures) + 1 /\ Len(closures) \in Nat
  BY <1>1, <1>2 DEF TypeInv, ClosuresOK
<1>6. q.then # 0
  BY <1>4, <1>5
<1>7. Appends' = Appends \union {q}
  BY <1>2, <1>3, <1>6 DEF Appends
<1>8. Asked(k, q)
  BY <1>1, <1>2, <1>4, <1>5, <1>7 DEF Asked
<1>9. QED
  BY <1>8

LEMMA CollectedShape ==
  ASSUME TypeInv, NEW r \in Appends, CollectionArrives(r)
  PROVE  \E q : Collected(r, q)
<1>1. PICK k, m : k = closures[r.then].kind /\ m = closures[r.then].meant
  OBVIOUS
<1>2. PICK q, n : q = Request("create", k, m, <<>>, n) /\ n = onCreated
  OBVIOUS
<1>3. /\ r.op = "collect" /\ r.code # 0
      /\ closures' = [closures EXCEPT ![r.then].items = @ \o (IF Succeeds(r) THEN r.data ELSE <<>>)]
      /\ net' = (net \ {r}) \union {Request("create", k, m, <<>>, n)}
      /\ contested' = IF Succeeds(r) THEN contested ELSE contested \union Appended(r)
      /\ UNCHANGED <<server, home, onCreated, astray>>
  BY <1>1, <1>2 DEF CollectionArrives, Answered, Waiting
<1>4. q.op = "create" /\ q.link = m /\ q.then = n /\ q.code = 0 /\ q.data = <<>>
  BY <1>2, RequestFacts
<1>5. n # 0
  <2>1. r \in net /\ r.then # 0
    BY DEF Appends
  <2>2. r.then \in Nat /\ r.then <= Len(closures) /\ Len(closures) \in Nat
    BY <2>1, RequestIs
  <2>3. QED
    BY <1>2, <2>1, <2>2 DEF TypeInv, ClosuresOK
<1>6. Appends' = (Appends \ {r}) \union {q}
  BY <1>2, <1>3, <1>4, <1>5, AppendsPass
<1>7. Collected(r, q)
  BY <1>1, <1>2, <1>3, <1>4, <1>6 DEF Collected
<1>8. QED
  BY <1>7

LEMMA CreatedShape ==
  ASSUME TypeInv, NEW r \in Appends, ChildCreated(r)
  PROVE  \E q : Created(r, q)
<1>1. PICK k, p, items, a : /\ k = closures[r.then].kind /\ p = closures[r.then].link
                            /\ items = closures[r.then].items /\ a = r.then
  OBVIOUS
<1> DEFINE last == IF r.code = 201 THEN r.data ELSE <<None>>
<1> HIDE DEF last
<1>b. PICK b : b = items \o last
  OBVIOUS
<1> USE DEF last
<1>2. PICK q : q = Request("relate", k, p, b, a)
  OBVIOUS
<1>3. /\ r.op = "create" /\ r.code # 0
      /\ \/ Succeeds(r) /\ net' = net \ {r}
         \/ /\ ~Succeeds(r)
            /\ net' = (net \ {r}) \union {Request("relate", k, p, b, a)}
      /\ contested' = IF Succeeds(r) \/ r.code # 201 THEN contested \union Appended(r)
                                                     ELSE contested
      /\ UNCHANGED <<server, home, closures, onCreated, astray>>
  BY <1>1, <1>b DEF ChildCreated, Answered, Waiting, page
<1>4. /\ q.op = "relate" /\ q.kind = k /\ q.link = p /\ q.body = b /\ q.then = a
      /\ q.code = 0 /\ q.data = <<>>
  BY <1>2, RequestFacts
<1>5. a # 0
  BY <1>1 DEF Appends
<1>6. \/ Succeeds(r) /\ Appends' = Appends \ {r}
      \/ ~Succeeds(r) /\ Appends' = (Appends \ {r}) \union {q}
  <2>1. CASE Succeeds(r) /\ net' = net \ {r}
    BY <2>1 DEF Appends
  <2>2. CASE ~Succeeds(r) /\ net' = (net \ {r}) \union {q}
    BY <1>4, <1>5, <2>2, AppendsPass
  <2>3. QED
    BY <1>2, <1>3, <2>1, <2>2
<1>7. Created(r, q)
  BY <1>1, <1>b, <1>3, <1>4, <1>6 DEF Created
<1>8. QED
  BY <1>7

LEMMA FinishedShape ==
  ASSUME TypeInv, NEW r \in Appends, Related(r)
  PROVE  Finished(r)
<1>1. /\ r.op = "relate" /\ r.code # 0 /\ \E k : Refresh(k, r)
      /\ contested' = IF Succeeds(r) THEN contested ELSE contested \union Appended(r)
      /\ UNCHANGED <<server, home, closures, onCreated, astray>>
  BY DEF Related, Answered, Waiting
<1>2. PICK t, p : Load(t, p, net \ {r})
  BY <1>1 DEF Refresh
<1>3. PICK q : q = Request("list", t, p, <<>>, 0)
  OBVIOUS
<1>4. q.then = 0
  BY <1>3, RequestFacts
<1>5. net' = (net \ {r}) \union {q}
  BY <1>2, <1>3 DEF Load
<1>6. Appends' = Appends \ {r}
  BY <1>4, <1>5 DEF Appends
<1>7. QED
  BY <1>1, <1>6 DEF Finished

\* A request that is served is of a chain before and after, or never.
LEMMA ServedAppends ==
  ASSUME TypeInv, NEW r \in net, NEW a, Served(r, a)
  PROVE  \/ r.then = 0 /\ Appends' = Appends
         \/ r \in Appends /\ Appends' = (Appends \ {r}) \union {a}
BY DEF Served, Appends

LEMMA ChainFacts ==
  ASSUME TypeInv, NEW r \in Appends
  PROVE  /\ r \in net /\ r.then \in 1..Len(closures) /\ r.then # 0
         /\ Appended(r) = {closures[r.then].link, closures[r.then].meant}
         /\ onCreated = Len(closures) /\ Len(closures) \in Nat /\ onCreated \in 1..Len(closures)
         /\ ClosureOK(closures[r.then]) /\ r.op \in {"collect", "create", "relate"}
<1>1. r \in net /\ r.then # 0
  BY DEF Appends
<1>2. r.then \in Nat /\ r.then <= Len(closures) /\ Len(closures) \in Nat /\ AsksOK(r)
  BY <1>1, RequestIs
<1>3. r.then \in 1..Len(closures)
  BY <1>1, <1>2
<1>4. onCreated = Len(closures) /\ \A c \in 1..Len(closures) : ClosureOK(closures[c])
  BY DEF TypeInv, ClosuresOK
<1>5. onCreated \in 1..Len(closures)
  BY <1>2, <1>3, <1>4
<1>6. r.op \in {"collect", "create", "relate"}
  BY <1>1, <1>2 DEF AsksOK
<1>7. QED
  BY <1>1, <1>2, <1>3, <1>4, <1>5, <1>6 DEF Appended

LEMMA AppendShapes ==
  ASSUME TypeInv, [Next]_vars
  PROVE  \/ QuietStep
         \/ \E k \in Appendable : \E q : Asked(k, q)
         \/ \E r \in net : \E a : Served(r, a)
         \/ \E r \in Appends : (\E q : Collected(r, q) \/ Created(r, q)) \/ Finished(r)
BY AppendCases, AskedShape, ServeShape, CollectedShape, CreatedShape, FinishedShape

-----------------------------------------------------------------------------
(* The appends: chains and collections. *)

SameLinks ==
  \A c \in 1..Len(closures) :
    closures'[c].link = closures[c].link /\ closures'[c].meant = closures[c].meant

LEMMA SameAppended ==
  ASSUME TypeInv, SameLinks, NEW r \in Appends, NEW q, q.then = r.then
  PROVE  Appended(q)' = Appended(r)
<1>1. r.then \in 1..Len(closures) /\ Appended(r) = {closures[r.then].link, closures[r.then].meant}
      /\ r.then # 0
  BY ChainFacts
<1>2. closures'[r.then].link = closures[r.then].link /\ closures'[r.then].meant = closures[r.then].meant
  BY <1>1 DEF SameLinks
<1>3. QED
  BY <1>1, <1>2 DEF Appended

LEMMA AskedClosures ==
  ASSUME TypeInv, NEW k, NEW q, Asked(k, q)
  PROVE  /\ SameLinks /\ onCreated' = Len(closures) + 1 /\ Len(closures) \in Nat
         /\ Len(closures') = Len(closures) + 1
         /\ \A c \in 1..Len(closures) : closures'[c] = closures[c]
         /\ closures'[onCreated'].kind = k /\ closures'[onCreated'].link = actual[ParentKind[k]]
         /\ closures'[onCreated'].meant = opened[k] /\ closures'[onCreated'].items = <<>>
<1>1. closures \in Seq([kind : Appendable, link : Items, meant : Items, items : Seq(Items)])
  BY DEF TypeInv, ClosuresOK
<1>2. PICK x : x = [kind |-> k, link |-> actual[ParentKind[k]], meant |-> opened[k], items |-> <<>>]
  OBVIOUS
<1>3. closures' = Append(closures, x) /\ onCreated' = Len(closures) + 1
  BY <1>2 DEF Asked
<1>4. /\ Len(closures) \in Nat /\ Len(closures') = Len(closures) + 1
      /\ \A c \in 1..Len(closures) : closures'[c] = closures[c]
      /\ closures'[Len(closures) + 1] = x
  BY <1>1, <1>3
<1>5. QED
  BY <1>2, <1>3, <1>4 DEF SameLinks

LEMMA CollectedClosures ==
  ASSUME TypeInv, NEW r \in Appends, NEW q, Collected(r, q)
  PROVE  /\ SameLinks /\ Len(closures') = Len(closures)
         /\ \A c \in 1..Len(closures) : c # r.then => closures'[c] = closures[c]
         /\ closures'[r.then].kind = closures[r.then].kind
         /\ closures'[r.then].items =
              closures[r.then].items \o (IF Succeeds(r) THEN r.data ELSE <<>>)
<1> DEFINE S == [kind : Appendable, link : Items, meant : Items, items : Seq(Items)]
           more == IF Succeeds(r) THEN r.data ELSE <<>>
<1>1. closures \in Seq(S)
  BY DEF TypeInv, ClosuresOK
<1>2. r.then \in 1..Len(closures) /\ ClosureOK(closures[r.then])
  BY ChainFacts
<1>3. closures[r.then] \in S
  BY <1>2 DEF ClosureOK
<1>4. closures' = [closures EXCEPT ![r.then].items = @ \o more]
  BY DEF Collected
<1> HIDE DEF more
<1>5. PICK d : d = [closures[r.then] EXCEPT !.items = @ \o more]
  OBVIOUS
<1>6. /\ d.kind = closures[r.then].kind /\ d.link = closures[r.then].link
      /\ d.meant = closures[r.then].meant /\ d.items = closures[r.then].items \o more
  BY <1>3, <1>5
<1>7. closures' = [closures EXCEPT ![r.then] = d]
  BY <1>4, <1>5
<1> HIDE DEF S
<1>8. /\ Len(closures') = Len(closures) /\ closures'[r.then] = d
      /\ \A c \in 1..Len(closures) : c # r.then => closures'[c] = closures[c]
  BY <1>1, <1>2, <1>7
<1>9. SameLinks
  BY <1>6, <1>8 DEF SameLinks
<1>10. QED
  BY <1>6, <1>8, <1>9 DEF more

LEMMA ChainPasses ==
  ASSUME TypeInv, ChainInv, NEW r \in Appends, NEW q, q.then \in {r.then, onCreated},
         Appends' \subseteq (Appends \ {r}) \union {q}, UNCHANGED onCreated, SameLinks,
         contested \subseteq contested'
  PROVE  ChainInv'
<1>1. CASE \A x \in Appends : x.then = onCreated /\ Appends = {x}
  <2>1. \A x \in Appends' : x = q
    BY <1>1
  <2>2. \A x \in Appends' : x.then = onCreated' /\ Appends' = {x}
    BY <1>1, <2>1
  <2>3. QED
    BY <2>2 DEF ChainInv
<1>2. CASE /\ {closures[onCreated].link, closures[onCreated].meant} \subseteq contested
           /\ \A x \in Appends : Appended(x) \subseteq contested
  <2>1. onCreated # 0 /\ onCreated \in 1..Len(closures)
    BY ChainFacts
  <2>2. {closures'[onCreated].link, closures'[onCreated].meant} \subseteq contested'
    BY <1>2, <2>1 DEF SameLinks
  <2>3. ASSUME NEW x \in Appends' PROVE Appended(x)' \subseteq contested'
    <3>1. CASE x \in Appends
      BY <1>2, <3>1, SameAppended
    <3>2. CASE x = q /\ q.then = r.then
      BY <1>2, <3>2, SameAppended
    <3>3. CASE x = q /\ q.then = onCreated
      BY <2>2, <3>3 DEF Appended
    <3>4. QED
      BY <3>1, <3>2, <3>3
  <2>4. QED
    BY <2>1, <2>2, <2>3 DEF ChainInv
<1>3. QED
  BY <1>1, <1>2 DEF ChainInv

LEMMA ChainStep ==
  ASSUME TypeInv, ChainInv, [Next]_vars
  PROVE  ChainInv'
<1>1. CASE QuietStep
  BY <1>1 DEF QuietStep, ChainInv, Appended
<1>2. ASSUME NEW k \in Appendable, NEW q, Asked(k, q) PROVE ChainInv'
  <2>1. q.then = onCreated' /\ Appends' = Appends \union {q}
    BY <1>2 DEF Asked
  <2>2. CASE Appends = {}
    BY <2>1, <2>2 DEF ChainInv
  <2>3. CASE Appends # {}
    <3>1. PICK p : p = actual[ParentKind[k]]
      OBVIOUS
    <3>2. contested' = contested \union {p, opened[k]} \union UNION {Appended(r) : r \in Appends}
      BY <1>2, <2>3, <3>1 DEF Asked
    <3>3. /\ onCreated' # 0 /\ SameLinks
          /\ closures'[onCreated'].link = p /\ closures'[onCreated'].meant = opened[k]
      BY <1>2, <3>1, AskedClosures
    <3>4. ASSUME NEW x \in Appends' PROVE Appended(x)' \subseteq contested'
      <4>1. CASE x \in Appends
        <5>1. Appended(x)' = Appended(x)
          BY <3>3, <4>1, SameAppended
        <5>2. QED
          BY <3>2, <4>1, <5>1
      <4>2. CASE x = q
        <5>1. Appended(x)' = {p, opened[k]}
          BY <2>1, <3>3, <4>2 DEF Appended
        <5>2. QED
          BY <3>2, <5>1
      <4>3. QED
        BY <2>1, <4>1, <4>2
    <3>5. QED
      BY <3>2, <3>3, <3>4 DEF ChainInv
  <2>4. QED
    BY <2>2, <2>3
<1>3. ASSUME NEW r \in net, NEW a, Served(r, a) PROVE ChainInv'
  <2>1. UNCHANGED <<closures, onCreated>> /\ contested \subseteq contested' /\ a.then = r.then
    BY <1>3 DEF Served
  <2>2. SameLinks
    BY <2>1 DEF SameLinks
  <2>3. CASE Appends' = Appends
    <3>1. \A x \in Appends : Appended(x)' = Appended(x)
      BY <2>2, SameAppended
    <3>2. QED
      BY <2>1, <2>3, <3>1 DEF ChainInv
  <2>4. CASE r \in Appends /\ Appends' = (Appends \ {r}) \union {a}
    BY <2>1, <2>2, <2>4, ChainPasses
  <2>5. QED
    BY <1>3, <2>3, <2>4, ServedAppends
<1>4. ASSUME NEW r \in Appends, NEW q, Collected(r, q) PROVE ChainInv'
  <2>1. /\ q.then = onCreated /\ Appends' = (Appends \ {r}) \union {q} /\ UNCHANGED onCreated
        /\ contested \subseteq contested'
    BY <1>4 DEF Collected
  <2>2. SameLinks
    BY <1>4, CollectedClosures
  <2>3. QED
    BY <2>1, <2>2, ChainPasses
<1>5. ASSUME NEW r \in Appends, NEW q, Created(r, q) PROVE ChainInv'
  <2>1. /\ UNCHANGED <<closures, onCreated>> /\ contested \subseteq contested'
        /\ \/ Appends' = Appends \ {r}
           \/ q.then = r.then /\ Appends' = (Appends \ {r}) \union {q}
    BY <1>5 DEF Created
  <2>2. SameLinks
    BY <2>1 DEF SameLinks
  <2>3. CASE Appends' = Appends \ {r}
    BY <2>1, <2>2, <2>3, ChainPasses, r.then \in {r.then, onCreated}
  <2>4. CASE q.then = r.then /\ Appends' = (Appends \ {r}) \union {q}
    BY <2>1, <2>2, <2>4, ChainPasses
  <2>5. QED
    BY <2>1, <2>3, <2>4
<1>6. ASSUME NEW r \in Appends, Finished(r) PROVE ChainInv'
  <2>1. /\ UNCHANGED <<closures, onCreated>> /\ contested \subseteq contested'
        /\ Appends' = Appends \ {r}
    BY <1>6 DEF Finished
  <2>2. SameLinks
    BY <2>1 DEF SameLinks
  <2>3. QED
    BY <2>1, <2>2, ChainPasses, r.then \in {r.then, onCreated}
<1>7. QED
  BY <1>1, <1>2, <1>3, <1>4, <1>5, <1>6, AppendShapes

ItemsGrow ==
  \A c \in 1..Len(closures) : \A i : In(i, closures[c].items) => In(i, closures'[c].items)

LEMMA InJoin ==
  ASSUME NEW S, NEW p \in Seq(S), NEW q \in Seq(S)
  PROVE  \A i : In(i, p \o q) <=> In(i, p) \/ In(i, q)
<1>1. /\ Len(p \o q) = Len(p) + Len(q) /\ Len(p) \in Nat /\ Len(q) \in Nat
      /\ \A n \in 1..(Len(p) + Len(q)) : (p \o q)[n] = IF n <= Len(p) THEN p[n] ELSE q[n - Len(p)]
  OBVIOUS
<1>2. ASSUME NEW i, In(i, p \o q) PROVE In(i, p) \/ In(i, q)
  <2>1. PICK n \in 1..(Len(p) + Len(q)) : (p \o q)[n] = i
    BY <1>1, <1>2 DEF In
  <2>2. CASE n <= Len(p)
    <3>1. n \in 1..Len(p) /\ p[n] = i
      BY <1>1, <2>1, <2>2
    <3>2. QED
      BY <3>1 DEF In
  <2>3. CASE ~(n <= Len(p))
    <3>1. n - Len(p) \in 1..Len(q) /\ q[n - Len(p)] = i
      BY <1>1, <2>1, <2>3
    <3>2. QED
      BY <3>1 DEF In
  <2>4. QED
    BY <2>2, <2>3
<1>3. ASSUME NEW i, In(i, p) PROVE In(i, p \o q)
  <2>1. PICK n \in 1..Len(p) : p[n] = i
    BY <1>3 DEF In
  <2>2. n \in 1..Len(p \o q) /\ (p \o q)[n] = i
    BY <1>1, <2>1
  <2>3. QED
    BY <2>2 DEF In
<1>4. ASSUME NEW i, In(i, q) PROVE In(i, p \o q)
  <2>1. PICK n \in 1..Len(q) : q[n] = i
    BY <1>4 DEF In
  <2>2. n + Len(p) \in 1..Len(p \o q) /\ n + Len(p) \in 1..(Len(p) + Len(q)) /\ ~(n + Len(p) <= Len(p))
        /\ (n + Len(p)) - Len(p) = n
    BY <1>1, <2>1
  <2>3. (p \o q)[n + Len(p)] = i
    BY <1>1, <2>1, <2>2
  <2>4. QED
    BY <2>2, <2>3 DEF In
<1>5. QED
  BY <1>2, <1>3, <1>4

LEMMA InEmpty == \A i : ~In(i, <<>>)
BY DEF In

\* What arrives of a collection is put behind what its closure has.
LEMMA CollectedItems ==
  ASSUME TypeInv, NEW r \in Appends, NEW q, Collected(r, q)
  PROVE  \A i : In(i, closures'[r.then].items) <=>
                  In(i, closures[r.then].items) \/ (Succeeds(r) /\ In(i, r.data))
<1> DEFINE more == IF Succeeds(r) THEN r.data ELSE <<>>
<1>1. closures'[r.then].items = closures[r.then].items \o more
  BY CollectedClosures
<1>2. more \in Seq(Items)
  <2>1. r \in net /\ r.op = "collect"
    BY DEF Collected, Appends
  <2>2. Succeeds(r) => r.data \in Seq(Items)
    BY <2>1, ListAnswer DEF ListOf
  <2>3. QED
    BY <2>2
<1>3. closures[r.then].items \in Seq(Items)
  BY ChainFacts DEF ClosureOK
<1>4. \A i : In(i, more) <=> Succeeds(r) /\ In(i, r.data)
  BY InEmpty
<1> HIDE DEF more
<1>5. QED
  BY <1>1, <1>2, <1>3, <1>4, InJoin

LEMMA LinksStep ==
  ASSUME TypeInv, [Next]_vars
  PROVE  SameLinks /\ ItemsGrow /\ contested \subseteq contested' /\ (astray => astray')
<1>1. CASE QuietStep
  BY <1>1 DEF QuietStep, SameLinks, ItemsGrow
<1>2. ASSUME NEW k \in Appendable, NEW q, Asked(k, q)
      PROVE  SameLinks /\ ItemsGrow /\ contested \subseteq contested' /\ (astray => astray')
  <2>1. SameLinks /\ ItemsGrow
    BY <1>2, AskedClosures DEF ItemsGrow
  <2>2. QED
    BY <1>2, <2>1 DEF Asked
<1>3. ASSUME NEW r \in net, NEW a, Served(r, a)
      PROVE  SameLinks /\ ItemsGrow /\ contested \subseteq contested' /\ (astray => astray')
  BY <1>3 DEF Served, SameLinks, ItemsGrow
<1>4. ASSUME NEW r \in Appends, NEW q, Collected(r, q)
      PROVE  SameLinks /\ ItemsGrow /\ contested \subseteq contested' /\ (astray => astray')
  <2>1. SameLinks /\ ItemsGrow
    BY <1>4, CollectedClosures, CollectedItems DEF ItemsGrow
  <2>2. QED
    BY <1>4, <2>1 DEF Collected
<1>5. ASSUME NEW r \in Appends, NEW q, Created(r, q) \/ Finished(r)
      PROVE  SameLinks /\ ItemsGrow /\ contested \subseteq contested' /\ (astray => astray')
  <2>1. UNCHANGED <<closures, astray>>
    BY <1>5 DEF Created, Finished
  <2>2. contested \subseteq contested'
    <3>1. contested' \in {contested, contested \union Appended(r)}
      BY <1>5 DEF Created, Finished
    <3>2. QED
      BY <3>1
  <2>3. QED
    BY <2>1, <2>2 DEF SameLinks, ItemsGrow
<1>6. QED
  BY <1>1, <1>2, <1>3, <1>4, <1>5, AppendShapes

LEMMA HomeStep ==
  ASSUME TypeInv, ChainInv, HomeInv, [Next]_vars
  PROVE  HomeInv'
<1>1. SameLinks /\ contested \subseteq contested'
  BY LinksStep
<1>2. ASSUME NEW x, NEW r \in Appends, r.op = "create" => x.link = r.link, x.then = r.then, x.op = r.op,
             x.op = "create"
      PROVE  x.link \in Appended(x)' \union contested'
  BY <1>1, <1>2, SameAppended DEF HomeInv
<1>3. CASE QuietStep
  BY <1>2, <1>3 DEF QuietStep, HomeInv
<1>4. ASSUME NEW k \in Appendable, NEW q, Asked(k, q) PROVE HomeInv'
  BY <1>2, <1>4 DEF Asked, HomeInv
<1>5. ASSUME NEW r \in net, NEW a, Served(r, a) PROVE HomeInv'
  <2>1. a.op = r.op /\ a.link = r.link /\ a.then = r.then
    BY <1>5 DEF Served
  <2>2. QED
    BY <1>2, <1>5, <2>1, ServedAppends DEF HomeInv
<1>6. ASSUME NEW r \in Appends, NEW q, Collected(r, q) PROVE HomeInv'
  <2>1. /\ q.link = closures[r.then].meant /\ q.then = onCreated
        /\ Appends' = (Appends \ {r}) \union {q}
    BY <1>6 DEF Collected
  <2>2. q.link \in Appended(q)' \union contested'
    <3>1. CASE r.then = onCreated
      <4>1. Appended(q)' = Appended(r)
        BY <1>1, <2>1, <3>1, SameAppended
      <4>2. QED
        BY <2>1, <4>1, ChainFacts
    <3>2. CASE Appended(r) \subseteq contested
      BY <1>1, <2>1, <3>2, ChainFacts
    <3>3. QED
      BY <3>1, <3>2 DEF ChainInv
  <2>3. QED
    BY <1>2, <2>1, <2>2 DEF HomeInv
<1>7. ASSUME NEW r \in Appends, NEW q, Created(r, q) \/ Finished(r) PROVE HomeInv'
  <2>1. \A x \in Appends' : x \in Appends \/ x.op = "relate"
    BY <1>7 DEF Created, Finished
  <2>2. QED
    BY <1>2, <2>1 DEF HomeInv
<1>8. QED
  BY <1>3, <1>4, <1>5, <1>6, <1>7, AppendShapes

\* A creation form lies over the list it was opened from.
LEMMA MeantStep ==
  ASSUME TypeInv, OrderInv, MeantInv, [Next]_vars
  PROVE  MeantInv'
<1> SUFFICES ASSUME ~astray', NEW c \in 1..Len(closures') PROVE closures'[c].link = closures'[c].meant
  BY DEF MeantInv
<1>1. SameLinks /\ ~astray
  BY LinksStep
<1>2. ASSUME c \in 1..Len(closures) PROVE closures'[c].link = closures'[c].meant
  BY <1>1, <1>2 DEF SameLinks, MeantInv
<1>3. CASE QuietStep
  BY <1>2, <1>3 DEF QuietStep
<1>4. ASSUME NEW k \in Appendable, NEW q, Asked(k, q) PROVE closures'[c].link = closures'[c].meant
  <2>1. OnTop(<<"create", k>>)
    BY <1>4 DEF Asked
  <2>2. PICK n \in 1..Len(stack) : stack[n] = <<"create", k>>
    BY <2>1, OnTopIsOn DEF OnStack
  <2>3. OnStack(<<"list", k>>)
    <3>1. Placed(stack) /\ Len(stack) \in Nat
      BY <1>1 DEF OrderInv, TypeInv, StackOK
    <3>2. CASE k = "origin"
      <4>1. stack[1] = <<"list", "origin">> /\ 1 \in 1..Len(stack)
        BY <2>2, <3>1, <3>2 DEF Placed
      <4>2. QED
        BY <3>2, <4>1 DEF OnStack
    <3>3. CASE k = "set"
      <4>1. stack[2] = <<"list", "set">> /\ 2 \in 1..Len(stack)
        BY <2>2, <3>1, <3>3 DEF Placed
      <4>2. QED
        BY <3>3, <4>1 DEF OnStack
    <3>4. QED
      BY <3>2, <3>3 DEF Appendable
  <2>4. actual[ParentKind[k]] = opened[k]
    BY <1>1, <2>3 DEF OrderInv, Nested, Appendable
  <2>5. c \in 1..Len(closures) \/ c = onCreated'
    BY <1>4, AskedClosures
  <2>6. QED
    BY <1>2, <1>4, <2>4, <2>5, AskedClosures
<1>5. ASSUME NEW r \in net, NEW a, Served(r, a) PROVE closures'[c].link = closures'[c].meant
  BY <1>2, <1>5 DEF Served
<1>6. ASSUME NEW r \in Appends, NEW q, Collected(r, q) PROVE closures'[c].link = closures'[c].meant
  BY <1>2, <1>6, CollectedClosures
<1>7. ASSUME NEW r \in Appends, NEW q, Created(r, q) \/ Finished(r)
      PROVE  closures'[c].link = closures'[c].meant
  BY <1>2, <1>7 DEF Created, Finished
<1>8. QED
  BY <1>3, <1>4, <1>5, <1>6, <1>7, AppendShapes

-----------------------------------------------------------------------------
(* The appends: what the server does to collections. *)

LEMMA EffectParent ==
  ASSUME TypeInv, NEW r \in net, Effect(r)
  PROVE  /\ r.op # "relate" => parent' = parent
         /\ r.op = "relate" => \A i \in Items :
              parent'[i] = IF In(i, r.body) THEN r.link
                           ELSE IF parent[i] = r.link /\ KindOf[i] = r.kind THEN None
                           ELSE parent[i]
         /\ r.op \in {"collect", "relate"} => status' = status
BY DEF Effect, In

LEMMA EffectStatus ==
  ASSUME TypeInv, NEW r \in net, Effect(r), NEW i \in Items, status'[i] = "live"
  PROVE  \/ status[i] = "live" /\ home'[i] = home[i]
         \/ /\ r.op = "create" /\ status[i] = "free" /\ i = Head(Unused(r.kind))
            /\ home'[i] = r.link
         \/ r.op = "create" /\ Unused(r.kind) = <<>>
<1>0. status \in [Items -> {"free", "live", "gone"}] /\ home \in [Items -> Links]
  BY DEF TypeInv, ServerOK
<1>1. CASE r.op = "destroy"
  <2>1. status' = [j \in Items |-> IF j \in Family(r.link) /\ Live(j) THEN "gone" ELSE status[j]]
        /\ home' = home
    BY <1>1 DEF Effect
  <2>2. QED
    BY <2>1
<1>2. CASE r.op = "create" /\ Unused(r.kind) # <<>>
  <2>1. PICK x : x = Head(Unused(r.kind))
    OBVIOUS
  <2>2. status' = [status EXCEPT ![x] = "live"] /\ home' = [home EXCEPT ![x] = r.link]
    BY <1>2, <2>1 DEF Effect
  <2>3. x \in Items /\ status[x] = "free"
    BY <1>2, <2>1, UnusedFacts
  <2>4. QED
    BY <1>0, <1>2, <2>1, <2>2, <2>3
<1>3. CASE r.op \notin {"destroy", "create"}
  <2>1. status' = status /\ home' = home
    BY <1>3 DEF Effect
  <2>2. QED
    BY <2>1
<1>4. QED
  BY <1>1, <1>2, <1>3

\* An item is live from its creation on.
LEMMA LiveStep ==
  ASSUME TypeInv, [Next]_vars, NEW i \in Items, status'[i] = "live"
  PROVE  \/ status[i] = "live" /\ home'[i] = home[i]
         \/ status[i] = "free" /\ parent[i] = None
<1>1. CASE UNCHANGED <<server, home>>
  BY <1>1 DEF server
<1>2. ASSUME NEW r \in net, Accepts(r), Effect(r)
      PROVE  \/ status[i] = "live" /\ home'[i] = home[i]
             \/ status[i] = "free" /\ parent[i] = None
  <2>1. r.op = "create" => Unused(r.kind) # <<>>
    BY <1>2 DEF Accepts
  <2>2. status[i] = "free" => parent[i] = None
    BY DEF TypeInv, ServerOK
  <2>3. QED
    BY <1>2, <2>1, <2>2, EffectStatus
<1>3. QED
  BY <1>1, <1>2, StepServer

\* Only a relation that is carried out changes what an item is related to.
Relates(r, i) ==
  /\ r.op = "relate" /\ r.code = 0 /\ r \notin Appends'
  /\ \/ In(i, r.body) /\ parent'[i] = r.link
     \/ /\ ~In(i, r.body) /\ parent[i] = r.link /\ KindOf[i] = r.kind
        /\ parent'[i] = None

LEMMA ParentStep ==
  ASSUME TypeInv, [Next]_vars, NEW i \in Items
  PROVE  parent'[i] = parent[i] \/ \E r \in Appends : Relates(r, i)
<1>1. CASE UNCHANGED server
  BY <1>1 DEF server
<1>2. ASSUME NEW r \in net, NEW a, Served(r, a)
      PROVE  parent'[i] = parent[i] \/ \E x \in Appends : Relates(x, i)
  <2>1. CASE UNCHANGED server
    BY <2>1 DEF server
  <2>2. CASE Effect(r) /\ r.op # "relate"
    BY <2>2, EffectParent
  <2>3. CASE Effect(r) /\ r.op = "relate"
    <3>1. r.then # 0
      BY <2>3, RelateFacts
    <3>2. r \in Appends /\ Appends' = (Appends \ {r}) \union {a}
      BY <1>2, <3>1, ServedAppends
    <3>3. r.code = 0 /\ a.code # 0
      BY <1>2 DEF Served
    <3>4. r \notin Appends'
      BY <3>2, <3>3
    <3>5. parent'[i] = IF In(i, r.body) THEN r.link
                       ELSE IF parent[i] = r.link /\ KindOf[i] = r.kind THEN None
                       ELSE parent[i]
      BY <2>3, EffectParent
    <3>6. QED
      BY <2>3, <3>2, <3>3, <3>4, <3>5 DEF Relates
  <2>4. QED
    BY <1>2, <2>1, <2>2, <2>3 DEF Served
<1>3. QuietStep => UNCHANGED server
  BY DEF QuietStep
<1>4. \A k, q : Asked(k, q) => UNCHANGED server
  BY DEF Asked
<1>5. \A r, q : Collected(r, q) \/ Created(r, q) \/ Finished(r) => UNCHANGED server
  BY DEF Collected, Created, Finished
<1>6. QED
  BY <1>1, <1>2, <1>3, <1>4, <1>5, AppendShapes

\* What is claimed now was claimed before, or has just been read.
LEMMA ClaimedStep ==
  ASSUME TypeInv, [Next]_vars, NEW p \in Items, NEW i \in Items, Claimed(p, i)'
  PROVE  Claimed(p, i) \/ (UNCHANGED server /\ status[i] = "live" /\ parent[i] = p)
<1> DEFINE Goal == Claimed(p, i) \/ (UNCHANGED server /\ status[i] = "live" /\ parent[i] = p)
           InClosure == \E c \in 1..Len(closures') :
                          closures'[c].link = p /\ In(i, closures'[c].items)
<1>1. InClosure \/ \E x \in Appends' : x.op = "collect" /\ x.link = p /\ In(i, x.data)
  BY DEF Claimed
<1>2. ASSUME NEW x \in Appends, x.op = "collect", x.link = p, In(i, x.data) PROVE Goal
  BY <1>2 DEF Claimed
<1>3. ASSUME InClosure, UNCHANGED closures PROVE Goal
  BY <1>3 DEF Claimed
<1>4. CASE QuietStep
  BY <1>1, <1>2, <1>3, <1>4 DEF QuietStep
<1>5. ASSUME NEW k \in Appendable, NEW q, Asked(k, q) PROVE Goal
  <2>1. q.data = <<>> /\ Appends' = Appends \union {q}
    BY <1>5 DEF Asked
  <2>2. ASSUME InClosure PROVE Goal
    <3>1. PICK c \in 1..Len(closures') : closures'[c].link = p /\ In(i, closures'[c].items)
      BY <2>2
    <3>2. c # onCreated'
      BY <1>5, <3>1, AskedClosures, InEmpty
    <3>3. c \in 1..Len(closures) /\ closures'[c] = closures[c]
      BY <1>5, <3>2, AskedClosures
    <3>4. QED
      BY <3>1, <3>3 DEF Claimed
  <2>3. QED
    BY <1>1, <1>2, <2>1, <2>2, InEmpty
<1>6. ASSUME NEW r \in net, NEW a, Served(r, a) PROVE Goal
  <2>1. /\ UNCHANGED closures /\ a.op = r.op /\ a.link = r.link
        /\ \/ a.data = <<>>
           \/ r.op = "collect" => Effect(r) /\ a.data = Children(r.kind, r.link)
    BY <1>6 DEF Served
  <2>2. ASSUME a.op = "collect", a.link = p, In(i, a.data) PROVE Goal
    <3>1. Effect(r) /\ a.data = Children(r.kind, p)
      BY <2>1, <2>2, InEmpty
    <3>2. Live(i) /\ parent[i] = p
      BY <2>2, <3>1, ChildrenFacts DEF In
    <3>3. UNCHANGED server
      BY <2>1, <2>2, <3>1 DEF Effect, server
    <3>4. QED
      BY <3>2, <3>3 DEF Live
  <2>3. QED
    BY <1>1, <1>2, <1>3, <1>6, <2>1, <2>2, ServedAppends
<1>7. ASSUME NEW r \in Appends, NEW q, Collected(r, q) PROVE Goal
  <2>1. r.op = "collect" /\ q.op = "create" /\ Appends' = (Appends \ {r}) \union {q}
    BY <1>7 DEF Collected
  <2>2. ASSUME InClosure PROVE Goal
    <3>1. PICK c \in 1..Len(closures') : closures'[c].link = p /\ In(i, closures'[c].items)
      BY <2>2
    <3>2. c \in 1..Len(closures) /\ closures[c].link = p
      BY <1>7, <3>1, CollectedClosures DEF SameLinks
    <3>3. CASE c # r.then
      BY <1>7, <3>1, <3>2, <3>3, CollectedClosures DEF Claimed
    <3>4. CASE c = r.then
      <4>1. r.link = p
        BY <2>1, <3>2, <3>4, RequestIs DEF AsksOK, Appends
      <4>2. In(i, closures[c].items) \/ In(i, r.data)
        BY <1>7, <3>1, <3>4, CollectedItems
      <4>3. QED
        BY <2>1, <3>2, <4>1, <4>2 DEF Claimed
    <3>5. QED
      BY <3>3, <3>4
  <2>3. QED
    BY <1>1, <1>2, <2>1, <2>2
<1>8. ASSUME NEW r \in Appends, NEW q, Created(r, q) \/ Finished(r) PROVE Goal
  <2>1. UNCHANGED closures /\ \A x \in Appends' : x \in Appends \/ x.op = "relate"
    BY <1>8 DEF Created, Finished
  <2>2. QED
    BY <1>1, <1>2, <1>3, <2>1
<1>9. QED
  BY <1>4, <1>5, <1>6, <1>7, <1>8, AppendShapes

LEMMA ClaimedKnown ==
  ASSUME KnownInv, NEW p \in Items, NEW i \in Items, Claimed(p, i)
  PROVE  status[i] # "free"
<1>1. ASSUME NEW c \in 1..Len(closures), In(i, closures[c].items) PROVE status[i] # "free"
  BY <1>1 DEF KnownInv, AllKnown, Known, In
<1>2. ASSUME NEW r \in Appends, r.op = "collect", In(i, r.data) PROVE status[i] # "free"
  BY <1>2 DEF Appends, KnownInv, KnownIn, AllKnown, Known, In
<1>3. QED
  BY <1>1, <1>2 DEF Claimed

\* A relation is of what was read, and of what it brings.
LEMMA BodyParts ==
  ASSUME TypeInv, BodyInv, NEW r \in Appends, r.op = "relate", NEW i \in Items, In(i, r.body)
  PROVE  Claimed(r.link, i) \/ (r.code = 0 => Brings(r, i))
<1>1. r \in net
  BY DEF Appends
<1>2. r.then \in 1..Len(closures) /\ r.link = closures[r.then].link
  BY <1>1, RelateFacts
<1>3. PICK n \in 1..Len(r.body) : r.body[n] = i
  BY DEF In
<1>4. Len(r.body) \in Nat
  BY <1>1, RequestIs
<1>5. CASE n = Len(r.body)
  BY <1>3, <1>5 DEF Brings
<1>6. CASE n # Len(r.body)
  <2>1. n \in 1..(Len(r.body) - 1)
    BY <1>3, <1>4, <1>6
  <2>2. In(i, closures[r.then].items)
    BY <1>3, <2>1 DEF BodyInv
  <2>3. QED
    BY <1>2, <2>2 DEF Claimed
<1>7. QED
  BY <1>5, <1>6

LEMMA BodyStep ==
  ASSUME TypeInv, BodyInv, [Next]_vars
  PROVE  BodyInv'
<1>1. ItemsGrow
  BY LinksStep
<1>2. ASSUME NEW x, NEW r \in Appends, x.op = "relate", r.op = "relate", x.body = r.body, x.then = r.then,
             NEW n \in 1..(Len(x.body) - 1)
      PROVE  In(x.body[n], closures'[x.then].items)
  <2>1. In(r.body[n], closures[r.then].items)
    BY <1>2 DEF BodyInv
  <2>2. r.then \in 1..Len(closures)
    BY ChainFacts
  <2>3. QED
    BY <1>1, <1>2, <2>1, <2>2 DEF ItemsGrow
<1>3. ASSUME \A x \in Appends' : x.op = "relate" =>
               \E r \in Appends : r.op = "relate" /\ x.body = r.body /\ x.then = r.then
      PROVE  BodyInv'
  BY <1>2, <1>3 DEF BodyInv
<1>4. CASE QuietStep
  BY <1>3, <1>4 DEF QuietStep
<1>5. ASSUME NEW k \in Appendable, NEW q, Asked(k, q) PROVE BodyInv'
  BY <1>3, <1>5 DEF Asked
<1>6. ASSUME NEW r \in net, NEW a, Served(r, a) PROVE BodyInv'
  <2>1. a.op = r.op /\ a.body = r.body /\ a.then = r.then
    BY <1>6 DEF Served
  <2>2. QED
    BY <1>3, <1>6, <2>1, ServedAppends
<1>7. ASSUME NEW r \in Appends, NEW q, Collected(r, q) PROVE BodyInv'
  BY <1>3, <1>7 DEF Collected
<1>8. ASSUME NEW r \in Appends, NEW q, Created(r, q) PROVE BodyInv'
  <2> DEFINE last == IF r.code = 201 THEN r.data ELSE <<None>>
  <2>1. /\ r.op = "create" /\ UNCHANGED closures
        /\ \/ Appends' = Appends \ {r}
           \/ /\ Appends' = (Appends \ {r}) \union {q} /\ q.then = r.then
              /\ q.body = closures[r.then].items \o last
    BY <1>8 DEF Created
  <2>2. r \in net /\ r.then # 0
    BY DEF Appends
  <2>3. last = IF r.code = 201 THEN r.data ELSE <<None>>
    OBVIOUS
  <2> HIDE DEF last
  <2>4. PICK y : last = <<y>>
    BY <2>1, <2>2, <2>3, RelationBody
  <2>5. PICK items \in Seq(Items) : items = closures[r.then].items
    BY <2>1, <2>2, <2>3, RelationBody
  <2>6. ASSUME q.body = items \o last, q.then = r.then, NEW n \in 1..(Len(q.body) - 1)
        PROVE  In(q.body[n], closures'[q.then].items)
    <3>1. Len(q.body) = Len(items) + 1 /\ Len(items) \in Nat
      BY <2>4, <2>5, <2>6
    <3>2. n \in 1..Len(items)
      BY <2>6, <3>1
    <3>3. q.body[n] = items[n]
      BY <2>4, <2>5, <2>6, <3>2
    <3>4. QED
      BY <2>1, <2>5, <2>6, <3>2, <3>3 DEF In
  <2>7. QED
    BY <1>2, <2>1, <2>5, <2>6 DEF BodyInv
<1>9. ASSUME NEW r \in Appends, Finished(r) PROVE BodyInv'
  BY <1>3, <1>9 DEF Finished
<1>10. QED
  BY <1>4, <1>5, <1>6, <1>7, <1>8, <1>9, AppendShapes

LEMMA ClaimStep ==
  ASSUME TypeInv, KnownInv, ClaimInv, NewInv, BodyInv, WholeInv, [Next]_vars
  PROVE  ClaimInv'
<1> SUFFICES ASSUME NEW p \in Items, NEW i \in Items, Claimed(p, i)', status'[i] = "live"
             PROVE  parent'[i] = p \/ (p \in contested' /\ parent'[i] \in contested' \union {None})
  BY DEF ClaimInv
<1>1. contested \subseteq contested'
  BY LinksStep
<1>2. CASE UNCHANGED server /\ parent[i] = p
  BY <1>2 DEF server
<1>3. CASE Claimed(p, i)
  <2>1. status[i] = "live"
    BY <1>3, ClaimedKnown, LiveStep
  <2>2. parent[i] = p \/ (p \in contested /\ parent[i] \in contested \union {None})
    BY <1>3, <2>1 DEF ClaimInv
  <2>3. CASE parent'[i] = parent[i]
    BY <1>1, <2>2, <2>3
  <2>4. ASSUME NEW r \in Appends, Relates(r, i), In(i, r.body)
        PROVE  parent'[i] = p \/ (p \in contested' /\ parent'[i] \in contested' \union {None})
    <3>1. r.op = "relate" /\ r.code = 0 /\ parent'[i] = r.link /\ r.link \in Items /\ p # None /\ r.link # None
      BY <2>4, RelateFacts, KindFacts DEF Relates, Appends
    <3>2. Claimed(r.link, i)
      BY <1>3, <2>4, <3>1, BodyParts DEF NewInv
    <3>3. parent[i] = r.link \/ (r.link \in contested /\ parent[i] \in contested \union {None})
      BY <2>1, <3>1, <3>2 DEF ClaimInv
    <3>4. QED
      BY <1>1, <2>2, <3>1, <3>3
  <2>5. ASSUME NEW r \in Appends, Relates(r, i), ~In(i, r.body)
        PROVE  p \in contested' /\ parent'[i] \in contested' \union {None}
    <3>1. r.op = "relate" /\ r.code = 0 /\ parent[i] = r.link /\ KindOf[i] = r.kind /\ parent'[i] = None
      BY <2>5 DEF Relates
    <3>2. r.link = closures[r.then].link /\ r.kind = closures[r.then].kind
      BY <3>1, RelateFacts DEF Appends
    <3>3. r.link \in contested
      BY <2>1, <2>5, <3>1, <3>2 DEF WholeInv, Whole, Covers
    <3>4. QED
      BY <1>1, <2>2, <3>1, <3>3
  <2>6. QED
    BY <2>3, <2>4, <2>5, ParentStep
<1>4. QED
  BY <1>2, <1>3, ClaimedStep

\* At most one request of a chain is new, and it brings what another has
\* brought, or what has just been created.
LEMMA BringsStep ==
  ASSUME TypeInv, [Next]_vars
  PROVE  \E n : \A x \in Appends' : x \in Appends \/
           (x = n /\ \A i \in Items : Brings(x, i) =>
              \/ status[i] = "free"
              \/ \E r \in Appends : r.op = "create" /\ r \notin Appends' /\ Brings(r, i))
<1> DEFINE New(x) == \A i \in Items : Brings(x, i) =>
              \/ status[i] = "free"
              \/ \E r \in Appends : r.op = "create" /\ r \notin Appends' /\ Brings(r, i)
           Goal == \E n : \A x \in Appends' : x \in Appends \/ (x = n /\ New(x))
<1>1. CASE QuietStep
  BY <1>1 DEF QuietStep
<1>2. ASSUME NEW k \in Appendable, NEW q, Asked(k, q) PROVE Goal
  <2>1. Appends' = Appends \union {q} /\ q.op = "collect"
    BY <1>2 DEF Asked
  <2>2. New(q)
    BY <2>1 DEF Brings
  <2>3. QED
    BY <2>1, <2>2
<1>3. ASSUME NEW r \in net, NEW a, Served(r, a) PROVE Goal
  <2>1. ASSUME NEW i \in Items, Brings(a, i) PROVE status[i] = "free"
    <3>1. a.op = "create" /\ a.code = 201 /\ In(i, a.data)
      BY <1>3, <2>1 DEF Brings, Served
    <3>2. Accepts(r) /\ a.data = <<Head(Unused(r.kind))>> /\ r.op = "create"
      BY <1>3, <3>1 DEF Served
    <3>3. i = Head(Unused(r.kind))
      BY <3>1, <3>2 DEF In
    <3>4. QED
      BY <3>2, <3>3, UnusedFacts DEF Accepts
  <2>2. New(a)
    BY <2>1
  <2>3. QED
    BY <1>3, <2>2, ServedAppends
<1>4. ASSUME NEW r \in Appends, NEW q, Collected(r, q) PROVE Goal
  <2>1. Appends' = (Appends \ {r}) \union {q} /\ q.op = "create" /\ q.code = 0
    BY <1>4 DEF Collected
  <2>2. New(q)
    BY <2>1 DEF Brings
  <2>3. QED
    BY <2>1, <2>2
<1>5. ASSUME NEW r \in Appends, NEW q, Created(r, q) PROVE Goal
  <2>1. CASE Appends' = Appends \ {r}
    BY <2>1
  <2>2. CASE Appends' # Appends \ {r}
    <3> DEFINE last == IF r.code = 201 THEN r.data ELSE <<None>>
    <3>1. /\ Appends' = (Appends \ {r}) \union {q} /\ q.op = "relate" /\ r.op = "create"
          /\ q.body = closures[r.then].items \o last
      BY <1>5, <2>2 DEF Created
    <3>2. r \in net /\ r.then # 0 /\ last = IF r.code = 201 THEN r.data ELSE <<None>>
      BY DEF Appends
    <3> HIDE DEF last
    <3>3. PICK y \in Links : last = <<y>> /\ (y # None => r.code = 201)
      BY <3>1, <3>2, RelationBody
    <3>4. PICK items \in Seq(Items) : items = closures[r.then].items
      BY <3>1, <3>2, RelationBody
    <3>5. Len(q.body) = Len(items) + 1 /\ q.body[Len(q.body)] = y
      BY <3>1, <3>3, <3>4
    <3>6. ASSUME NEW i \in Items, Brings(q, i)
          PROVE  r \notin Appends' /\ Brings(r, i)
      <4>1. i = y /\ y # None
        BY <3>1, <3>5, <3>6, KindFacts DEF Brings
      <4>2. r.code = 201 /\ r.data = <<i>>
        BY <3>2, <3>3, <4>1
      <4>3. Brings(r, i)
        BY <3>1, <4>2 DEF Brings, In
      <4>4. r # q
        BY <3>1
      <4>5. QED
        BY <3>1, <4>3, <4>4
    <3>7. New(q)
      BY <3>1, <3>6
    <3>8. QED
      BY <3>1, <3>7
  <2>3. QED
    BY <2>1, <2>2
<1>6. ASSUME NEW r \in Appends, Finished(r) PROVE Goal
  BY <1>6 DEF Finished
<1>7. QED
  BY <1>1, <1>2, <1>3, <1>4, <1>5, <1>6, AppendShapes

LEMMA BroughtKnown ==
  ASSUME TypeInv, KnownInv, NEW r \in Appends, NEW i \in Items, Brings(r, i) \/ (r.op = "relate" /\ In(i, r.body))
  PROVE  status[i] # "free"
<1>1. r \in net /\ KnownIn(r, status)
  BY DEF Appends, KnownInv
<1>2. CASE r.op = "create" /\ Brings(r, i)
  BY <1>1, <1>2 DEF Brings, In, KnownIn, AllKnown, Known
<1>3. CASE r.op = "relate" /\ In(i, r.body)
  BY <1>1, <1>3 DEF In, KnownIn, AllKnown, Known
<1>4. CASE r.op = "relate" /\ Brings(r, i)
  <2>1. r.body[Len(r.body)] = i /\ Len(r.body) \in Nat /\ r.body # <<>> /\ r.body \in Seq(Links \union {Blank})
    BY <1>1, <1>4, RelateFacts, RequestIs DEF Brings
  <2>2. Len(r.body) \in 1..Len(r.body)
    BY <2>1
  <2>3. QED
    BY <1>1, <1>4, <2>1, <2>2 DEF KnownIn, AllKnown, Known
<1>5. QED
  BY <1>2, <1>3, <1>4 DEF Brings

LEMMA NewStep ==
  ASSUME TypeInv, KnownInv, NewInv, BodyInv, [Next]_vars
  PROVE  NewInv'
<1> SUFFICES ASSUME NEW x \in Appends', NEW i \in Items, Brings(x, i)
             PROVE  /\ parent'[i] = None /\ \A p \in Items : ~Claimed(p, i)'
                    /\ \A y \in Appends' : Brings(y, i) => y = x
  BY DEF NewInv
<1>1. PICK n : \A y \in Appends' : y \in Appends \/
        (y = n /\ \A j \in Items : Brings(y, j) =>
           \/ status[j] = "free"
           \/ \E r \in Appends : r.op = "create" /\ r \notin Appends' /\ Brings(r, j))
  BY BringsStep
<1>2. \A y \in Appends' : Brings(y, i) =>
        \/ y \in Appends
        \/ y = n /\ status[i] = "free"
        \/ y = n /\ \E r \in Appends : r.op = "create" /\ r \notin Appends' /\ Brings(r, i)
  BY <1>1
<1>3. parent[i] = None /\ \A p \in Items : ~Claimed(p, i)
  <2>1. CASE status[i] = "free"
    BY <2>1, ClaimedKnown DEF TypeInv, ServerOK
  <2>2. CASE \E r \in Appends : Brings(r, i)
    BY <2>2 DEF NewInv
  <2>3. QED
    BY <1>2, <2>1, <2>2
<1>4. parent'[i] = None
  <2>1. ASSUME NEW r \in Appends, Relates(r, i) PROVE FALSE
    <3>1. r.op = "relate" /\ r.code = 0 /\ r \notin Appends'
      BY <2>1 DEF Relates
    <3>2. r.link \in Items /\ r.link # None
      BY <3>1, RelateFacts, KindFacts DEF Appends
    <3>3. In(i, r.body)
      BY <1>3, <2>1, <3>2 DEF Relates
    <3>4. Brings(r, i) /\ status[i] # "free"
      BY <1>3, <3>1, <3>2, <3>3, BodyParts, BroughtKnown
    <3>5. \A z \in Appends : Brings(z, i) => z = r
      BY <3>4 DEF NewInv
    <3>6. QED
      BY <1>2, <3>1, <3>4, <3>5
  <2>2. QED
    BY <1>3, <2>1, ParentStep
<1>5. \A p \in Items : ~Claimed(p, i)'
  <2>1. \A p \in Items : p # None
    BY KindFacts
  <2>2. QED
    BY <1>3, <2>1, ClaimedStep
<1>6. ASSUME NEW y \in Appends', Brings(y, i) PROVE y = x
  <2>1. \A z \in Appends : Brings(z, i) => status[i] # "free"
    BY BroughtKnown
  <2>2. \A z, w \in Appends : Brings(z, i) /\ Brings(w, i) => z = w
    BY DEF NewInv
  <2>3. QED
    BY <1>2, <1>6, <2>1, <2>2
<1>7. QED
  BY <1>4, <1>5, <1>6

\* In an uncontested collection there is one request.
LEMMA SoleAppend ==
  ASSUME TypeInv, ChainInv, NEW x \in Appends, closures[x.then].link \notin contested
  PROVE  x.then = onCreated /\ Appends = {x}
BY ChainFacts DEF ChainInv

\* Only a relation makes a collection larger.
LEMMA CoversStep ==
  ASSUME TypeInv, [Next]_vars, NEW q, NEW c, NEW d, c.link \in Items, d.kind = c.kind, d.link = c.link,
         Covers(q, c), \A r \in Appends : r.op = "relate" => r \in Appends'
  PROVE  Covers(q, d)'
<1>1. ASSUME NEW i \in Items, status'[i] = "live", KindOf[i] = c.kind, parent'[i] = c.link
      PROVE  In(i, q)
  <2>1. parent'[i] = parent[i]
    BY ParentStep DEF Relates
  <2>2. c.link # None
    BY KindFacts
  <2>3. status[i] = "live"
    BY <1>1, <2>1, <2>2, LiveStep
  <2>4. QED
    BY <1>1, <2>1, <2>3 DEF Covers
<1>2. QED
  BY <1>1 DEF Covers

LEMMA WholeStep ==
  ASSUME TypeInv, ChainInv, WholeInv, [Next]_vars, TypeInv', ChainInv'
  PROVE  WholeInv'
<1> SUFFICES ASSUME NEW x \in Appends', NEW c, c = closures'[x.then], c.link \notin contested'
             PROVE  Whole(x, c)'
  BY DEF WholeInv
<1>1. SameLinks /\ contested \subseteq contested'
  BY LinksStep
<1>2. x.then = onCreated' /\ Appends' = {x}
  <2>1. Appended(x)' = {closures'[x.then].link, closures'[x.then].meant}
    BY DEF Appended, Appends
  <2>2. ~(Appended(x)' \subseteq contested')
    BY <2>1
  <2>3. QED
    BY <2>2 DEF ChainInv
<1>3. ASSUME NEW r \in Appends
      PROVE  /\ r.then \in 1..Len(closures) /\ closures[r.then].link \in Items
             /\ closures'[r.then].link = closures[r.then].link
  BY <1>1, ChainFacts DEF ClosureOK, SameLinks
<1>4. CASE QuietStep
  <2>1. UNCHANGED <<status, parent, closures>> /\ x \in Appends /\ contested' = contested
    BY <1>4 DEF QuietStep, server
  <2>2. QED
    BY <2>1 DEF WholeInv, Whole, Covers
<1>5. ASSUME NEW k \in Appendable, NEW q, Asked(k, q) PROVE Whole(x, c)'
  <2>1. q.op = "collect" /\ q.code = 0 /\ Appends' = Appends \union {q}
    BY <1>5 DEF Asked
  <2>2. x = q
    BY <1>2, <2>1
  <2>3. c.items = <<>>
    BY <1>2, <1>5, AskedClosures
  <2>4. QED
    BY <2>1, <2>2, <2>3 DEF Whole
<1>6. ASSUME NEW r \in net, NEW a, Served(r, a) PROVE Whole(x, c)'
  <2>1. a.op = r.op /\ a.kind = r.kind /\ a.then = r.then /\ a.code # 0 /\ UNCHANGED closures
    BY <1>6 DEF Served
  <2>2. CASE Appends' = Appends
    <3>1. Whole(x, closures[x.then]) /\ closures[x.then].link \in Items
      BY <1>1, <1>3, <2>1, <2>2 DEF WholeInv
    <3>2. c = closures[x.then]
      BY <2>1
    <3>3. \A q : Covers(q, c) => Covers(q, c)'
      BY <2>2, <3>1, <3>2, CoversStep
    <3>4. Whole(x, c)'
      BY <3>1, <3>2, <3>3 DEF Whole
    <3>5. QED
      BY <3>4
  <2>3. CASE r \in Appends /\ Appends' = (Appends \ {r}) \union {a}
    <3>1. x = a
      BY <1>2, <2>3
    <3>2. c = closures[r.then]
      BY <2>1, <3>1
    <3>3. Whole(r, c) /\ c.link \in Items
      BY <1>1, <1>3, <2>3, <3>2 DEF WholeInv
    <3>4. CASE r.op = "collect"
      <4>1. c.items = <<>> /\ r.kind = c.kind /\ r.link = c.link
        BY <2>3, <3>2, <3>3, <3>4, RequestIs DEF Whole, AsksOK
      <4>2. ASSUME a.code = 200 PROVE Covers(a.data, c)'
        <5>1. Effect(r) /\ a.data = Children(c.kind, c.link)
          BY <1>6, <3>4, <4>1, <4>2 DEF Served
        <5>2. UNCHANGED <<status, parent>>
          BY <3>4, <5>1 DEF Effect
        <5>3. Covers(a.data, c)
          BY <5>1, ChildrenFacts DEF Covers, In, Live
        <5>4. QED
          BY <5>2, <5>3 DEF Covers
      <4>3. QED
        BY <2>1, <3>1, <3>2, <3>4, <4>1, <4>2 DEF Whole
    <3>5. CASE r.op = "create"
      <4>1. Covers(c.items, c)
        BY <3>3, <3>5 DEF Whole
      <4>2. \A z \in Appends : z.op = "relate" => z \in Appends'
        BY <2>3, <3>5
      <4>3. Covers(c.items, c)'
        BY <3>3, <4>1, <4>2, CoversStep
      <4>4. QED
        BY <2>1, <3>1, <3>2, <3>5, <4>3 DEF Whole
    <3>6. CASE r.op = "relate"
      BY <2>1, <3>1, <3>6 DEF Whole
    <3>7. QED
      BY <2>3, <3>4, <3>5, <3>6, ChainFacts
  <2>4. QED
    BY <1>6, <2>2, <2>3, ServedAppends
<1>7. ASSUME NEW r \in Appends, NEW q, Collected(r, q) PROVE Whole(x, c)'
  <2>1. /\ q.op = "create" /\ q.then = onCreated /\ r.op = "collect"
        /\ Appends' = (Appends \ {r}) \union {q} /\ UNCHANGED <<server, onCreated>>
        /\ Succeeds(r) \/ contested' = contested \union Appended(r)
    BY <1>7 DEF Collected
  <2>2. x = q
    BY <1>2, <2>1
  <2>3. onCreated \in 1..Len(closures) /\ closures'[onCreated].link = closures[onCreated].link
    BY <1>1, ChainFacts DEF SameLinks
  <2>4. r.then = onCreated
    BY <1>1, <2>1, <2>2, <2>3 DEF ChainInv
  <2>5. Succeeds(r)
    BY <1>3, <2>1, <2>2, <2>4, ChainFacts
  <2>6. r.code = 200
    BY <2>1, <2>5, ListAnswer DEF Appends
  <2>7. Covers(r.data, closures[r.then])
    BY <1>1, <2>1, <2>2, <2>3, <2>4, <2>6 DEF WholeInv, Whole
  <2>8. \A i : In(i, r.data) => In(i, closures'[r.then].items)
    BY <1>7, <2>5, CollectedItems
  <2>9. /\ closures'[r.then].kind = closures[r.then].kind
        /\ closures'[r.then].link = closures[r.then].link
    BY <1>3, <1>7, CollectedClosures
  <2>10. c = closures'[r.then]
    BY <2>1, <2>2, <2>4
  <2>11. UNCHANGED <<status, parent>>
    BY <2>1 DEF server
  <2>12. Covers(c.items, c)'
    BY <2>7, <2>8, <2>9, <2>10, <2>11 DEF Covers
  <2>13. QED
    BY <2>1, <2>2, <2>4, <2>10, <2>12 DEF Whole
<1>8. ASSUME NEW r \in Appends, x \in Appends, r \notin Appends' PROVE FALSE
  BY <1>1, <1>3, <1>8, SoleAppend
<1>9. ASSUME NEW r \in Appends, NEW q, Created(r, q) PROVE Whole(x, c)'
  <2> DEFINE last == IF r.code = 201 THEN r.data ELSE <<None>>
  <2>1. /\ UNCHANGED <<server, closures>> /\ r.op = "create"
        /\ \/ Appends' = Appends \ {r}
           \/ /\ Appends' = (Appends \ {r}) \union {q} /\ q.op = "relate"
              /\ q.body = closures[r.then].items \o last /\ q.then = r.then /\ q.code = 0
    BY <1>9 DEF Created
  <2>2. r \in net /\ r.then # 0 /\ last = IF r.code = 201 THEN r.data ELSE <<None>>
    BY DEF Appends
  <2> HIDE DEF last
  <2>3. CASE Appends' = Appends \ {r}
    BY <1>8, <2>3
  <2>4. CASE /\ Appends' = (Appends \ {r}) \union {q} /\ q.op = "relate"
             /\ q.body = closures[r.then].items \o last /\ q.then = r.then /\ q.code = 0
    <3>1. x = q
      BY <1>2, <2>4
    <3>2. Whole(r, closures[r.then])
      BY <1>1, <2>1, <2>4, <3>1 DEF WholeInv
    <3>3. PICK y \in Links : last = <<y>>
      BY <2>1, <2>2, RelationBody
    <3>4. PICK items \in Seq(Items) : items = closures[r.then].items
      BY <2>1, <2>2, RelationBody
    <3>5. \A i : In(i, items) => In(i, items \o last)
      <4>1. items \in Seq(Links) /\ last \in Seq(Links)
        BY <3>3, <3>4 DEF Links
      <4>2. QED
        BY <4>1, InJoin
    <3>6. c = closures[r.then]
      BY <2>1, <2>4, <3>1
    <3>7. Covers(q.body, c)
      BY <2>1, <2>4, <3>2, <3>4, <3>5, <3>6 DEF Whole, Covers
    <3>8. Covers(q.body, c)'
      BY <2>1, <3>7 DEF Covers, server
    <3>9. QED
      BY <2>4, <3>1, <3>6, <3>8 DEF Whole
  <2>5. QED
    BY <2>1, <2>3, <2>4
<1>10. ASSUME NEW r \in Appends, Finished(r) PROVE Whole(x, c)'
  BY <1>8, <1>10 DEF Finished
<1>11. QED
  BY <1>4, <1>5, <1>6, <1>7, <1>9, <1>10, AppendShapes

\* A step takes no item out of a collection that is not contested.
LEMMA KeptStep ==
  ASSUME TypeInv, ClaimInv, NewInv, BodyInv, WholeInv, [Next]_vars,
         NEW i \in Items, status[i] = "live", parent[i] # None, parent'[i] # parent[i]
  PROVE  parent[i] \in contested
<1>1. PICK r \in Appends : Relates(r, i)
  BY ParentStep
<1>2. r.op = "relate" /\ r.code = 0
  BY <1>1 DEF Relates
<1>3. /\ r.link = closures[r.then].link /\ r.kind = closures[r.then].kind /\ r.link \in Items
  BY <1>2, RelateFacts DEF Appends
<1>4. CASE In(i, r.body)
  <2>1. parent'[i] = r.link
    BY <1>1, <1>4 DEF Relates
  <2>2. Claimed(r.link, i)
    BY <1>2, <1>4, BodyParts DEF NewInv
  <2>3. QED
    BY <1>3, <2>1, <2>2 DEF ClaimInv
<1>5. CASE ~In(i, r.body)
  BY <1>1, <1>2, <1>3, <1>5 DEF Relates, WholeInv, Whole, Covers
<1>6. QED
  BY <1>4, <1>5

LEMMA JoinStep ==
  ASSUME TypeInv, MeantInv, HomeInv, ClaimInv, NewInv, BodyInv, WholeInv, JoinInv, [Next]_vars
  PROVE  JoinInv'
<1> SUFFICES ASSUME ~astray', NEW i \in Items, status'[i] = "live", KindOf[i] \in Appendable,
                    home'[i] \in Items \ contested'
             PROVE  \/ parent'[i] = home'[i]
                    \/ \E x \in Appends' : home'[i] \in Appended(x)' /\ Joining(x, i)
  BY DEF JoinInv
<1> DEFINE Goal == \/ parent'[i] = home'[i]
                   \/ \E x \in Appends' : home'[i] \in Appended(x)' /\ Joining(x, i)
<1>1. SameLinks /\ contested \subseteq contested' /\ ~astray
  BY LinksStep
<1>2. ASSUME NEW x \in Appends', NEW r \in Appends, x.then = r.then, home'[i] \in Appended(r),
             Joining(x, i)
      PROVE  Goal
  BY <1>1, <1>2, SameAppended
\* An item that was there.
<1>3. CASE status[i] = "live" /\ home'[i] = home[i]
  <2>1. home[i] \in Items \ contested
    BY <1>1, <1>3
  <2>2. CASE parent[i] = home[i]
    <3>1. parent[i] # None
      BY <2>1, <2>2, KindFacts
    <3>2. parent'[i] = parent[i]
      BY <1>3, <2>1, <2>2, <3>1, KeptStep
    <3>3. QED
      BY <1>3, <2>2, <3>2
  <2>3. CASE parent[i] # home[i]
    <3>1. PICK r \in Appends : home[i] \in Appended(r) /\ Joining(r, i)
      BY <1>1, <1>3, <2>1, <2>3 DEF JoinInv
    <3>2. r \in Appends' => Goal
      BY <1>2, <1>3, <3>1
    <3>3. CASE QuietStep
      BY <3>2, <3>3 DEF QuietStep
    <3>4. ASSUME NEW k \in Appendable, NEW q, Asked(k, q) PROVE Goal
      BY <3>2, <3>4 DEF Asked
    <3>5. ASSUME NEW s \in net, NEW a, Served(s, a) PROVE Goal
      <4>1. CASE Appends' = Appends \/ s # r
        BY <1>1, <3>2, <3>5, <4>1, ServedAppends
      <4>2. CASE Appends' = (Appends \ {r}) \union {a} /\ s = r
        <5>1. /\ r.code = 0 /\ a.op = r.op /\ a.body = r.body /\ a.then = r.then
              /\ \/ a.code = 500 \/ Effect(r)
          BY <3>5, <4>2 DEF Served
        <5>2. r.op = "relate" /\ r.body[Len(r.body)] = i
          BY <3>1, <5>1 DEF Joining
        <5>3. CASE a.code = 500
          <6>1. Joining(a, i)
            BY <5>1, <5>2, <5>3 DEF Joining
          <6>2. QED
            BY <1>2, <1>3, <3>1, <4>2, <5>1, <6>1
        <5>4. CASE Effect(r)
          <6>1. /\ r.then \in 1..Len(closures) /\ r.link = closures[r.then].link
                /\ r.body # <<>> /\ r.body \in Seq(Links \union {Blank})
            BY <4>2, <5>2, RelateFacts, RequestIs
          <6>2. Len(r.body) \in 1..Len(r.body)
            BY <6>1
          <6>3. In(i, r.body)
            BY <5>2, <6>2 DEF In
          <6>4. parent'[i] = r.link
            BY <4>2, <5>2, <5>4, <6>3, EffectParent
          <6>5. closures[r.then].link = closures[r.then].meant
            BY <1>1, <6>1 DEF MeantInv
          <6>6. home[i] = r.link
            BY <3>1, <6>1, <6>5, ChainFacts
          <6>7. QED
            BY <1>3, <6>4, <6>6
        <5>5. QED
          BY <5>1, <5>3, <5>4
      <4>3. QED
        BY <3>2, <3>5, <4>1, <4>2, ServedAppends
    <3>6. ASSUME NEW s \in Appends, NEW q, Collected(s, q) PROVE Goal
      <4>1. r # s /\ Appends' = (Appends \ {s}) \union {q}
        BY <3>1, <3>6 DEF Collected, Joining
      <4>2. QED
        BY <3>2, <4>1
    <3>7. ASSUME NEW s \in Appends, NEW q, Created(s, q) PROVE Goal
      <4>1. CASE s # r
        BY <3>2, <3>7, <4>1 DEF Created
      <4>2. CASE s = r
        <5>1. r.op = "create" /\ r.code = 201 /\ r.data = <<i>>
          BY <3>1, <3>7, <4>2 DEF Created, Joining
        <5>2. ~Succeeds(r)
          BY <1>3, <3>1, <3>7, <4>2 DEF Created
        <5>3. /\ Appends' = (Appends \ {r}) \union {q} /\ q.op = "relate" /\ q.code = 0
              /\ q.then = r.then /\ q.body = closures[r.then].items \o <<i>>
          BY <3>7, <4>2, <5>1, <5>2 DEF Created
        <5>4. closures[r.then].items \in Seq(Items)
          BY ChainFacts DEF ClosureOK
        <5>5. q.body[Len(q.body)] = i
          BY <5>3, <5>4
        <5>6. Joining(q, i)
          BY <5>3, <5>5 DEF Joining
        <5>7. QED
          BY <1>2, <1>3, <3>1, <5>3, <5>6
      <4>3. QED
        BY <4>1, <4>2
    <3>8. ASSUME NEW s \in Appends, Finished(s) PROVE Goal
      <4>1. CASE s # r
        BY <3>2, <3>8, <4>1 DEF Finished
      <4>2. CASE s = r
        <5>1. r.code = 500
          BY <3>1, <3>8, <4>2 DEF Finished, Joining
        <5>2. contested' = contested \union Appended(r)
          BY <3>8, <4>2, <5>1 DEF Finished, Succeeds
        <5>3. QED
          BY <1>3, <3>1, <5>2
      <4>3. QED
        BY <4>1, <4>2
    <3>9. QED
      BY <3>3, <3>4, <3>5, <3>6, <3>7, <3>8, AppendShapes
  <2>4. QED
    BY <2>2, <2>3
\* One that this step creates.
<1>4. CASE status[i] = "free"
  <2>1. ASSUME NEW r \in net, NEW a, Served(r, a) PROVE Goal
    <3>1. Accepts(r) /\ Effect(r)
      BY <1>4, <2>1 DEF Served, server
    <3>2. r.op = "create" /\ i = Head(Unused(r.kind)) /\ home'[i] = r.link /\ KindOf[i] = r.kind
      BY <1>4, <3>1, EffectStatus, UnusedFacts DEF Accepts
    <3>3. r.then # 0
      BY <3>2, RequestIs DEF AsksOK, Appendable
    <3>4. r \in Appends /\ Appends' = (Appends \ {r}) \union {a}
      BY <2>1, <3>3, ServedAppends
    <3>5. r.link \in Appended(r)
      BY <1>1, <3>2, <3>4 DEF HomeInv
    <3>6. /\ a.op = "create" /\ a.then = r.then
          /\ a.code = 500 => UNCHANGED server \/ Appended(r) \subseteq contested'
          /\ a.code # 500 => a.code = 201 /\ a.data = <<i>>
      BY <2>1, <3>2 DEF Served
    <3>7. a.code # 500
      BY <1>4, <3>2, <3>5, <3>6 DEF server
    <3>8. Joining(a, i)
      BY <3>6, <3>7 DEF Joining
    <3>9. QED
      BY <1>2, <3>2, <3>4, <3>5, <3>6, <3>8
  <2>2. QuietStep => UNCHANGED server
    BY DEF QuietStep
  <2>3. \A k, q : Asked(k, q) => UNCHANGED server
    BY DEF Asked
  <2>4. \A r, q : Collected(r, q) \/ Created(r, q) \/ Finished(r) => UNCHANGED server
    BY DEF Collected, Created, Finished
  <2>5. status' # status
    BY <1>4
  <2>6. QED
    BY <2>1, <2>2, <2>3, <2>4, <2>5, AppendShapes DEF server
<1>5. QED
  BY <1>3, <1>4, LiveStep

AppendInv ==
  /\ ChainInv /\ BodyInv /\ ClaimInv /\ NewInv /\ WholeInv
  /\ HomeInv /\ MeantInv /\ JoinInv

LEMMA AppendInit ==
  ASSUME Init
  PROVE  AppendInv
<1>1. Appends = {} /\ closures = <<>> /\ Len(closures) = 0 /\ 1..Len(closures) = {}
  BY DEF Init, Appends
<1>2. ChainInv /\ BodyInv /\ NewInv /\ WholeInv /\ HomeInv
  BY <1>1 DEF ChainInv, BodyInv, NewInv, WholeInv, HomeInv
<1>3. ClaimInv
  BY <1>1 DEF ClaimInv, Claimed
<1>4. MeantInv
  BY <1>1 DEF MeantInv
<1>5. JoinInv
  BY DEF Init, JoinInv
<1>6. QED
  BY <1>2, <1>3, <1>4, <1>5 DEF AppendInv

LEMMA AppendStep ==
  ASSUME TypeInv, OrderInv, KnownInv, AppendInv, [Next]_vars
  PROVE  AppendInv'
<1>1. TypeInv'
  BY TypeStep
<1>2. ChainInv' /\ BodyInv' /\ NewInv' /\ HomeInv' /\ MeantInv'
  BY ChainStep, BodyStep, NewStep, HomeStep, MeantStep DEF AppendInv
<1>3. WholeInv'
  BY <1>1, <1>2, WholeStep DEF AppendInv
<1>4. ClaimInv' /\ JoinInv'
  BY ClaimStep, JoinStep DEF AppendInv
<1>5. QED
  BY <1>2, <1>3, <1>4 DEF AppendInv

\* The parts of the invariant that speak of the server and of its items.
LEMMA Inductive ==
  Spec => [](TypeInv /\ KnownInv /\ OrderInv /\ AppendInv)
<1>1. Init => OrderInv
  BY DEF Init, OrderInv, Placed, OnStack
<1>2. Init => TypeInv /\ KnownInv /\ OrderInv /\ AppendInv
  BY <1>1, TypeInit, KnownInit, AppendInit
<1>3. TypeInv /\ KnownInv /\ OrderInv /\ AppendInv /\ [Next]_vars
        => TypeInv' /\ KnownInv' /\ OrderInv' /\ AppendInv'
  BY TypeStep, KnownStep, OrderStep, AppendStep
<1>4. QED
  BY <1>2, <1>3, PTL DEF Spec

\* Adding an item takes none out of a collection, unless two appends about it
\* overlapped or one met a failure (rest.append, which replaces the collection).
THEOREM RelationsKept == Spec => RelationsAreKept
<1>1. TypeInv /\ AppendInv /\ [Next]_vars =>
        [\A i \in Items : status[i] = "live" /\ parent[i] # None /\ parent'[i] # parent[i]
           => parent[i] \in contested]_vars
  <2>1. ASSUME TypeInv, AppendInv, [Next]_vars, NEW i \in Items, status[i] = "live",
               parent[i] # None, parent'[i] # parent[i]
        PROVE  parent[i] \in contested
    BY <2>1, KeptStep DEF AppendInv
  <2>2. QED
    BY <2>1
<1>2. QED
  BY <1>1, Inductive, PTL DEF Spec, RelationsAreKept

\* When nothing is under way, an item created for a collection that is still
\* there is in it, unless its append overlapped another or met a failure, or a
\* row in a wrong table was clicked (the chain of handlers of append()).
THEOREM CreatedJoin == Spec => []CreatedItemsJoin
<1>1. AppendInv => CreatedItemsJoin
  <2> SUFFICES ASSUME AppendInv, NEW i \in Items, net = {}, status[i] = "live",
                      KindOf[i] \in {"origin", "set"}, Live(home[i]), home[i] \notin contested,
                      ~astray
               PROVE  parent[i] = home[i]
    BY DEF CreatedItemsJoin
  <2>1. Appends = {} /\ home[i] \in Items
    BY DEF Appends, Live
  <2>2. QED
    BY <2>1 DEF AppendInv, JoinInv, Appendable
<1>2. QED
  BY <1>1, Inductive, PTL

-----------------------------------------------------------------------------
(* The tables: what the server does to lists. *)

LEMMA OneStep ==
  ASSUME TypeInv, NewInv, BodyInv, OneInv, [Next]_vars
  PROVE  OneInv'
<1> SUFFICES ASSUME NEW p \in Items, NEW i \in Items, Claimed(p, i)'
             PROVE  parent'[i] \in {p, None} /\ \A q \in Items : Claimed(q, i)' => q = p
  BY DEF OneInv
<1>0. \A q \in Items : q # None
  BY KindFacts
<1>1. \A q \in Items : Claimed(q, i)' =>
        Claimed(q, i) \/ (UNCHANGED server /\ parent[i] = q)
  BY ClaimedStep
<1>2. \A q \in Items : Claimed(q, i)' => q = p
  BY <1>0, <1>1 DEF OneInv
<1>3. parent'[i] \in {p, None}
  <2>1. CASE UNCHANGED server /\ parent[i] = p
    BY <2>1 DEF server
  <2>2. CASE Claimed(p, i)
    <3>1. ASSUME NEW r \in Appends, Relates(r, i) PROVE parent'[i] \in {p, None}
      <4>1. r.op = "relate" /\ r.code = 0 /\ r.link \in Items
        BY <3>1, RelateFacts DEF Relates, Appends
      <4>2. In(i, r.body) => Claimed(r.link, i)
        BY <2>2, <4>1, BodyParts DEF NewInv
      <4>3. In(i, r.body) => r.link = p
        BY <2>2, <4>1, <4>2 DEF OneInv
      <4>4. QED
        BY <3>1, <4>3 DEF Relates
    <3>2. parent[i] \in {p, None}
      BY <2>2 DEF OneInv
    <3>3. QED
      BY <3>1, <3>2, ParentStep
  <2>3. QED
    BY <1>1, <2>1, <2>2
<1>4. QED
  BY <1>2, <1>3

\* With an item goes what is related to it.
LEMMA FamilyFacts ==
  ASSUME NEW j \in Items
  PROVE  /\ Family(j) \subseteq Items /\ j \in Family(j)
         /\ \A i \in Family(j) : i = j \/ parent[i] \in Family(j)
<1> DEFINE A == {j} \union {i \in Items : parent[i] \in {j}}
           B == A \union {i \in Items : parent[i] \in A}
           C == B \union {i \in Items : parent[i] \in B}
<1>1. Family(j) = C
  BY DEF Family
<1>2. C \subseteq Items /\ j \in C
  OBVIOUS
<1>3. \A i \in C : i = j \/ parent[i] \in C
  OBVIOUS
<1>4. QED
  BY <1>1, <1>2, <1>3

LEMMA SameChildren ==
  ASSUME NEW k, NEW p,
         \A i \in Items : KindOf[i] = k =>
           ((status'[i] = "live" /\ parent'[i] = p) <=> (status[i] = "live" /\ parent[i] = p))
  PROVE  Children(k, p)' = Children(k, p)
<1>1. {i \in Items : status'[i] = "live" /\ KindOf[i] = k /\ parent'[i] = p}
        = {i \in Items : status[i] = "live" /\ KindOf[i] = k /\ parent[i] = p}
  OBVIOUS
<1>2. Children(k, p)' = Listed({i \in Items : status'[i] = "live" /\ KindOf[i] = k /\ parent'[i] = p})
  BY DEF Children, Listed
<1>3. QED
  BY <1>1, <1>2 DEF Children

LEMMA DestroyChildren ==
  ASSUME TypeInv, NEW r \in net, r.op = "destroy", Accepts(r), Effect(r),
         NEW k, r.kind # k, NEW p, p \in Items => status'[p] = "live"
  PROVE  Children(k, p)' = Children(k, p)
<1>0. status \in [Items -> {"free", "live", "gone"}]
  BY DEF TypeInv, ServerOK
<1>1. PICK j \in Items : j = r.link /\ KindOf[j] # k
  BY RequestIs DEF AsksOK
<1>2. /\ status' = [i \in Items |-> IF i \in Family(j) /\ Live(i) THEN "gone" ELSE status[i]]
      /\ parent' = parent
  BY <1>1 DEF Effect
<1>3. p \in Items => ~(p \in Family(j) /\ Live(p)) /\ Live(p)
  BY <1>0, <1>2 DEF Live
<1>4. ASSUME NEW i \in Items, KindOf[i] = k, parent[i] = p PROVE i \notin Family(j)
  BY <1>1, <1>3, <1>4, FamilyFacts
<1>5. \A i \in Items : KindOf[i] = k /\ parent[i] = p => status'[i] = status[i]
  BY <1>2, <1>4
<1>6. QED
  BY <1>2, <1>5, SameChildren

LEMMA CreateChildren ==
  ASSUME TypeInv, NEW r \in net, r.op = "create", Accepts(r), Effect(r),
         NEW k, r.kind # k \/ r.then # 0, NEW p, k # "network" => p \in Items
  PROVE  Children(k, p)' = Children(k, p)
<1>0. status \in [Items -> {"free", "live", "gone"}]
  BY DEF TypeInv, ServerOK
<1>1. PICK x \in Items : /\ x = Head(Unused(r.kind)) /\ status[x] = "free" /\ KindOf[x] = r.kind
                         /\ status' = [status EXCEPT ![x] = "live"]
  BY UnusedFacts DEF Accepts, Effect
<1>2. parent' = parent /\ parent[x] = None
  BY <1>1 DEF Effect, TypeInv, ServerOK
<1>3. KindOf[x] # k \/ parent[x] # p
  <2>1. r.then # 0 => r.kind # "network"
    BY RequestIs DEF AsksOK, Appendable
  <2>2. QED
    BY <1>1, <1>2, <2>1, KindFacts
<1>4. QED
  BY <1>0, <1>1, <1>2, <1>3, SameChildren

LEMMA RelateChildren ==
  ASSUME TypeInv, NewInv, BodyInv, OneInv, NEW r \in net, r.op = "relate", r.code = 0, Effect(r),
         NEW k \in Kinds, r.kind # k, NEW p, k # "network" => p \in Items /\ KindOf[p] = ParentKind[k]
  PROVE  Children(k, p)' = Children(k, p)
<1>1. /\ r.kind \in Appendable /\ r.link \in Items /\ KindOf[r.link] = ParentKind[r.kind]
      /\ r \in Appends
      /\ \A n \in 1..Len(r.body) : r.body[n] # None => KindOf[r.body[n]] \in Appendable
  BY RelateFacts DEF Appends
<1>2. status' = status
  BY EffectParent
<1>3. ASSUME NEW i \in Items, KindOf[i] = k, ~In(i, r.body) PROVE parent'[i] = parent[i]
  BY <1>3, EffectParent
<1>4. ASSUME NEW i \in Items, KindOf[i] = k, In(i, r.body) PROVE parent'[i] # p /\ parent[i] # p
  <2>1. k \in Appendable
    BY <1>1, <1>4, KindFacts DEF In
  <2>2. p \in Items /\ p # r.link /\ p # None
    BY <1>1, <2>1, KindFacts DEF Appendable
  <2>3. parent'[i] = r.link
    BY <1>4, EffectParent
  <2>4. parent[i] \in {r.link, None}
    BY <1>1, <1>4, BodyParts DEF NewInv, OneInv
  <2>5. QED
    BY <2>2, <2>3, <2>4
<1>5. \A i \in Items : KindOf[i] = k => ((parent'[i] = p) <=> (parent[i] = p))
  BY <1>3, <1>4
<1>6. QED
  BY <1>2, <1>5, SameChildren

\* What changes a list outdates it.
LEMMA ServedChildren ==
  ASSUME TypeInv, NewInv, BodyInv, OneInv, NEW r \in net, NEW a, Served(r, a), UNCHANGED opened,
         NEW k \in Kinds
  PROVE  Children(k, opened[k])' = Children(k, opened[k]) \/ Outdated(k)'
<1>1. PICK p : p = opened[k]
  OBVIOUS
<1>2. /\ a.op = r.op /\ a.kind = r.kind /\ a.then = r.then /\ a.code # 0 /\ a \in net' /\ r.code = 0
      /\ UNCHANGED server \/ (Accepts(r) /\ Effect(r))
  BY DEF Served
<1>3. /\ k = "network" => p = None
      /\ k # "network" => p \in Links /\ (p # None => KindOf[p] = ParentKind[k])
  BY <1>1 DEF TypeInv, PageOK
<1>4. CASE Pends(a, k)
  BY <1>2, <1>4 DEF Outdated
<1>5. CASE k # "network" /\ ~Live(p)'
  <2>1. ~Live(opened[k])'
    BY <1>1, <1>5
  <2>2. QED
    BY <1>5, <2>1 DEF Outdated
<1>6. CASE ~Pends(a, k) /\ (k = "network" \/ Live(p)')
  <2>1. k # "network" => p \in Items /\ KindOf[p] = ParentKind[k] /\ status'[p] = "live"
    BY <1>3, <1>6, KindFacts DEF Live
  <2>2. p \in Items => status'[p] = "live"
    BY <1>3, <2>1, KindFacts
  <2>a. /\ r.op = "destroy" => r.kind # k
        /\ r.op = "create" => r.kind # k \/ r.then # 0
        /\ r.op = "relate" => r.kind # k
    BY <1>2, <1>6 DEF Pends
  <2>b. (k # "network" => p \in Items) /\ (k # "network" => p \in Items /\ KindOf[p] = ParentKind[k])
    BY <2>1
  <2>4. ASSUME Accepts(r), Effect(r), r.op = "destroy" PROVE Children(k, p)' = Children(k, p)
    <3>1. r.kind # k
      BY <2>a, <2>4
    <3>2. QED
      BY <2>2, <2>4, <3>1, DestroyChildren
  <2>5. ASSUME Accepts(r), Effect(r), r.op = "create" PROVE Children(k, p)' = Children(k, p)
    <3>1. r.kind # k \/ r.then # 0
      BY <2>a, <2>5
    <3>2. QED
      BY <2>b, <2>5, <3>1, CreateChildren
  <2>6. ASSUME Effect(r), r.op = "relate" PROVE Children(k, p)' = Children(k, p)
    <3>1. r.kind # k /\ r.code = 0
      BY <1>2, <2>a, <2>6
    <3>2. QED
      BY <2>b, <2>6, <3>1, RelateChildren
  <2>7. ASSUME Effect(r), r.op \notin {"destroy", "create", "relate"}
        PROVE  Children(k, p)' = Children(k, p)
    <3>1. status' = status /\ parent' = parent
      BY <2>7 DEF Effect
    <3>2. QED
      BY <3>1, SameChildren
  <2>8. Children(k, p)' = Children(k, p)
    <3>1. CASE Accepts(r) /\ Effect(r)
      BY <3>1, <2>4, <2>5, <2>6, <2>7
    <3>2. CASE UNCHANGED server
      <4>1. status' = status /\ parent' = parent
        BY <3>2 DEF server
      <4>2. QED
        BY <4>1, SameChildren
    <3>3. UNCHANGED server \/ (Accepts(r) /\ Effect(r))
      BY <1>2
    <3>4. QED
      BY <3>1, <3>2, <3>3
  <2>9. QED
    BY <1>1, <2>8
<1>7. QED
  BY <1>4, <1>5, <1>6

-----------------------------------------------------------------------------
(* The tables: which steps there are. *)

\* A table loads: its rows go, and a request for its list is sent.
Loading(t, p, rest, q) ==
  /\ q.op = "list" /\ q.kind = t /\ q.link = p /\ q.code = 0
  /\ net' = rest \union {q} /\ Lists' = Lists \union {q}
  /\ dst' = t /\ rows' = [rows EXCEPT ![t] = <<>>]
  /\ excused' = IF Lists = {} THEN excused \ {t}
                ELSE excused \union {r.kind : r \in Lists} \union {t}

\* A load that goes by what the table lists, on the answer to its own kind.
TableLoads(t, p, rest) ==
  /\ rest \subseteq net /\ t \in Kinds /\ \E q : Loading(t, p, rest, q)
  /\ UNCHANGED server /\ (astray => astray')
  /\ \A k \in Kinds \ {t} : opened'[k] = opened[k] /\ (InView(k)' => InView(k))
  /\ \A r \in net \ rest, k \in Kinds : Pends(r, k) => k = t
  /\ ~astray' /\ (InView(t)' \/ t = "log") => p = opened'[t]

\* A step that no table depends on.
Calm ==
  /\ Lists' = Lists /\ excused \subseteq excused' /\ (astray => astray')
  /\ UNCHANGED <<server, dst, rows, opened>>
  /\ \A k \in Kinds : InView(k)' => InView(k)
  /\ \A r \in net \ net', k \in Kinds : Pends(r, k) => k \in excused'

LEMMA LoadLists ==
  ASSUME NEW t, NEW p, NEW rest \in SUBSET net, Load(t, p, rest),
         \A r \in net \ rest : r.op # "list"
  PROVE  \E q : Loading(t, p, rest, q)
<1>1. PICK q : q = Request("list", t, p, <<>>, 0)
  OBVIOUS
<1>2. q.op = "list" /\ q.kind = t /\ q.link = p /\ q.code = 0
  BY <1>1, RequestFacts
<1>3. /\ net' = rest \union {q} /\ dst' = t /\ rows' = [rows EXCEPT ![t] = <<>>]
      /\ excused' = IF {r.kind : r \in {s \in rest : s.op = "list"}} = {} THEN excused \ {t}
                    ELSE excused \union {r.kind : r \in {s \in rest : s.op = "list"}} \union {t}
  BY <1>1 DEF Load
<1>4. {s \in rest : s.op = "list"} = Lists
  BY DEF Lists, InFlight
<1>5. {r.kind : r \in Lists} = {} <=> Lists = {}
  OBVIOUS
<1>6. Lists' = Lists \union {q}
  BY <1>2, <1>3, <1>4 DEF Lists, InFlight
<1>7. excused' = IF Lists = {} THEN excused \ {t}
                 ELSE excused \union {r.kind : r \in Lists} \union {t}
  BY <1>3, <1>4, <1>5
<1>8. QED
  BY <1>2, <1>3, <1>6, <1>7 DEF Loading

\* What is asked for, or taken from the answers, without a list.
LEMMA SameLists ==
  ASSUME NEW rest, rest \subseteq net, \A r \in net \ rest : r.op # "list",
         \/ net' = rest
         \/ \E q : net' = rest \union {q} /\ q.op # "list"
  PROVE  Lists' = Lists
BY DEF Lists, InFlight

LEMMA ViewedIsOn ==
  ASSUME NEW k, k # "network"
  PROVE  InView(k) <=> OnStack(<<"list", k>>)
BY DEF InView, OnStack

LEMMA ClosedView ==
  ASSUME TypeInv, NEW d, stack' = Close(d)
  PROVE  \A k \in Kinds : InView(k)' => InView(k)
<1>1. \A e : OnStack(e)' => OnStack(e)
  BY ClosedIsOn
<1>2. QED
  BY <1>1 DEF InView, OnStack

LEMMA OpenedView ==
  ASSUME TypeInv, NEW d \in Dialogs, stack' = Open(d)
  PROVE  \A k \in Kinds : d # <<"list", k>> => (InView(k)' => InView(k))
<1>1. StackOK
  BY DEF TypeInv
<1>2. \A e : (\E n \in 1..Len(stack') : stack'[n] = e) => OnStack(e) \/ e = d
  BY <1>1, OpenSingle
<1>3. QED
  BY <1>2 DEF InView, OnStack

LEMMA SameView ==
  ASSUME UNCHANGED stack
  PROVE  \A k \in Kinds : InView(k)' => InView(k)
BY DEF InView

LEMMA OpenListLoads ==
  ASSUME TypeInv, NEW i \in Items, NEW t \in Kinds, OpenList(i, t)
  PROVE  TableLoads(t, i, net)
<1>1. /\ Load(t, i, net) /\ Shown(i) /\ stack' = Open(<<"list", t>>) /\ UNCHANGED server
      /\ opened' = [opened EXCEPT ![t] = i] /\ t \in {"origin", "set", "snapshot"}
  BY DEF OpenList
<1>2. \E q : Loading(t, i, net, q)
  BY <1>1, LoadLists
<1>3. /\ opened \in [Kinds -> Links] /\ opened'[t] = i
      /\ \A k \in Kinds \ {t} : opened'[k] = opened[k]
  BY <1>1 DEF TypeInv, PageOK
<1>4. PICK d \in Dialogs : d = <<"list", t>>
  BY <1>1, DialogFacts
<1>5. \A k \in Kinds \ {t} : d # <<"list", k>>
  BY <1>4
<1>6. \A k \in Kinds \ {t} : InView(k)' => InView(k)
  BY <1>1, <1>4, <1>5, OpenedView
<1>7. astray => astray'
  BY <1>1 DEF Shown
<1>8. QED
  BY <1>1, <1>2, <1>3, <1>6, <1>7 DEF TableLoads

LEMMA OpenLogLoads ==
  ASSUME TypeInv, NEW i \in Items, OpenLog(i)
  PROVE  TableLoads("log", i, net)
<1>1. /\ Load("log", i, net) /\ Shown(i) /\ UNCHANGED <<server, stack>>
      /\ opened' = [opened EXCEPT !["log"] = i] /\ "log" \in Kinds
  BY DEF OpenLog, Kinds
<1>2. \E q : Loading("log", i, net, q)
  BY <1>1, LoadLists
<1>3. /\ opened \in [Kinds -> Links] /\ opened'["log"] = i
      /\ \A k \in Kinds \ {"log"} : opened'[k] = opened[k]
  BY <1>1 DEF TypeInv, PageOK
<1>4. astray => astray'
  BY <1>1 DEF Shown
<1>5. QED
  BY <1>1, <1>2, <1>3, <1>4, SameView DEF TableLoads

LEMMA ReloadLoads ==
  ASSUME TypeInv, OrderInv, ReloadSnapshots
  PROVE  TableLoads("snapshot", actual["network"], net)
<1>1. /\ Load("snapshot", actual["network"], net) /\ UNCHANGED <<server, stack, opened, astray>>
      /\ OnTop(<<"list", "snapshot">>)
  BY DEF ReloadSnapshots
<1>2. \E q : Loading("snapshot", actual["network"], net, q)
  BY <1>1, LoadLists
<1>3. "snapshot" \in Nested /\ "snapshot" \in Kinds
  BY DEF Nested, Kinds
<1>4. ~astray => actual["network"] = opened["snapshot"]
  BY <1>1, <1>3, OnTopIsOn, KindFacts DEF OrderInv
<1>5. QED
  BY <1>1, <1>2, <1>3, <1>4, SameView DEF TableLoads

LEMMA RefreshLoads ==
  ASSUME TypeInv, OrderInv, NEW r \in net, NEW t \in Edited, Refresh(t, r), r.op # "list",
         \A k \in Kinds : Pends(r, k) => k = t, UNCHANGED <<server, stack, opened, astray>>
  PROVE  \E p : TableLoads(t, p, net \ {r})
<1>1. PICK p : p = IF t = "network" THEN None ELSE actual[ParentKind[t]]
  OBVIOUS
<1>2. Load(t, p, net \ {r})
  BY <1>1 DEF Refresh
<1>3. \E q : Loading(t, p, net \ {r}, q)
  BY <1>2, LoadLists
<1>4. t \in Kinds /\ (t = "network" \/ t \in Nested)
  BY DEF Edited, Kinds, Nested
<1>5. ASSUME ~astray, InView(t) PROVE p = opened[t]
  <2>1. CASE t = "network"
    BY <1>1, <2>1 DEF TypeInv, PageOK
  <2>2. CASE t # "network"
    <3>1. OnStack(<<"list", t>>)
      BY <1>5, <2>2, ViewedIsOn
    <3>2. QED
      BY <1>1, <1>4, <1>5, <2>2, <3>1 DEF OrderInv
  <2>3. QED
    BY <2>1, <2>2
<1>6. t # "log"
  BY DEF Edited
<1>7. InView(t)' => InView(t)
  BY <1>4, SameView
<1>8. ~astray' /\ (InView(t)' \/ t = "log") => p = opened'[t]
  BY <1>5, <1>6, <1>7
<1>9. QED
  BY <1>3, <1>4, <1>8, SameView DEF TableLoads

LEMMA CalmAsks ==
  ASSUME UNCHANGED <<server, dst, rows, opened>>, excused \subseteq excused', astray => astray',
         \A k \in Kinds : InView(k)' => InView(k),
         NEW rest, rest \subseteq net,
         \A r \in net \ rest : r.op # "list" /\ \A k \in Kinds : Pends(r, k) => k \in excused',
         \/ net' = rest
         \/ \E q : net' = rest \union {q} /\ q.op # "list"
  PROVE  Calm
<1>1. Lists' = Lists
  BY SameLists
<1>2. \A r \in net \ net' : r \in net \ rest
  OBVIOUS
<1>3. QED
  BY <1>1, <1>2 DEF Calm

\* An administrator's request other than for a list.
LEMMA CalmClick ==
  ASSUME UNCHANGED <<server, dst, rows, opened, excused>>, astray => astray',
         \A k \in Kinds : InView(k)' => InView(k),
         \/ net' = net
         \/ \E op, kind, link, body, then :
              op # "list" /\ net' = net \union {Request(op, kind, link, body, then)}
  PROVE  Calm
<1>1. CASE net' = net
  BY <1>1, CalmAsks
<1>2. ASSUME NEW op, NEW kind, NEW link, NEW body, NEW then, op # "list",
             net' = net \union {Request(op, kind, link, body, then)}
      PROVE  Calm
  <2>1. PICK q : q = Request(op, kind, link, body, then)
    OBVIOUS
  <2>2. q.op # "list"
    BY <1>2, <2>1, RequestFacts
  <2>3. net' = net \union {q}
    BY <1>2, <2>1
  <2>4. QED
    BY <2>2, <2>3, CalmAsks
<1>3. QED
  BY <1>1, <1>2

LEMMA TableClicks ==
  ASSUME TypeInv, OrderInv, Administrator
  PROVE  Calm \/ \E t, p, rest : TableLoads(t, p, rest)
<1>1. ASSUME NEW i \in Items, OpenEdit(i) \/ Delete(i) \/ Unindex(i) PROVE Calm
  <2>1. /\ UNCHANGED <<server, dst, rows, opened, excused, stack>> /\ Shown(i)
        /\ \E op : op # "list" /\ net' = net \union {Request(op, KindOf[i], i, <<>>, 0)}
    BY <1>1 DEF OpenEdit, Delete, Unindex, page
  <2>2. astray => astray'
    BY <2>1 DEF Shown
  <2>3. QED
    BY <2>1, <2>2, SameView, CalmClick
<1>2. ASSUME NEW k \in Edited, SaveEdit(k) PROVE Calm
  <2>1. /\ UNCHANGED <<server, dst, rows, opened, excused, astray>> /\ stack' = Close(<<"edit", k>>)
        /\ net' = net \union {Request("update", k, actual[k], <<form[k]>>, 0)}
    BY <1>2 DEF SaveEdit, history
  <2>2. QED
    BY <2>1, ClosedView, CalmClick
<1>3. ASSUME NEW k \in Edited, OpenCreate(k) PROVE Calm
  <2>1. PICK d \in Dialogs : d = <<"create", k>>
    BY DialogFacts
  <2>2. /\ UNCHANGED <<server, dst, rows, opened, excused, astray, net>> /\ stack' = Open(d)
    BY <1>3, <2>1 DEF OpenCreate, history
  <2>3. \A t \in Kinds : d # <<"list", t>>
    BY <2>1
  <2>4. QED
    BY <2>2, <2>3, OpenedView, CalmClick
<1>4. CASE CreateNetwork
  <2>1. /\ UNCHANGED <<server, dst, rows, opened, excused, astray>>
        /\ stack' = Close(<<"create", "network">>)
        /\ net' = net \union {Request("create", "network", None, <<>>, 0)}
    BY <1>4 DEF CreateNetwork, history
  <2>2. QED
    BY <2>1, ClosedView, CalmClick
<1>5. ASSUME NEW k \in Edited, CreateChild(k) PROVE Calm
  <2>1. /\ UNCHANGED <<server, dst, rows, opened, excused, astray>>
        /\ stack' = Close(<<"create", k>>)
        /\ \E n : net' = net \union {Request("collect", k, actual[ParentKind[k]], <<>>, n)}
    BY <1>5 DEF CreateChild
  <2>2. QED
    BY <2>1, ClosedView, CalmClick
<1>6. CASE CloseTop
  <2>1. /\ UNCHANGED <<server, dst, rows, opened, excused, astray, net>>
        /\ stack' = Close(stack[Len(stack)])
    BY <1>6 DEF CloseTop, history
  <2>2. QED
    BY <2>1, ClosedView, CalmClick
<1>7. QED
  BY <1>1, <1>2, <1>3, <1>4, <1>5, <1>6, OpenListLoads, OpenLogLoads, ReloadLoads
     DEF Administrator

\* The answers after which a table is loaded again.
LEMMA TableHandles ==
  ASSUME TypeInv, OrderInv, NEW r \in net, Handle(r)
  PROVE  \/ Calm
         \/ \E t, p, rest : TableLoads(t, p, rest)
         \/ r \in Lists /\ ListArrives(r)
<1>0. AsksOK(r) /\ r.kind \in Kinds
  BY RequestIs
<1>1. CASE ListArrives(r)
  BY <1>1 DEF ListArrives, Answered, Lists, InFlight
<1>2. CASE FormArrives(r)
  <2>1. /\ r.op = "edit" /\ net' = net \ {r}
        /\ UNCHANGED <<server, dst, rows, opened, excused, astray>>
        /\ stack' = Open(<<"edit", r.kind>>) \/ stack' = stack
    BY <1>2 DEF FormArrives, Answered
  <2>2. PICK d \in Dialogs : d = <<"edit", r.kind>>
    BY <1>0, <2>1, DialogFacts DEF AsksOK
  <2>3. \A k \in Kinds : d # <<"list", k>>
    BY <2>2
  <2>4. \A k \in Kinds : InView(k)' => InView(k)
    <3>1. CASE stack' = Open(d)
      BY <2>3, <3>1, OpenedView
    <3>2. CASE stack' = stack
      BY <3>2, SameView
    <3>3. QED
      BY <2>1, <2>2, <3>1, <3>2
  <2>5. \A k \in Kinds : ~Pends(r, k)
    BY <2>1 DEF Pends
  <2>6. QED
    BY <2>1, <2>4, <2>5, CalmAsks
<1>3. CASE Updated(r)
  <2>1. /\ r.op = "update" /\ UNCHANGED <<server, stack, opened, astray>>
        /\ \/ Refresh(r.kind, r)
           \/ net' = net \ {r} /\ UNCHANGED <<dst, rows, excused>>
    BY <1>3 DEF Updated, Answered, NoRefresh
  <2>2. r.kind \in Edited
    BY <1>0, <2>1 DEF AsksOK
  <2>3. \A k \in Kinds : ~Pends(r, k)
    BY <2>1 DEF Pends
  <2>4. CASE Refresh(r.kind, r)
    BY <2>1, <2>2, <2>3, <2>4, RefreshLoads
  <2>5. CASE net' = net \ {r} /\ UNCHANGED <<dst, rows, excused>>
    BY <2>1, <2>3, <2>5, SameView, CalmAsks
  <2>6. QED
    BY <2>1, <2>4, <2>5
<1>4. CASE Deleted(r)
  <2>1. /\ r.op \in {"destroy", "unindex"} /\ UNCHANGED <<server, stack, opened, astray>>
        /\ \/ Refresh(r.kind, r)
           \/ /\ net' = net \ {r} /\ excused' = excused \union {r.kind}
              /\ UNCHANGED <<dst, rows>>
    BY <1>4 DEF Deleted, Answered
  <2>2. r.kind \in Edited
    BY <1>0, <2>1 DEF AsksOK, Edited
  <2>3. \A k \in Kinds : Pends(r, k) => k = r.kind
    BY DEF Pends
  <2>4. CASE Refresh(r.kind, r)
    BY <2>1, <2>2, <2>3, <2>4, RefreshLoads
  <2>5. CASE net' = net \ {r} /\ excused' = excused \union {r.kind} /\ UNCHANGED <<dst, rows>>
    BY <2>1, <2>3, <2>5, SameView, CalmAsks
  <2>6. QED
    BY <2>1, <2>4, <2>5
<1>5. CASE CollectionArrives(r) \/ ChildCreated(r)
  <2>1. /\ r.op = "collect" \/ (r.op = "create" /\ r.then # 0)
        /\ UNCHANGED <<server, stack, dst, rows, excused, opened, astray>>
        /\ \/ net' = net \ {r}
           \/ \E op, kind, link, body, then :
                op # "list" /\ net' = (net \ {r}) \union {Request(op, kind, link, body, then)}
    BY <1>5 DEF CollectionArrives, ChildCreated, Answered, page
  <2>2. \A k \in Kinds : ~Pends(r, k)
    BY <2>1 DEF Pends
  <2>3. \/ net' = net \ {r}
        \/ \E q : net' = (net \ {r}) \union {q} /\ q.op # "list"
    BY <2>1, RequestFacts
  <2>4. r.op # "list"
    BY <2>1
  <2>5. \A k \in Kinds : InView(k)' => InView(k)
    BY <2>1, SameView
  <2>6. PICK rest : rest = net \ {r}
    OBVIOUS
  <2>7. /\ rest \subseteq net
        /\ \A s \in net \ rest : s.op # "list" /\ \A k \in Kinds : Pends(s, k) => k \in excused'
    BY <2>2, <2>4, <2>6
  <2>8. net' = rest \/ \E q : net' = rest \union {q} /\ q.op # "list"
    BY <2>3, <2>6
  <2>9. UNCHANGED <<server, dst, rows, opened>> /\ excused \subseteq excused' /\ (astray => astray')
    BY <2>1
  <2>10. QED
    BY <2>5, <2>7, <2>8, <2>9, CalmAsks
<1>6. CASE NetworkCreated(r)
  <2>1. /\ r.op = "create" /\ r.then = 0 /\ UNCHANGED <<server, stack, opened, astray>>
        /\ Refresh("network", r)
    BY <1>6 DEF NetworkCreated, Answered
  <2>2. \A k \in Kinds : Pends(r, k) => k = "network"
    BY <1>0, <2>1 DEF Pends, AsksOK
  <2>3. "network" \in Edited
    BY DEF Edited
  <2>4. QED
    BY <2>1, <2>2, <2>3, RefreshLoads
<1>7. CASE Related(r)
  <2>1. /\ r.op = "relate" /\ UNCHANGED <<server, stack, opened, astray>>
        /\ Refresh(closures[r.then].kind, r)
    BY <1>7 DEF Related, Answered
  <2>2. closures[r.then].kind = r.kind /\ r.kind \in Edited
    BY <2>1, RelateFacts, KindFacts
  <2>3. \A k \in Kinds : Pends(r, k) => k = r.kind
    BY DEF Pends
  <2>4. QED
    BY <2>1, <2>2, <2>3, RefreshLoads
<1>8. QED
  BY <1>1, <1>2, <1>3, <1>4, <1>5, <1>6, <1>7 DEF Handle

LEMMA TableCases ==
  ASSUME TypeInv, OrderInv, [Next]_vars
  PROVE  \/ Calm
         \/ \E t, p, rest : TableLoads(t, p, rest)
         \/ \E r \in Lists : ListArrives(r)
         \/ \E r \in net : Serve(r) \/ Fail(r)
<1>1. CASE UNCHANGED vars
  <2>1. UNCHANGED <<server, dst, rows, opened, excused, astray, net, stack>>
    BY <1>1 DEF vars, page, history
  <2>2. QED
    BY <2>1, SameView, CalmClick
<1>2. ASSUME NEW r \in net, Handle(r)
      PROVE  Calm \/ (\E t, p, rest : TableLoads(t, p, rest)) \/ \E s \in Lists : ListArrives(s)
  BY <1>2, TableHandles
<1>3. QED
  BY <1>1, <1>2, TableClicks DEF Next

\* A list that is served stays a list, of the same table.
ListServed(r, a) ==
  /\ r.code = 0 /\ a.op = r.op /\ a.kind = r.kind /\ a.link = r.link
  /\ Lists' = IF r.op = "list" THEN (Lists \ {r}) \union {a} ELSE Lists

LEMMA ServedLists ==
  ASSUME NEW r \in net, NEW a, Served(r, a)
  PROVE  ListServed(r, a)
<1>1. a.op = r.op /\ a.kind = r.kind /\ a.link = r.link /\ net' = (net \ {r}) \union {a} /\ r.code = 0
  BY DEF Served
<1>2. Lists' = IF r.op = "list" THEN (Lists \ {r}) \union {a} ELSE Lists
  BY <1>1 DEF Lists, InFlight
<1>3. QED
  BY <1>1, <1>2 DEF ListServed

LEMMA ListGone ==
  ASSUME NEW r, ListArrives(r)
  PROVE  Lists' = Lists \ {r} /\ UNCHANGED <<dst, opened, astray, server>>
BY DEF ListArrives, Lists, InFlight

LEMMA GateStep ==
  ASSUME TypeInv, OrderInv, GateInv, [Next]_vars
  PROVE  GateInv'
<1>1. CASE Calm
  <2>1. Lists' = Lists /\ excused \subseteq excused' /\ dst' = dst
    BY <1>1 DEF Calm
  <2>2. QED
    BY <2>1 DEF GateInv
<1>2. ASSUME NEW t, NEW p, NEW rest, TableLoads(t, p, rest) PROVE GateInv'
  <2>1. PICK q : Loading(t, p, rest, q)
    BY <1>2 DEF TableLoads
  <2>2. q.kind = t /\ dst' = t /\ Lists' = Lists \union {q}
    BY <2>1 DEF Loading
  <2>3. CASE Lists = {}
    BY <2>2, <2>3 DEF GateInv
  <2>4. CASE Lists # {}
    <3>1. excused' = excused \union {r.kind : r \in Lists} \union {t}
      BY <2>1, <2>4 DEF Loading
    <3>2. dst' \in excused' /\ \A r \in Lists' : r.kind \in excused'
      BY <2>2, <3>1
    <3>3. QED
      BY <3>2 DEF GateInv
  <2>5. QED
    BY <2>3, <2>4
<1>3. ASSUME NEW r \in Lists, ListArrives(r) PROVE GateInv'
  <2>1. Lists' = Lists \ {r} /\ dst' = dst /\ excused \subseteq excused'
    BY <1>3, ListGone DEF ListArrives
  <2>2. QED
    BY <1>3, <2>1 DEF GateInv
<1>4. ASSUME NEW r \in net, Serve(r) \/ Fail(r) PROVE GateInv'
  <2>1. UNCHANGED <<dst, excused>>
    BY <1>4 DEF Serve, Fail, page
  <2>2. PICK a : ListServed(r, a)
    BY <1>4, ServeShape, ServedLists
  <2>3. CASE r.op # "list"
    BY <2>1, <2>2, <2>3 DEF GateInv, ListServed
  <2>4. CASE r.op = "list"
    <3>1. r \in Lists /\ Lists' = (Lists \ {r}) \union {a} /\ a.kind = r.kind
      BY <2>2, <2>4 DEF ListServed, Lists, InFlight
    <3>2. QED
      BY <2>1, <3>1 DEF GateInv
  <2>5. QED
    BY <2>3, <2>4
<1>5. QED
  BY <1>1, <1>2, <1>3, <1>4, TableCases

LEMMA SameList ==
  ASSUME UNCHANGED server, NEW k, opened'[k] = opened[k]
  PROVE  /\ Children(k, opened[k])' = Children(k, opened[k])
         /\ Live(opened[k])' = Live(opened[k])
<1>1. PICK p : p = opened[k] /\ p = opened'[k]
  OBVIOUS
<1>2. status' = status /\ parent' = parent
  BY DEF server
<1>3. Children(k, p)' = Children(k, p)
  BY <1>2, SameChildren
<1>4. Live(p)' = Live(p)
  BY <1>2 DEF Live
<1>5. QED
  BY <1>1, <1>3, <1>4

\* What is outdated stays so until its answer is handled.
LEMMA SameOutdated ==
  ASSUME UNCHANGED server, NEW k, opened'[k] = opened[k], Outdated(k),
         \A r \in net \ net' : ~Pends(r, k)
  PROVE  Outdated(k)'
<1>1. Live(opened[k])' = Live(opened[k])
  BY SameList
<1>2. CASE k # "network" /\ ~Live(opened[k])
  BY <1>1, <1>2 DEF Outdated
<1>3. ASSUME NEW r \in net, Pends(r, k) PROVE Outdated(k)'
  <2>1. r \in net'
    BY <1>3
  <2>2. Pends(r, k)'
    BY <1>3 DEF Pends
  <2>3. QED
    BY <2>1, <2>2 DEF Outdated
<1>4. QED
  BY <1>2, <1>3 DEF Outdated

\* Nothing comes back to life.
LEMMA GoneStays ==
  ASSUME TypeInv, KnownInv, [Next]_vars, NEW k \in Kinds, UNCHANGED opened, ~Live(opened[k])
  PROVE  ~Live(opened[k])'
<1>1. PICK i : i = opened[k] /\ i = opened'[k]
  OBVIOUS
<1>2. SUFFICES ASSUME i \in Items, status'[i] = "live" PROVE FALSE
  BY <1>1 DEF Live
<1>3. status[i] # "free"
  BY <1>1, <1>2 DEF KnownInv, Known
<1>4. status[i] = "live"
  BY <1>2, <1>3, LiveStep
<1>5. QED
  BY <1>1, <1>2, <1>4 DEF Live

LEMMA FreshCalm ==
  ASSUME FreshInv, Calm
  PROVE  FreshInv'
<1> SUFFICES ASSUME ~astray', NEW k \in Kinds \ excused', InView(k)' \/ k = "log"
             PROVE  Fresh(k)'
  BY DEF FreshInv
<1>1. /\ Lists' = Lists /\ UNCHANGED <<server, rows, opened>> /\ ~astray /\ k \notin excused
      /\ InView(k) \/ k = "log"
      /\ \A r \in net \ net' : ~Pends(r, k)
  BY DEF Calm
<1>2. Fresh(k)
  BY <1>1 DEF FreshInv
<1>3. /\ Children(k, opened[k])' = Children(k, opened[k])
      /\ Outdated(k) => Outdated(k)'
  BY <1>1, SameList, SameOutdated
<1>4. QED
  BY <1>1, <1>2, <1>3 DEF Fresh

LEMMA FreshLoads ==
  ASSUME TypeInv, FreshInv, NEW t, NEW p, NEW rest, TableLoads(t, p, rest)
  PROVE  FreshInv'
<1> SUFFICES ASSUME ~astray', NEW k \in Kinds \ excused', InView(k)' \/ k = "log"
             PROVE  Fresh(k)'
  BY DEF FreshInv
<1>1. PICK q : Loading(t, p, rest, q)
  BY DEF TableLoads
<1>2. /\ q.kind = t /\ q.link = p /\ q.code = 0 /\ Lists' = Lists \union {q}
      /\ rows' = [rows EXCEPT ![t] = <<>>] /\ net' = rest \union {q}
  BY <1>1 DEF Loading
<1>3. rows \in [Kinds -> Seq(Items)] /\ t \in Kinds
  BY DEF TypeInv, PageOK, TableLoads
<1>4. /\ Lists # {} => k # t /\ k \notin excused /\ \A r \in Lists : r.kind # k
      /\ Lists = {} => k = t \/ k \notin excused
  <2>1. Lists # {} => excused' = excused \union {r.kind : r \in Lists} \union {t}
    BY <1>1 DEF Loading
  <2>2. Lists = {} => excused' = excused \ {t}
    BY <1>1 DEF Loading
  <2>3. QED
    BY <2>1, <2>2
<1>5. CASE k = t
  <2>1. Lists' = {q}
    BY <1>2, <1>4, <1>5
  <2>2. p = opened'[t]
    BY <1>5 DEF TableLoads
  <2>3. rows'[k] = <<>>
    BY <1>2, <1>3, <1>5
  <2>4. q.code \in {0, 500} /\ q.kind = k /\ q.link = opened'[k]
    BY <1>2, <1>5, <2>2
  <2>5. QED
    BY <2>1, <2>3, <2>4 DEF Fresh
<1>6. CASE k # t
  <2>1. /\ opened'[k] = opened[k] /\ UNCHANGED server /\ ~astray /\ rest \subseteq net
        /\ InView(k) \/ k = "log"
        /\ \A r \in net \ rest : ~Pends(r, k)
    BY <1>6 DEF TableLoads
  <2>2. k \notin excused /\ \A r \in Lists : r.kind # k
    BY <1>4, <1>6
  <2>3. rows[k] = Children(k, opened[k]) \/ Outdated(k)
    BY <2>1, <2>2 DEF FreshInv, Fresh
  <2>4. rows'[k] = rows[k]
    BY <1>2, <1>3, <1>6
  <2>5. \A r \in net \ net' : ~Pends(r, k)
    BY <1>2, <2>1
  <2>6. rows'[k] = Children(k, opened[k])' \/ Outdated(k)'
    BY <2>1, <2>3, <2>4, <2>5, SameList, SameOutdated
  <2>7. \A r \in Lists' : r.kind # k
    BY <1>2, <1>6, <2>2
  <2>8. QED
    BY <2>6, <2>7 DEF Fresh
<1>7. QED
  BY <1>5, <1>6

LEMMA JoinedEmpty ==
  ASSUME NEW q \in Seq(Items)
  PROVE  Joined(<<>>, q) = q
<1>1. SubSeq(q, 1, Len(q)) = q
  OBVIOUS
<1>2. <<>> \o q = q
  OBVIOUS
<1>3. QED
  BY <1>1, <1>2 DEF Joined

LEMMA FreshArrives ==
  ASSUME TypeInv, GateInv, FreshInv, NEW r \in Lists, ListArrives(r)
  PROVE  FreshInv'
<1> SUFFICES ASSUME ~astray', NEW k \in Kinds \ excused', InView(k)' \/ k = "log"
             PROVE  Fresh(k)'
  BY DEF FreshInv
<1>0. r \in net /\ r.op = "list" /\ r.code # 0 /\ net' = net \ {r}
  BY DEF Lists, InFlight, ListArrives, Answered, Waiting
<1>1. Lists' = Lists \ {r} /\ UNCHANGED <<dst, opened, astray, server>>
  BY ListGone
<1>2. \/ Succeeds(r) /\ rows' = [rows EXCEPT ![dst] = Joined(@, r.data)] /\ excused' = excused
      \/ excused' = excused \union {r.kind} /\ rows' = rows
  BY DEF ListArrives
<1>3. k \notin excused /\ rows \in [Kinds -> Seq(Items)] /\ dst \in Kinds
  BY <1>2 DEF TypeInv, PageOK
<1>4. InView(k) \/ k = "log"
  <2>1. stack' = Open(<<"list", "log">>) \/ stack' = stack
    BY DEF ListArrives
  <2>2. PICK d \in Dialogs : d = <<"list", "log">>
    BY DialogFacts DEF Kinds
  <2>3. k # "log" => d # <<"list", k>>
    BY <2>2
  <2>4. QED
    BY <2>1, <2>2, <2>3, OpenedView, SameView
<1>5. Fresh(k)
  BY <1>1, <1>3, <1>4 DEF FreshInv
<1>6. \A s \in net \ net' : ~Pends(s, k)
  BY <1>0 DEF Pends
<1>7. /\ Children(k, opened[k])' = Children(k, opened[k])
      /\ Outdated(k) => Outdated(k)'
  <2>1. opened'[k] = opened[k] /\ UNCHANGED server
    BY <1>1
  <2>2. QED
    BY <1>6, <2>1, SameList, SameOutdated
<1>8. CASE r.kind = k
  <2>1. dst = k /\ Lists = {r}
    BY <1>3, <1>8 DEF GateInv
  <2>2. Succeeds(r) /\ rows' = [rows EXCEPT ![dst] = Joined(@, r.data)]
    BY <1>2, <1>8
  <2>3. r.code = 200 /\ r.data \in Seq(Items)
    BY <1>0, <2>2, ListAnswer DEF ListOf
  <2>4. rows[k] = <<>> /\ (r.data = Children(k, opened[k]) \/ Outdated(k))
    BY <1>5, <1>8, <2>3 DEF Fresh
  <2>5. rows'[k] = r.data
    BY <1>3, <2>1, <2>2, <2>3, <2>4, JoinedEmpty
  <2>6. Lists' = {}
    BY <1>1, <2>1
  <2>7. QED
    BY <1>7, <2>4, <2>5, <2>6 DEF Fresh
<1>9. CASE r.kind # k
  <2>1. dst # k
    BY <1>3, <1>9 DEF GateInv
  <2>2. rows'[k] = rows[k]
    BY <1>2, <1>3, <2>1
  <2>3. \A s \in Lists : s.kind = k => s \in Lists'
    BY <1>1, <1>9
  <2>4. opened'[k] = opened[k] /\ Lists' \subseteq Lists
    BY <1>1
  <2>5. (\A s \in Lists' : s.kind # k) => rows'[k] = Children(k, opened[k])' \/ Outdated(k)'
    BY <1>5, <1>7, <2>2, <2>3 DEF Fresh
  <2>6. ASSUME NEW s \in Lists', s.kind = k
        PROVE  /\ rows'[k] = <<>> /\ s.link = opened'[k]
               /\ s.code \in {0, 500} \/ s.data = Children(k, opened[k])' \/ Outdated(k)'
    BY <1>5, <1>7, <2>2, <2>4, <2>6 DEF Fresh
  <2>7. QED
    BY <2>5, <2>6 DEF Fresh
<1>10. QED
  BY <1>8, <1>9

LEMMA FreshServed ==
  ASSUME TypeInv, KnownInv, NewInv, BodyInv, OneInv, FreshInv, [Next]_vars,
         NEW r \in net, Serve(r) \/ Fail(r)
  PROVE  FreshInv'
<1> SUFFICES ASSUME ~astray', NEW k \in Kinds \ excused', InView(k)' \/ k = "log"
             PROVE  Fresh(k)'
  BY DEF FreshInv
<1>1. UNCHANGED <<rows, excused, opened, stack, astray>>
  BY DEF Serve, Fail, page
<1>2. PICK a : Served(r, a)
  BY ServeShape
<1>3. ListServed(r, a)
  BY <1>2, ServedLists
<1>4. r.code = 0 /\ net' = (net \ {r}) \union {a}
  BY <1>2 DEF Served
<1>5. Fresh(k)
  BY <1>1, SameView DEF FreshInv
<1>6. Children(k, opened[k])' = Children(k, opened[k]) \/ Outdated(k)'
  BY <1>1, <1>2, ServedChildren
<1>7. Outdated(k) => Outdated(k)'
  <2>1. CASE k # "network" /\ ~Live(opened[k])
    BY <1>1, <2>1, GoneStays DEF Outdated
  <2>2. ASSUME NEW s \in net, Pends(s, k) PROVE Outdated(k)'
    <3>1. s \in net'
      BY <1>4, <2>2 DEF Pends
    <3>2. Pends(s, k)'
      BY <2>2 DEF Pends
    <3>3. QED
      BY <3>1, <3>2 DEF Outdated
  <2>3. QED
    BY <2>1, <2>2 DEF Outdated
<1>8. \A s \in Lists' : s \in Lists \/ (s = a /\ r \in Lists /\ s.kind = r.kind /\ s.link = r.link)
  BY <1>3 DEF ListServed, Lists, InFlight
<1>9. \A s \in Lists : s \in Lists' \/ (a \in Lists' /\ a.kind = s.kind)
  BY <1>3 DEF ListServed
<1>10. (\A s \in Lists' : s.kind # k) => rows'[k] = Children(k, opened[k])' \/ Outdated(k)'
  BY <1>1, <1>5, <1>6, <1>7, <1>9 DEF Fresh
<1>11. ASSUME NEW s \in Lists', s.kind = k
       PROVE  /\ rows'[k] = <<>> /\ s.link = opened'[k]
              /\ s.code \in {0, 500} \/ s.data = Children(k, opened[k])' \/ Outdated(k)'
  <2>1. CASE s \in Lists
    BY <1>1, <1>5, <1>6, <1>7, <1>11, <2>1 DEF Fresh
  <2>2. CASE s = a /\ r \in Lists /\ s.kind = r.kind /\ s.link = r.link
    <3>1. rows[k] = <<>> /\ r.link = opened[k] /\ r.kind = k /\ r.op = "list"
      BY <1>5, <1>11, <2>2 DEF Fresh, Lists, InFlight
    <3>2. a.code = 500 \/ a.data = Children(k, opened[k])
      BY <1>2, <3>1 DEF Served
    <3>3. QED
      BY <1>1, <1>6, <2>2, <3>1, <3>2
  <2>3. QED
    BY <1>8, <2>1, <2>2
<1>12. QED
  BY <1>10, <1>11 DEF Fresh

LEMMA FreshStep ==
  ASSUME TypeInv, KnownInv, OrderInv, NewInv, BodyInv, OneInv, GateInv, FreshInv, [Next]_vars
  PROVE  FreshInv'
BY TableCases, FreshCalm, FreshLoads, FreshArrives, FreshServed

LEMMA FreshInit ==
  ASSUME Init, TypeInv
  PROVE  OneInv /\ GateInv /\ FreshInv
<1>1. net = {} /\ closures = <<>> /\ Lists = {} /\ 1..Len(closures) = {} /\ Appends = {}
  BY DEF Init, Lists, InFlight, Appends
<1>2. OneInv
  BY <1>1 DEF OneInv, Claimed
<1>3. GateInv
  BY <1>1 DEF GateInv
<1>4. rows["network"] = Children("network", opened["network"])
  <2>1. opened["network"] = None
    BY DEF TypeInv, PageOK
  <2>2. {i \in Items : status[i] = "live" /\ KindOf[i] = "network" /\ parent[i] = None}
          = {i \in Stored : KindOf[i] = "network"}
    BY ClientAssumption DEF Init, TypeInv, ServerOK
  <2>3. rows["network"] = Listed({i \in Stored : KindOf[i] = "network"})
    BY DEF Init, Kinds
  <2>4. QED
    BY <2>1, <2>2, <2>3 DEF Children
<1>5. ASSUME NEW k \in Kinds PROVE k = "network" \/ ~Live(opened[k])
  BY KindFacts DEF Init, Live
<1>6. \A k \in Kinds : Fresh(k)
  BY <1>1, <1>4, <1>5 DEF Fresh, Outdated
<1>7. QED
  BY <1>2, <1>3, <1>6 DEF FreshInv

\* When nothing is under way, a table in view shows what the server has for the
\* item whose list was opened, in the server's order, unless its load overlapped
\* another or an answer was lost, or a row in a wrong table was clicked
\* (dst_element_id, the refreshes after each change, d3's data join).
THEOREM QuietTables == Spec => []QuietTablesAreFresh
<1>1. Init => TypeInv /\ OneInv /\ GateInv /\ FreshInv
  BY TypeInit, FreshInit
<1>2. /\ TypeInv /\ KnownInv /\ OrderInv /\ AppendInv /\ OneInv /\ GateInv /\ FreshInv
      /\ [Next]_vars
      => OneInv' /\ GateInv' /\ FreshInv'
  BY OneStep, GateStep, FreshStep DEF AppendInv
<1>3. FreshInv => QuietTablesAreFresh
  <2> SUFFICES ASSUME FreshInv, NEW t \in Kinds, net = {}, InView(t), t \notin excused, ~astray,
                      t = "network" \/ Live(opened[t])
               PROVE  rows[t] = Children(t, opened[t])
    BY DEF QuietTablesAreFresh
  <2>1. Fresh(t) /\ Lists = {}
    BY DEF FreshInv, Lists, InFlight
  <2>2. ~Outdated(t)
    BY DEF Outdated
  <2>3. QED
    BY <2>1, <2>2 DEF Fresh
<1>4. QED
  BY <1>1, <1>2, <1>3, Inductive, PTL DEF Spec

=============================================================================
