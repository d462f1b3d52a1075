--------------------------- MODULE Provider_proofs ---------------------------
(***************************************************************************)
(* Proofs about Provider: its types, with the tokens that never lead past  *)
(* the pages of their plan, the counting of the accesses, and the listings *)
(* that implement PagedListing, for every number of networks, snapshots,   *)
(* clients, changes and losses.                                            *)
(***************************************************************************)
EXTENDS Provider, TLAPS, SequenceTheorems

Plans == Seq([snapshot : Snapshots, pages : Nat])

\* A state, in a token or in a request.
GoodState(s) == s \in States /\ WellPlaced(s) /\ Pinned(s.plan)

\* A request, with what it knows at each point of listRecords.
GoodCall(r) ==
  /\ r \in CallType
  /\ GoodState(r.state)
  /\ Planned(r.plan) /\ Pinned(r.plan)
  /\ r.pc = "pages" => r.found \in harvested
  /\ r.pc = "page" => r.state.plan # <<>>
  /\ r.pc = "answer" /\ r.answer = "page" =>
       /\ r.state.plan # <<>>
       /\ r.state.page < r.state.plan[r.state.index].pages

\* The variables that are not about one client.
SharedOK ==
  /\ published \subseteq Networks
  /\ valid \subseteq harvested /\ harvested \subseteq Snapshots
  /\ pages \in [Snapshots -> Nat]
  /\ \A s \in Snapshots : pages[s] \in {0, PagesOf[s]}
  /\ requests \in [Addresses -> Nat] /\ accesses \in [Addresses -> Nat]
  /\ overlapped \subseteq Addresses
  /\ changes \in 0..MaxChanges /\ losses \in 0..MaxLosses

ClientsOK ==
  /\ call \in [Clients -> CallType]
  /\ token \in [Clients -> States]
  /\ given \in [Clients -> Seq((Nat \ {0}) \X Nat)]
  /\ outcome \in [Clients -> {"open", "whole", "broken"}]
  /\ \A c \in Clients : GoodCall(call[c]) /\ GoodState(token[c])

TInv == SharedOK /\ ClientsOK

-----------------------------------------------------------------------------
(* Types. *)

LEMMA TInvTypes == TInv => TypeOK
  BY DEF TInv, SharedOK, ClientsOK, TypeOK, GoodCall, GoodState

LEMMA NoStateIsGood == GoodState(NoState)
  BY DEF GoodState, NoState, States, WellPlaced, Planned, Pinned

LEMMA IdleIsGood == GoodCall(Idle)
<1>1. NoState \in States /\ GoodState(NoState)
  BY NoStateIsGood DEF GoodState
<1>2. <<>> \in Plans /\ Len(<<>>) = 0
  BY DEF Plans
<1>3. AllSets \in {AllSets} \union UNION {SetsOf[c] : c \in Clients}
  OBVIOUS
<1>4. Idle \in CallType
  BY <1>1, <1>2, <1>3 DEF Idle, CallType, Plans
<1>5. Planned(<<>>) /\ Pinned(<<>>)
  BY <1>2 DEF Planned, Pinned
<1> QED
  BY <1>1, <1>4, <1>5 DEF GoodCall, Idle

LEMMA InitTInv == Init => TInv
<1> SUFFICES ASSUME Init PROVE TInv
  OBVIOUS
<1>1. SharedOK
  BY ProviderAssumption DEF Init, SharedOK
<1>2. Idle \in CallType /\ NoState \in States
  BY IdleIsGood, NoStateIsGood DEF GoodCall, GoodState
<1>3. ClientsOK
  BY <1>2, IdleIsGood, NoStateIsGood DEF Init, ClientsOK
<1>4. QED
  BY <1>1, <1>3 DEF TInv

\* A step of one client's request that leaves the database alone.
LEMMA GoodReplace ==
  ASSUME TInv, NEW c \in Clients, NEW r, GoodCall(r),
         call' = [call EXCEPT ![c] = r],
         UNCHANGED <<database, client, changes, losses>>,
         requests' \in [Addresses -> Nat], accesses' \in [Addresses -> Nat],
         overlapped' \subseteq Addresses
  PROVE  TInv'
<1> USE DEF TInv, database, client
<1>1. SharedOK'
  BY DEF SharedOK
<1>2. r \in CallType
  BY DEF GoodCall
<1>3. call' \in [Clients -> CallType]
  BY <1>2 DEF ClientsOK
<1>4. ASSUME NEW d \in Clients PROVE GoodCall(call[d])' /\ GoodState(token[d])'
  <2>1. GoodCall(call[d]) /\ GoodState(token[d])
    BY DEF ClientsOK
  <2>2. call'[d] = IF d = c THEN r ELSE call[d]
    BY DEF ClientsOK
  <2>3. harvested' = harvested /\ pages' = pages /\ token' = token
    OBVIOUS
  <2>4. GoodState(token[d])'
    BY <2>1, <2>3 DEF GoodState, Pinned
  <2>5. GoodCall(call[d])'
    BY <2>1, <2>2, <2>3 DEF GoodCall, GoodState, Pinned
  <2> QED
    BY <2>4, <2>5
<1>5. ClientsOK'
  BY <1>3, <1>4 DEF ClientsOK
<1> QED
  BY <1>1, <1>5

\* What an action of one request must make of it.
LEMMA AskTInv ==
  ASSUME TInv, NEW c \in Clients, Ask(c)
  PROVE  TInv'
<1> USE DEF TInv
<1>1. GoodCall(call[c]) /\ GoodState(token[c])
  BY DEF ClientsOK
<1>2. AddressOf[c] \in Addresses /\ requests[AddressOf[c]] \in Nat
  BY DEF SharedOK, Addresses
<1>3. PICK set \in IF token[c].plan = <<>> THEN SetsOf[c] ELSE {AllSets} :
        call' = [call EXCEPT ![c] = [Idle EXCEPT
          !.pc = "save", !.set = set, !.state = token[c],
          !.seen = requests[AddressOf[c]]]]
  BY DEF Ask
<1> DEFINE r == [Idle EXCEPT !.pc = "save", !.set = set, !.state = token[c],
                             !.seen = requests[AddressOf[c]]]
<1>4. set \in {AllSets} \union UNION {SetsOf[d] : d \in Clients}
  OBVIOUS
<1>5. r \in CallType
  BY <1>1, <1>2, <1>4, IdleIsGood DEF GoodCall, GoodState, CallType, Idle
<1>6. GoodCall(r)
  BY <1>1, <1>5, IdleIsGood DEF GoodCall, Idle
<1>7. call' = [call EXCEPT ![c] = r]
  BY <1>3
<1>8. /\ UNCHANGED <<database, client, changes, losses>>
      /\ requests' \in [Addresses -> Nat] /\ accesses' \in [Addresses -> Nat]
      /\ overlapped' \subseteq Addresses
  BY <1>2 DEF Ask, SharedOK
<1> HIDE DEF r
<1> QED
  BY <1>6, <1>7, <1>8, GoodReplace

LEMMA SaveStatTInv ==
  ASSUME TInv, NEW c \in Clients, SaveStat(c)
  PROVE  TInv'
<1> USE DEF TInv
<1>1. GoodCall(call[c])
  BY DEF ClientsOK
<1>2. AddressOf[c] \in Addresses /\ call[c].seen \in Nat
  BY <1>1 DEF Addresses, GoodCall, CallType
<1> DEFINE r == [call[c] EXCEPT !.seen = 0, !.pc =
                   IF call[c].state.plan = <<>> THEN "networks" ELSE "page"]
<1>3. GoodCall(r)
  BY <1>1 DEF GoodCall, CallType
<1>4. call' = [call EXCEPT ![c] = r]
  BY DEF SaveStat, ClientsOK
<1>5. /\ UNCHANGED <<database, client, changes, losses>>
      /\ requests' \in [Addresses -> Nat] /\ accesses' \in [Addresses -> Nat]
      /\ overlapped' \subseteq Addresses
  BY <1>2 DEF SaveStat, SharedOK
<1> HIDE DEF r
<1> QED
  BY <1>3, <1>4, <1>5, GoodReplace

\* The steps that touch nothing but the request.
LEMMA StepIsGood ==
  ASSUME TInv, NEW c \in Clients, NEW r, GoodCall(r),
         call' = [call EXCEPT ![c] = r],
         UNCHANGED <<database, counting, client, changes, losses>>
  PROVE  TInv'
<1>1. /\ UNCHANGED <<database, client, changes, losses>>
      /\ requests' \in [Addresses -> Nat] /\ accesses' \in [Addresses -> Nat]
      /\ overlapped' \subseteq Addresses
  BY DEF TInv, SharedOK, counting
<1> QED
  BY <1>1, GoodReplace

LEMMA LookupTInv ==
  ASSUME TInv, NEW c \in Clients,
         SaveStatFails(c) \/ FindNetworks(c) \/ UnknownSet(c) \/ FindSnapshot(c)
  PROVE  TInv'
<1> USE DEF TInv
<1>1. GoodCall(call[c])
  BY DEF ClientsOK
<1>2. CASE SaveStatFails(c)
  BY <1>2, StepIsGood, IdleIsGood DEF SaveStatFails
<1>3. CASE FindNetworks(c)
  <2> DEFINE r == [call[c] EXCEPT !.pc = "snapshot",
                     !.rest = {n \in DOMAIN ByName :
                        IF call[c].set = AllSets THEN ByName[n] \in published
                        ELSE ByName[n] = call[c].set}]
  <2>1. GoodCall(r)
    BY <1>1 DEF GoodCall, CallType
  <2>2. call' = [call EXCEPT ![c] = r]
    BY <1>3 DEF FindNetworks, ClientsOK
  <2>3. UNCHANGED <<database, counting, client, changes, losses>>
    BY <1>3 DEF FindNetworks
  <2> HIDE DEF r
  <2> QED
    BY <2>1, <2>2, <2>3, StepIsGood
<1>4. CASE UnknownSet(c)
  <2> DEFINE r == [call[c] EXCEPT !.pc = "answer", !.answer = "error"]
  <2>1. GoodCall(r)
    BY <1>1 DEF GoodCall, CallType
  <2>2. call' = [call EXCEPT ![c] = r]
    BY <1>4 DEF UnknownSet, ClientsOK
  <2>3. UNCHANGED <<database, counting, client, changes, losses>>
    BY <1>4 DEF UnknownSet
  <2> HIDE DEF r
  <2> QED
    BY <2>1, <2>2, <2>3, StepIsGood
<1>5. CASE FindSnapshot(c)
  <2>1. UNCHANGED <<database, counting, client, changes, losses>>
    BY <1>5 DEF FindSnapshot
  <2>2. PICK n \in call[c].rest :
          \/ call' = [call EXCEPT ![c].rest = call[c].rest \ {n}]
          \/ \E s \in LastGoodKnown(ByName[n]) :
               call' = [call EXCEPT ![c].pc = "pages",
                          ![c].rest = call[c].rest \ {n}, ![c].found = s]
    BY <1>5 DEF FindSnapshot
  <2>3. CASE call' = [call EXCEPT ![c].rest = call[c].rest \ {n}]
    <3> DEFINE r == [call[c] EXCEPT !.rest = call[c].rest \ {n}]
    <3>1. GoodCall(r)
      BY <1>1 DEF GoodCall, CallType
    <3>2. call' = [call EXCEPT ![c] = r]
      BY <2>3 DEF ClientsOK
    <3> HIDE DEF r
    <3> QED
      BY <3>1, <3>2, <2>1, StepIsGood
  <2>4. CASE \E s \in LastGoodKnown(ByName[n]) :
               call' = [call EXCEPT ![c].pc = "pages",
                          ![c].rest = call[c].rest \ {n}, ![c].found = s]
    <3>1. PICK s \in LastGoodKnown(ByName[n]) :
               call' = [call EXCEPT ![c].pc = "pages",
                          ![c].rest = call[c].rest \ {n}, ![c].found = s]
      BY <2>4
    <3> DEFINE r == [call[c] EXCEPT !.pc = "pages",
                          !.rest = call[c].rest \ {n}, !.found = s]
    <3>2. s \in harvested /\ s \in Snapshots
      BY DEF LastGoodKnown, SharedOK
    <3>3. GoodCall(r)
      BY <1>1, <3>2 DEF GoodCall, CallType
    <3>4. call' = [call EXCEPT ![c] = r]
      BY <3>1 DEF ClientsOK
    <3> HIDE DEF r
    <3> QED
      BY <3>3, <3>4, <2>1, StepIsGood
  <2> QED
    BY <2>2, <2>3, <2>4
<1> QED
  BY <1>2, <1>3, <1>4, <1>5

LEMMA CountPagesTInv ==
  ASSUME TInv, NEW c \in Clients, CountPages(c)
  PROVE  TInv'
<1> USE DEF TInv
<1>1. GoodCall(call[c])
  BY DEF ClientsOK
<1> DEFINE f == call[c].found
           e == [snapshot |-> f, pages |-> pages[f]]
           longer == Append(call[c].plan, e)
           r == [call[c] EXCEPT !.pc = "snapshot", !.found = 0, !.plan = longer]
<1>2. /\ f \in harvested /\ f \in Snapshots
      /\ pages[f] \in Nat /\ pages[f] \in {0, PagesOf[f]}
  BY <1>1 DEF CountPages, Goes, GoodCall, SharedOK
<1>3. call[c].plan \in Plans /\ e \in [snapshot : Snapshots, pages : Nat]
  BY <1>1, <1>2 DEF GoodCall, CallType, Plans
<1> HIDE DEF e
<1>4. /\ longer \in Plans
      /\ Len(longer) = Len(call[c].plan) + 1
      /\ \A n \in 1..Len(call[c].plan) : longer[n] = call[c].plan[n]
      /\ longer[Len(call[c].plan) + 1] = e
  BY <1>3, AppendProperties DEF Plans
<1>5. ASSUME NEW n \in 1..Len(longer)
      PROVE n \in 1..Len(call[c].plan) \/ longer[n] = e
  BY <1>3, <1>4 DEF Plans
<1>6. e.snapshot = f /\ e.pages = pages[f]
  BY DEF e
<1> HIDE DEF f, longer
<1>7. Planned(longer) /\ Pinned(longer)
  BY <1>1, <1>2, <1>4, <1>5, <1>6 DEF GoodCall, Planned, Pinned
<1>8. GoodCall(r)
  BY <1>1, <1>4, <1>7 DEF GoodCall, CallType, Plans
<1>9. call' = [call EXCEPT ![c] = r]
  BY DEF CountPages, ClientsOK, longer, e, f
<1>10. UNCHANGED <<database, counting, client, changes, losses>>
  BY DEF CountPages
<1> HIDE DEF r
<1> QED
  BY <1>8, <1>9, <1>10, StepIsGood

LEMMA InitializeTInv ==
  ASSUME TInv, NEW c \in Clients, Initialize(c)
  PROVE  TInv'
<1> USE DEF TInv
<1>1. GoodCall(call[c])
  BY DEF ClientsOK
<1>2. UNCHANGED <<database, counting, client, changes, losses>>
  BY DEF Initialize
<1>3. CASE call[c].plan = <<>>
  <2> DEFINE r == [call[c] EXCEPT !.pc = "answer", !.answer = "nothing"]
  <2>1. GoodCall(r)
    BY <1>1 DEF GoodCall, CallType
  <2>2. call' = [call EXCEPT ![c] = r]
    BY <1>3 DEF Initialize, ClientsOK
  <2> HIDE DEF r
  <2> QED
    BY <2>1, <2>2, <1>2, StepIsGood
<1>4. CASE call[c].plan # <<>>
  <2> DEFINE s == Initial(call[c].plan)
             r == [call[c] EXCEPT !.pc = "page", !.plan = <<>>, !.state = s]
  <2>1. call[c].plan \in Plans /\ Len(call[c].plan) \in Nat \ {0}
    BY <1>1, <1>4, EmptySeq DEF GoodCall, CallType, Plans
  <2>2. s \in States /\ s.plan = call[c].plan /\ s.plan # <<>>
    BY <2>1, <1>4 DEF Initial, States, Plans
  <2>3. WellPlaced(s)
    BY <1>1, <2>1 DEF Initial, WellPlaced, GoodCall
  <2>4. GoodState(s)
    BY <1>1, <2>2, <2>3 DEF GoodState, GoodCall
  <2>5. Planned(<<>>) /\ Pinned(<<>>) /\ <<>> \in Plans
    BY DEF Planned, Pinned, Plans
  <2> HIDE DEF s
  <2>6. GoodCall(r)
    BY <1>1, <2>2, <2>4, <2>5 DEF GoodCall, CallType, Plans
  <2>7. call' = [call EXCEPT ![c] = r]
    BY <1>4 DEF Initialize, ClientsOK, s
  <2> HIDE DEF r
  <2> QED
    BY <2>6, <2>7, <1>2, StepIsGood
<1> QED
  BY <1>3, <1>4

LEMMA EntryOfPlan ==
  ASSUME NEW p \in Plans, NEW n \in 1..Len(p)
  PROVE  /\ p[n] \in [snapshot : Snapshots, pages : Nat]
         /\ p[n].snapshot \in Snapshots /\ p[n].pages \in Nat
<1>1. p[n] \in [snapshot : Snapshots, pages : Nat]
  BY ElementOfSeq DEF Plans
<1> QED
  BY <1>1

\* A page that is there is one of the plan.
LEMMA ThereIsPlanned ==
  ASSUME SharedOK, NEW s, GoodState(s), s.plan # <<>>,
         s.page < pages[s.plan[s.index].snapshot]
  PROVE  s.page < s.plan[s.index].pages
<1> DEFINE e == s.plan[s.index]
<1>1. /\ s.plan \in Plans /\ s.page \in Nat
      /\ s.index \in 1..Len(s.plan)
  BY DEF GoodState, WellPlaced, States, Plans
<1>2. e.snapshot \in Snapshots /\ e.pages \in Nat
  BY <1>1, EntryOfPlan
<1>3. pages[e.snapshot] \in Nat
  BY <1>2 DEF SharedOK
<1>4. e.pages = 0 => pages[e.snapshot] = 0
  BY <1>1 DEF GoodState, Pinned
<1>5. s.page # 0 => s.page < e.pages
  BY DEF GoodState, WellPlaced
<1>6. s.page < pages[e.snapshot]
  OBVIOUS
<1> HIDE DEF e
<1>7. s.page < e.pages
  BY <1>1, <1>2, <1>3, <1>4, <1>5, <1>6
<1> QED
  BY <1>7 DEF e

LEMMA ReadPageTInv ==
  ASSUME TInv, NEW c \in Clients, ReadPage(c)
  PROVE  TInv'
<1> USE DEF TInv
<1>1. GoodCall(call[c])
  BY DEF ClientsOK
<1> DEFINE s == call[c].state
           n == s.index
           there == s.page < pages[s.plan[n].snapshot]
           r == [call[c] EXCEPT !.pc = "answer",
                                !.answer = IF there THEN "page" ELSE "error"]
<1>2. s.plan # <<>> /\ GoodState(s)
  BY <1>1 DEF ReadPage, Goes, GoodCall
<1>5. there => s.page < s.plan[n].pages
  BY <1>2, ThereIsPlanned
<1>6. GoodCall(r)
  BY <1>1, <1>2, <1>5 DEF GoodCall, CallType
<1>7. call' = [call EXCEPT ![c] = r]
  BY DEF ReadPage, ClientsOK
<1>8. UNCHANGED <<database, counting, client, changes, losses>>
  BY DEF ReadPage
<1> HIDE DEF r
<1> QED
  BY <1>6, <1>7, <1>8, StepIsGood

\* update() stays within the plan.
LEMMA UpdatedIsGood ==
  ASSUME SharedOK, NEW s, GoodState(s), s.plan # <<>>,
         s.page < s.plan[s.index].pages
  PROVE  GoodState(Updated(s))
<1>1. /\ s \in States /\ s.plan \in Plans
      /\ s.index \in 1..Len(s.plan) /\ s.page \in Nat
  BY DEF GoodState, WellPlaced, States, Plans
<1>2. s.plan[s.index].pages \in Nat
  BY <1>1, EntryOfPlan
<1>3. Updated(s).plan = s.plan
  BY <1>1 DEF Updated, States
<1>4. Updated(s) \in States
  <2>1. [s EXCEPT !.page = @ + 1] \in States
    BY <1>1 DEF States
  <2>2. [s EXCEPT !.page = 0, !.index = @ + 1] \in States
    <3>1. s.index + 1 \in Nat \ {0}
      BY <1>1 DEF States
    <3> QED
      BY <1>1, <3>1 DEF States
  <2> QED
    BY <1>1, <2>1, <2>2 DEF Updated
<1>5. Updated(s).index <= Len(s.plan)
  BY <1>1 DEF Updated, States, Plans
<1>6. Updated(s).page # 0 => Updated(s).page < s.plan[Updated(s).index].pages
  BY <1>1, <1>2 DEF Updated, AtLastPage, States
<1> QED
  BY <1>3, <1>4, <1>5, <1>6 DEF GoodState, WellPlaced

\* An answer ends the request and may change the token of its client.
LEMMA AnswerTInv ==
  ASSUME TInv, NEW c \in Clients, Receive(c) \/ LoseAnswer(c)
  PROVE  TInv'
<1> USE DEF TInv
<1>1. GoodCall(call[c]) /\ GoodState(token[c])
  BY DEF ClientsOK
<1>2. /\ call' = [call EXCEPT ![c] = Idle]
      /\ UNCHANGED <<database, counting, changes>> /\ losses' \in 0..MaxLosses
  BY ProviderAssumption DEF Receive, LoseAnswer, SharedOK
<1>3. SharedOK'
  BY <1>2 DEF SharedOK, database, counting
<1>4. /\ \/ token' = token
         \/ GoodState(Updated(call[c].state)) /\ token' = [token EXCEPT ![c] = Updated(call[c].state)]
      /\ given' \in [Clients -> Seq((Nat \ {0}) \X Nat)]
      /\ outcome' \in [Clients -> {"open", "whole", "broken"}]
  <2>1. CASE LoseAnswer(c)
    BY <2>1 DEF LoseAnswer, client, ClientsOK
  <2>2. CASE Receive(c) /\ call[c].answer = "page"
    <3> DEFINE s == call[c].state
    <3>1. s.plan # <<>> /\ s.page < s.plan[s.index].pages /\ GoodState(s)
      BY <1>1, <2>2 DEF GoodCall, Receive, Goes
    <3>2. GoodState(Updated(s))
      BY <3>1, UpdatedIsGood
    <3>3. s.index \in Nat \ {0} /\ s.page \in Nat
      BY <3>1 DEF GoodState, States
    <3>4. given[c] \in Seq((Nat \ {0}) \X Nat) /\ <<s.index, s.page>> \in (Nat \ {0}) \X Nat
      BY <3>3 DEF ClientsOK
    <3>5. Append(given[c], <<s.index, s.page>>) \in Seq((Nat \ {0}) \X Nat)
      BY <3>4, AppendProperties
    <3>6. /\ given' = [given EXCEPT ![c] = Append(given[c], <<s.index, s.page>>)]
          /\ token' = [token EXCEPT ![c] = Updated(s)]
          /\ outcome' = [outcome EXCEPT ![c] = IF Finished(s) THEN "whole" ELSE "open"]
      BY <2>2 DEF Receive
    <3> HIDE DEF s
    <3>7. /\ given' \in [Clients -> Seq((Nat \ {0}) \X Nat)]
          /\ outcome' \in [Clients -> {"open", "whole", "broken"}]
      BY <3>5, <3>6 DEF ClientsOK
    <3> QED
      BY <3>2, <3>6, <3>7 DEF s
  <2>3. CASE Receive(c) /\ call[c].answer # "page"
    BY <2>3 DEF Receive, ClientsOK
  <2> QED
    BY <2>1, <2>2, <2>3
<1>5. Idle \in CallType /\ GoodCall(Idle)
  BY IdleIsGood DEF GoodCall
<1>6. call' \in [Clients -> CallType]
  BY <1>2, <1>5 DEF ClientsOK
<1>7. harvested' = harvested /\ pages' = pages
  BY <1>2 DEF database
<1>8. \A d \in Clients : GoodState(token'[d])
  BY <1>4 DEF ClientsOK
<1>9. \A d \in Clients : GoodCall(call'[d])
  BY <1>2, <1>5 DEF ClientsOK
<1>10. token' \in [Clients -> States]
  BY <1>4 DEF ClientsOK, GoodState
<1>11. ASSUME NEW d \in Clients PROVE GoodCall(call[d])' /\ GoodState(token[d])'
  <2>1. GoodState(token[d])'
    BY <1>7, <1>8 DEF GoodState, Pinned
  <2>2. GoodCall(call[d])'
    BY <1>7, <1>9 DEF GoodCall, GoodState, Pinned
  <2> QED
    BY <2>1, <2>2
<1>12. ClientsOK'
  BY <1>4, <1>6, <1>10, <1>11 DEF ClientsOK
<1> QED
  BY <1>3, <1>12

\* The backend keeps what the plans rely on: a harvested snapshot stays one,
\* and one that was emptied is not harvested again.
LEMMA BackendKeeps ==
  ASSUME TInv, Backend
  PROVE  /\ UNCHANGED <<counting, call, client, losses>>
         /\ SharedOK'
         /\ harvested \subseteq harvested'
         /\ \A s \in harvested : pages[s] = 0 => pages'[s] = 0
<1> USE DEF TInv
<1>1. UNCHANGED <<counting, call, client, losses>> /\ changes' \in 0..MaxChanges
  BY ProviderAssumption
  DEF Backend, Harvest, CleanSnapshot, DeleteSnapshot, Publish, Change, Elsewhere, SharedOK
<1>2. /\ SharedOK'
      /\ harvested \subseteq harvested'
      /\ \A s \in harvested : pages[s] = 0 => pages'[s] = 0
  <2>1. ASSUME NEW s \in Snapshots, Harvest(s)
        PROVE  /\ SharedOK'
               /\ harvested \subseteq harvested'
               /\ \A t \in harvested : pages[t] = 0 => pages'[t] = 0
    <3>1. s \notin harvested
      <4>1. s \in Nat /\ ~(s < s)
        BY ProviderAssumption
      <4> QED
        BY <2>1, <4>1 DEF Harvest
    <3>2. PagesOf[s] \in Nat /\ pages' = [pages EXCEPT ![s] = PagesOf[s]]
      BY <2>1, ProviderAssumption DEF Harvest
    <3>3. /\ valid' = valid \union {s} /\ harvested' = harvested \union {s}
          /\ published' = published
      BY <2>1 DEF Harvest
    <3> QED
      BY <1>1, <3>1, <3>2, <3>3 DEF SharedOK, counting
  <2>2. ASSUME NEW s \in Snapshots, CleanSnapshot(s) \/ DeleteSnapshot(s)
        PROVE  /\ SharedOK'
               /\ harvested \subseteq harvested'
               /\ \A t \in harvested : pages[t] = 0 => pages'[t] = 0
    <3>1. /\ pages' = [pages EXCEPT ![s] = 0] /\ valid' \subseteq valid
          /\ harvested' = harvested /\ published' = published
      BY <2>2 DEF CleanSnapshot, DeleteSnapshot
    <3> QED
      BY <1>1, <3>1 DEF SharedOK, counting
  <2>3. ASSUME NEW n \in Networks, Publish(n)
        PROVE  /\ SharedOK'
               /\ harvested \subseteq harvested'
               /\ \A t \in harvested : pages[t] = 0 => pages'[t] = 0
    <3>1. /\ published' \subseteq Networks
          /\ harvested' = harvested /\ valid' = valid /\ pages' = pages
      BY <2>3 DEF Publish, SharedOK
    <3> QED
      BY <1>1, <3>1 DEF SharedOK, counting
  <2> QED
    BY <2>1, <2>2, <2>3 DEF Backend
<1> QED
  BY <1>1, <1>2

LEMMA BackendTInv ==
  ASSUME TInv, Backend
  PROVE  TInv'
<1> USE DEF TInv
<1>1. UNCHANGED <<counting, call, client, losses>>
  BY BackendKeeps
<1>2. /\ SharedOK'
      /\ harvested \subseteq harvested'
      /\ \A s \in harvested : pages[s] = 0 => pages'[s] = 0
  BY BackendKeeps
<1>3. ASSUME NEW d \in Clients PROVE GoodCall(call[d])' /\ GoodState(token[d])'
  <2>1. GoodCall(call[d]) /\ GoodState(token[d])
    BY DEF ClientsOK
  <2>2. call' = call /\ token' = token
    BY <1>1 DEF client
  <2>3. GoodState(token[d])'
    BY <1>2, <2>1, <2>2 DEF GoodState, Pinned
  <2>4. GoodCall(call[d])'
    BY <1>2, <2>1, <2>2 DEF GoodCall, GoodState, Pinned
  <2> QED
    BY <2>3, <2>4
<1>4. ClientsOK'
  BY <1>1, <1>3 DEF ClientsOK, client
<1> QED
  BY <1>2, <1>4

LEMMA NextTInv == TInv /\ [Next]_vars => TInv'
<1> SUFFICES ASSUME TInv, [Next]_vars PROVE TInv'
  OBVIOUS
<1>1. CASE Backend
  BY <1>1, BackendTInv
<1>2. CASE \E c \in Clients : Listen(c) \/ LoseAnswer(c)
  BY <1>2, AskTInv, SaveStatTInv, LookupTInv, CountPagesTInv, InitializeTInv,
     ReadPageTInv, AnswerTInv
  DEF Listen, Serve
<1>3. CASE UNCHANGED vars
  BY <1>3
  DEF vars, database, client, counting, TInv, SharedOK, ClientsOK, GoodCall,
      GoodState, Pinned
<1> QED
  BY <1>1, <1>2, <1>3 DEF Next

\* TypeOK: the variables keep their types, no token or request leads past the
\* pages of the snapshots it names, and all of those were harvested
\* (StateHolder, listRecords).
THEOREM TypeCorrect == Spec => []TypeOK
<1>1. Spec => []TInv
  BY InitTInv, NextTInv, PTL DEF Spec
<1>2. TInv => TypeOK
  BY TInvTypes
<1> QED
  BY <1>1, <1>2, PTL

\* The look-ups of a first request add to its plan and leave the rest alone.
LEMMA LookupStep ==
  ASSUME TInv, NEW c \in Clients, FindNetworks(c) \/ FindSnapshot(c) \/ CountPages(c)
  PROVE  /\ UNCHANGED <<database, counting, client, changes, losses>>
         /\ call[c].pc \in {"networks", "snapshot", "pages"}
         /\ \A d \in Clients \ {c} : call'[d] = call[d]
         /\ call'[c].pc \in {"snapshot", "pages"}
         /\ call'[c].state = call[c].state /\ call'[c].answer = call[c].answer
<1> USE DEF TInv, ClientsOK, CallType, Goes
<1>1. CASE FindNetworks(c)
  BY <1>1 DEF FindNetworks
<1>2. CASE FindSnapshot(c)
  <2>1. /\ UNCHANGED <<database, counting, client, changes, losses>>
        /\ call[c].pc = "snapshot"
    BY <1>2 DEF FindSnapshot
  <2>2. PICK n \in call[c].rest :
          \/ call' = [call EXCEPT ![c].rest = call[c].rest \ {n}]
          \/ \E s \in LastGoodKnown(ByName[n]) :
               call' = [call EXCEPT ![c].pc = "pages",
                          ![c].rest = call[c].rest \ {n}, ![c].found = s]
    BY <1>2 DEF FindSnapshot
  <2>3. CASE call' = [call EXCEPT ![c].rest = call[c].rest \ {n}]
    BY <2>1, <2>3
  <2>4. CASE \E s \in LastGoodKnown(ByName[n]) :
               call' = [call EXCEPT ![c].pc = "pages",
                          ![c].rest = call[c].rest \ {n}, ![c].found = s]
    <3>1. PICK s : call' = [call EXCEPT ![c].pc = "pages",
                          ![c].rest = call[c].rest \ {n}, ![c].found = s]
      BY <2>4
    <3> QED
      BY <2>1, <3>1
  <2> QED
    BY <2>2, <2>3, <2>4
<1>3. CASE CountPages(c)
  BY <1>3 DEF CountPages
<1> QED
  BY <1>1, <1>2, <1>3

-----------------------------------------------------------------------------
(* The counting of the accesses. *)

\* What a request is about to save is no more than the accesses there were,
\* and exactly those where no two overlapped.
CountInv ==
  \A a \in Addresses :
    /\ requests[a] <= accesses[a]
    /\ \A c \in Clients : AddressOf[c] = a /\ Goes(c, "save") => call[c].seen <= accesses[a]
    /\ a \notin overlapped =>
         /\ requests[a] = accesses[a]
         /\ \A c \in Clients : AddressOf[c] = a /\ Goes(c, "save") =>
              /\ call[c].seen = requests[a]
              /\ \A d \in Clients : AddressOf[d] = a /\ Goes(d, "save") => d = c

LEMMA InitCountInv == Init => CountInv
  BY DEF Init, CountInv, Goes, Idle

LEMMA AskCountInv ==
  ASSUME TInv, CountInv, NEW c \in Clients, Ask(c)
  PROVE  CountInv'
<1> DEFINE a == AddressOf[c]
<1>1. /\ requests' = requests /\ accesses' = accesses
      /\ overlapped' = IF \E d \in Clients : AddressOf[d] = a /\ Goes(d, "save")
                       THEN overlapped \union {a} ELSE overlapped
      /\ ~Goes(c, "save")
  BY DEF Ask, Goes
<1>2. PICK set : call' = [call EXCEPT ![c] = [Idle EXCEPT
        !.pc = "save", !.set = set, !.state = token[c], !.seen = requests[a]]]
  BY DEF Ask
<1>3. /\ call'[c].pc = "save" /\ call'[c].seen = requests[a]
      /\ \A d \in Clients \ {c} : call'[d] = call[d]
  BY <1>2 DEF TInv, ClientsOK, Idle
<1>4. a \in Addresses
  BY DEF Addresses
<1> HIDE DEF a
<1>5. ASSUME NEW b \in Addresses PROVE requests'[b] <= accesses'[b]
  BY <1>1 DEF CountInv
<1>6. ASSUME NEW b \in Addresses, NEW d \in Clients, AddressOf[d] = b, Goes(d, "save")'
      PROVE  call'[d].seen <= accesses'[b]
  <2>1. CASE d = c
    <3>1. requests[b] <= accesses[b]
      BY DEF CountInv
    <3>2. b = a
      BY <1>6, <2>1 DEF a
    <3> QED
      BY <1>1, <1>3, <2>1, <3>1, <3>2
  <2>2. CASE d # c
    BY <1>1, <1>3, <1>6, <2>2 DEF CountInv, Goes
  <2> QED
    BY <2>1, <2>2
<1>7. ASSUME NEW b \in Addresses, b \notin overlapped'
      PROVE  /\ requests'[b] = accesses'[b]
             /\ \A d \in Clients : AddressOf[d] = b /\ Goes(d, "save")' =>
                  /\ call'[d].seen = requests'[b]
                  /\ \A e \in Clients : AddressOf[e] = b /\ Goes(e, "save")' => e = d
  <2>1. b \notin overlapped
    BY <1>1, <1>7
  <2>2. CASE b # a
    BY <1>1, <1>3, <2>1, <2>2 DEF CountInv, Goes, a
  <2>3. CASE b = a
    <3>1. \A d \in Clients : AddressOf[d] = a => ~Goes(d, "save")
      BY <1>1, <1>7, <2>3
    <3>2. \A d \in Clients : AddressOf[d] = a /\ Goes(d, "save")' => d = c
      BY <1>3, <3>1 DEF Goes
    <3> QED
      BY <1>1, <1>3, <2>1, <2>3, <3>2 DEF CountInv
  <2> QED
    BY <2>2, <2>3
<1> QED
  BY <1>5, <1>6, <1>7 DEF CountInv

LEMMA SaveStatCountInv ==
  ASSUME TInv, CountInv, NEW c \in Clients, SaveStat(c)
  PROVE  CountInv'
<1> DEFINE a == AddressOf[c]
<1>1. a \in Addresses /\ Goes(c, "save") /\ overlapped' = overlapped
  BY DEF Addresses, SaveStat
<1>2. requests \in [Addresses -> Nat] /\ accesses \in [Addresses -> Nat]
  BY DEF TInv, SharedOK
<1>3. call[c].seen \in Nat
  BY DEF TInv, ClientsOK, CallType
<1>4. /\ requests' = [requests EXCEPT ![a] = call[c].seen + 1]
      /\ accesses' = [accesses EXCEPT ![a] = accesses[a] + 1]
  BY DEF SaveStat
<1>5. /\ ~Goes(c, "save")'
      /\ \A d \in Clients \ {c} : call'[d] = call[d]
  BY DEF SaveStat, Goes, TInv, ClientsOK, CallType
<1>6. call[c].seen <= accesses[a]
  BY <1>1 DEF CountInv
<1> HIDE DEF a
<1>7. ASSUME NEW b \in Addresses PROVE requests'[b] <= accesses'[b]
  BY <1>1, <1>2, <1>3, <1>4, <1>6 DEF CountInv
<1>8. ASSUME NEW b \in Addresses, NEW d \in Clients, AddressOf[d] = b, Goes(d, "save")'
      PROVE  call'[d].seen <= accesses'[b]
  <2>1. d # c /\ call'[d] = call[d] /\ Goes(d, "save")
    BY <1>5, <1>8 DEF Goes
  <2>2. call[d].seen <= accesses[b] /\ call[d].seen \in Nat
    BY <1>8, <2>1 DEF CountInv, TInv, ClientsOK, CallType
  <2>3. accesses[b] \in Nat /\ accesses'[b] \in {accesses[b], accesses[b] + 1}
    BY <1>2, <1>4
  <2> QED
    BY <2>1, <2>2, <2>3
<1>9. ASSUME NEW b \in Addresses, b \notin overlapped'
      PROVE  /\ requests'[b] = accesses'[b]
             /\ \A d \in Clients : AddressOf[d] = b /\ Goes(d, "save")' =>
                  /\ call'[d].seen = requests'[b]
                  /\ \A e \in Clients : AddressOf[e] = b /\ Goes(e, "save")' => e = d
  <2>1. CASE b # a
    BY <1>1, <1>2, <1>4, <1>5, <1>9, <2>1 DEF CountInv, Goes, a
  <2>2. CASE b = a
    <3>1. call[c].seen = requests[a] /\ requests[a] = accesses[a]
      BY <1>1, <1>9, <2>2 DEF CountInv, a
    <3>2. \A d \in Clients : AddressOf[d] = a /\ Goes(d, "save") => d = c
      BY <1>1, <1>9, <2>2 DEF CountInv, a
    <3>3. \A d \in Clients : AddressOf[d] = a => ~Goes(d, "save")'
      BY <1>5, <3>2 DEF Goes
    <3> QED
      BY <1>1, <1>2, <1>4, <2>2, <3>1, <3>3
  <2> QED
    BY <2>1, <2>2
<1> QED
  BY <1>7, <1>8, <1>9 DEF CountInv

\* The other steps begin no request and count nothing.
LEMMA QuietCountInv ==
  ASSUME CountInv, UNCHANGED counting,
         \A c \in Clients : Goes(c, "save")' => Goes(c, "save") /\ call'[c] = call[c]
  PROVE  CountInv'
  BY DEF CountInv, counting, Goes

LEMMA NextCountInv == TInv /\ CountInv /\ [Next]_vars => CountInv'
<1> SUFFICES ASSUME TInv, CountInv, [Next]_vars PROVE CountInv'
  OBVIOUS
<1> USE DEF TInv, ClientsOK, CallType, Goes, Idle
<1>1. CASE Backend
  BY <1>1, QuietCountInv
  DEF Backend, Harvest, CleanSnapshot, DeleteSnapshot, Publish, Elsewhere
<1>2. ASSUME NEW c \in Clients, Listen(c) \/ LoseAnswer(c) PROVE CountInv'
  <2>1. CASE Ask(c)
    BY <2>1, AskCountInv
  <2>2. CASE SaveStat(c)
    BY <2>2, SaveStatCountInv
  <2>3. CASE SaveStatFails(c)
    BY <2>3, QuietCountInv DEF SaveStatFails
  <2>4. CASE FindNetworks(c) \/ FindSnapshot(c) \/ CountPages(c)
    BY <2>4, LookupStep, QuietCountInv
  <2>5. CASE UnknownSet(c)
    BY <2>5, QuietCountInv DEF UnknownSet
  <2>6. CASE Initialize(c)
    BY <2>6, QuietCountInv DEF Initialize
  <2>7. CASE ReadPage(c)
    BY <2>7, QuietCountInv DEF ReadPage
  <2>8. CASE Receive(c) \/ LoseAnswer(c)
    BY <2>8, QuietCountInv DEF Receive, LoseAnswer
  <2> QED
    BY <1>2, <2>1, <2>2, <2>3, <2>4, <2>5, <2>6, <2>7, <2>8
    DEF Listen, Serve
<1>3. CASE UNCHANGED vars
  BY <1>3, QuietCountInv DEF vars
<1> QED
  BY <1>1, <1>2, <1>3 DEF Next

\* RequestsAreCounted: the counter of an address never runs ahead of its
\* accesses, and misses none unless two overlapped (countIPAccess).
THEOREM RequestCounting == Spec => []RequestsAreCounted
<1>1. Spec => []TInv
  BY InitTInv, NextTInv, PTL DEF Spec
<1>2. Spec => []CountInv
  BY <1>1, InitCountInv, NextCountInv, PTL DEF Spec
<1>3. CountInv => RequestsAreCounted
  BY DEF CountInv, RequestsAreCounted
<1> QED
  BY <1>2, <1>3, PTL

-----------------------------------------------------------------------------
(* The errors. *)

\* The answer of a request whose set names no network, or whose page belongs to
\* a snapshot that has none.
BreakInv ==
  \A c \in Clients : Goes(c, "answer") /\ call[c].answer = "error" =>
    \/ call[c].set \notin Networks \union {AllSets}
    \/ /\ call[c].state.plan # <<>>
       /\ pages[call[c].state.plan[call[c].state.index].snapshot] = 0

\* A page of the plan is missing only when all of them are.
LEMMA MissingMeansEmpty ==
  ASSUME SharedOK, NEW s, GoodState(s), s.plan # <<>>,
         ~(s.page < pages[s.plan[s.index].snapshot])
  PROVE  pages[s.plan[s.index].snapshot] = 0
<1> DEFINE e == s.plan[s.index]
<1>1. /\ s.plan \in Plans /\ s.page \in Nat
      /\ s.index \in 1..Len(s.plan)
  BY DEF GoodState, WellPlaced, States, Plans
<1>2. e.snapshot \in Snapshots /\ e.pages \in Nat
  BY <1>1, EntryOfPlan
<1>3. pages[e.snapshot] \in Nat /\ pages[e.snapshot] \in {0, PagesOf[e.snapshot]}
  BY <1>2 DEF SharedOK
<1>4. e.pages = 0 => pages[e.snapshot] = 0
  BY <1>1 DEF GoodState, Pinned
<1>5. e.pages \in {0, PagesOf[e.snapshot]}
  BY <1>1 DEF GoodState, WellPlaced, Planned
<1>6. s.page # 0 => s.page < e.pages
  BY DEF GoodState, WellPlaced
<1>7. ~(s.page < pages[e.snapshot])
  OBVIOUS
<1> HIDE DEF e
<1>8. pages[e.snapshot] = 0
  BY <1>1, <1>2, <1>3, <1>4, <1>5, <1>6, <1>7
<1> QED
  BY <1>8 DEF e

\* A step that leaves the database alone, and every answer that is an error.
LEMMA QuietBreakInv ==
  ASSUME BreakInv, UNCHANGED database,
         \A c \in Clients : Goes(c, "answer")' /\ call'[c].answer = "error" =>
           Goes(c, "answer") /\ call'[c] = call[c]
  PROVE  BreakInv'
  BY DEF BreakInv, database, Goes

LEMMA ReadPageBreakInv ==
  ASSUME TInv, BreakInv, NEW c \in Clients, ReadPage(c)
  PROVE  BreakInv'
<1> DEFINE s == call[c].state
           there == s.page < pages[s.plan[s.index].snapshot]
<1>1. SharedOK /\ GoodState(s) /\ s.plan # <<>>
  BY DEF TInv, ClientsOK, GoodCall, ReadPage, Goes
<1>2. ~there => pages[s.plan[s.index].snapshot] = 0
  BY <1>1, MissingMeansEmpty
<1>3. /\ pages' = pages
      /\ call'[c].answer = "error" => ~there
      /\ call'[c].state = s
      /\ \A d \in Clients \ {c} : call'[d] = call[d]
  BY DEF ReadPage, database, TInv, ClientsOK, CallType
<1>4. ASSUME NEW d \in Clients, Goes(d, "answer")', call'[d].answer = "error"
      PROVE  \/ call'[d].set \notin Networks \union {AllSets}
             \/ /\ call'[d].state.plan # <<>>
                /\ pages'[call'[d].state.plan[call'[d].state.index].snapshot] = 0
  <2>1. CASE d = c
    BY <1>1, <1>2, <1>3, <1>4, <2>1
  <2>2. CASE d # c
    BY <1>3, <1>4, <2>2 DEF BreakInv, Goes
  <2> QED
    BY <2>1, <2>2
<1> QED
  BY <1>4 DEF BreakInv, Goes

LEMMA NextBreakInv == TInv /\ BreakInv /\ [Next]_vars => BreakInv'
<1> SUFFICES ASSUME TInv, BreakInv, [Next]_vars PROVE BreakInv'
  OBVIOUS
<1>1. CASE Backend
  <2>1. /\ call' = call
        /\ \A s \in harvested : pages[s] = 0 => pages'[s] = 0
    BY <1>1, BackendKeeps
  <2>2. ASSUME NEW c \in Clients, Goes(c, "answer"), call[c].answer = "error"
        PROVE  \/ call[c].set \notin Networks \union {AllSets}
               \/ /\ call[c].state.plan # <<>>
                  /\ pages'[call[c].state.plan[call[c].state.index].snapshot] = 0
    <3> DEFINE s == call[c].state
    <3>1. CASE call[c].set \notin Networks \union {AllSets}
      BY <3>1
    <3>2. CASE s.plan # <<>> /\ pages[s.plan[s.index].snapshot] = 0
      <4>1. s.index \in 1..Len(s.plan)
        BY <3>2 DEF TInv, ClientsOK, GoodCall, GoodState, WellPlaced, States
      <4>2. s.plan[s.index].snapshot \in harvested
        BY <4>1 DEF TInv, ClientsOK, GoodCall, GoodState, Pinned
      <4> QED
        BY <2>1, <3>2, <4>2
    <3> QED
      BY <2>2, <3>1, <3>2 DEF BreakInv
  <2> QED
    BY <2>1, <2>2 DEF BreakInv, Goes
<1>2. ASSUME NEW c \in Clients, Listen(c) \/ LoseAnswer(c) PROVE BreakInv'
  <2> USE DEF TInv, ClientsOK, CallType, Goes, Idle
  <2>1. CASE Ask(c)
    BY <2>1, QuietBreakInv DEF Ask
  <2>2. CASE SaveStat(c)
    BY <2>2, QuietBreakInv DEF SaveStat
  <2>3. CASE SaveStatFails(c)
    BY <2>3, QuietBreakInv DEF SaveStatFails
  <2>4. CASE FindNetworks(c) \/ FindSnapshot(c) \/ CountPages(c)
    BY <2>4, LookupStep, QuietBreakInv
  <2>5. CASE UnknownSet(c)
    <3>1. call[c].set \notin Networks \union {AllSets}
      BY <2>5 DEF UnknownSet
    <3>2. call'[c].set = call[c].set /\ pages' = pages
      BY <2>5 DEF UnknownSet, database
    <3>3. \A d \in Clients \ {c} : call'[d] = call[d]
      BY <2>5 DEF UnknownSet
    <3>4. ASSUME NEW d \in Clients, Goes(d, "answer")', call'[d].answer = "error"
          PROVE  \/ call'[d].set \notin Networks \union {AllSets}
                 \/ /\ call'[d].state.plan # <<>>
                    /\ pages'[call'[d].state.plan[call'[d].state.index].snapshot] = 0
      <4>1. CASE d = c
        BY <3>1, <3>2, <4>1
      <4>2. CASE d # c
        BY <3>2, <3>3, <3>4, <4>2 DEF BreakInv
      <4> QED
        BY <4>1, <4>2
    <3> QED
      BY <3>4 DEF BreakInv
  <2>6. CASE Initialize(c)
    BY <2>6, QuietBreakInv DEF Initialize
  <2>7. CASE ReadPage(c)
    BY <2>7, ReadPageBreakInv
  <2>8. CASE Receive(c) \/ LoseAnswer(c)
    BY <2>8, QuietBreakInv DEF Receive, LoseAnswer
  <2> QED
    BY <1>2, <2>1, <2>2, <2>3, <2>4, <2>5, <2>6, <2>7, <2>8
    DEF Listen, Serve
<1>3. CASE UNCHANGED vars
  BY <1>3, QuietBreakInv DEF vars, database, Goes
<1> QED
  BY <1>1, <1>2, <1>3 DEF Next

\* BreaksOnlyWhenEmptied: an error answers an unknown set, or a page of a
\* snapshot that has no records (any more); no harvest and no publication
\* breaks a listing that has begun (listRecords).
THEOREM BreakReasons == Spec => []BreaksOnlyWhenEmptied
<1>1. Spec => []TInv
  BY InitTInv, NextTInv, PTL DEF Spec
<1>2. Init => BreakInv
  BY DEF Init, BreakInv, Goes, Idle
<1>3. Spec => []BreakInv
  BY <1>1, <1>2, NextBreakInv, PTL DEF Spec
<1>4. BreakInv => BreaksOnlyWhenEmptied
  BY DEF BreakInv, BreaksOnlyWhenEmptied
<1> QED
  BY <1>3, <1>4, PTL

-----------------------------------------------------------------------------
(* The listings. *)

\* The page after the place pos of a plan, as PagedListing has it.
After(plan, pos) ==
  IF pos[2] + 1 = plan[pos[1]].pages THEN <<pos[1] + 1, 0>> ELSE <<pos[1], pos[2] + 1>>

\* The token t of a client leads to the page after the last of g, those it was
\* given, and its request r, if there is one, goes on from there.
PlaceAt(r, t, g, o) ==
  /\ t.plan = <<>> => t = NoState /\ g = <<>>
  /\ t.plan # <<>> =>
       /\ g # <<>>
       /\ o = "open" => After(t.plan, g[Len(g)]) = <<t.index, t.page>>
  /\ r.pc # "idle" =>
       /\ o = "open"
       /\ t.plan # <<>> =>
            /\ r.state = t /\ r.pc \in {"save", "page", "answer"}
            /\ r.answer # "nothing"
       /\ t.plan = <<>> => r.state = Initial(r.state.plan)

PlaceInv == \A c \in Clients : PlaceAt(call[c], token[c], given[c], outcome[c])

\* Every page before the place of t is one of g.
CoverAt(t, g, o) ==
  \A n \in 1..Len(t.plan) : \A p \in 0..(PagesOf[t.plan[n].snapshot] - 1) :
    o = "whole" \/ n < t.index \/ (n = t.index /\ p < t.page) =>
      \E k \in 1..Len(g) : g[k] = <<n, p>>

CoverInv == \A c \in Clients : CoverAt(token[c], given[c], outcome[c])

LEMMA InitListing == Init => PlaceInv /\ CoverInv
<1> SUFFICES ASSUME Init PROVE PlaceInv /\ CoverInv
  OBVIOUS
<1>1. PlaceInv
  BY DEF Init, PlaceInv, PlaceAt, Idle, NoState
<1>2. CoverInv
  BY DEF Init, CoverInv, CoverAt, NoState
<1> QED
  BY <1>1, <1>2

\* update() moves to the page after the one it was at, and stops at the end.
LEMMA UpdatedPlace ==
  ASSUME NEW s, GoodState(s), s.plan # <<>>
  PROVE  /\ Updated(s).plan = s.plan
         /\ Finished(s) <=> After(s.plan, <<s.index, s.page>>)[1] > Len(s.plan)
         /\ ~Finished(s) =>
              After(s.plan, <<s.index, s.page>>) = <<Updated(s).index, Updated(s).page>>
<1>1. /\ s \in States /\ s.plan \in Plans
      /\ s.index \in 1..Len(s.plan) /\ s.page \in Nat /\ Len(s.plan) \in Nat
  BY DEF GoodState, WellPlaced, States, Plans
<1>2. s.plan[s.index].pages \in Nat
  BY <1>1, EntryOfPlan
<1>3. CASE ~AtLastPage(s)
  BY <1>1, <1>2, <1>3 DEF Updated, Finished, AtLastPage, After, States
<1>4. CASE AtLastPage(s)
  BY <1>1, <1>2, <1>4 DEF Updated, Finished, AtLastPage, After, States
<1> QED
  BY <1>3, <1>4

\* What a received page does to the place of the listing.
LEMMA PageReceived ==
  ASSUME TInv, PlaceInv, NEW c \in Clients, Receive(c), call[c].answer = "page"
  PROVE  LET s == call[c].state IN
         /\ outcome[c] = "open"
         /\ GoodState(s) /\ s.plan # <<>> /\ s.page < s.plan[s.index].pages
         /\ given'[c] = Append(given[c], <<s.index, s.page>>)
         /\ token'[c] = Updated(s)
         /\ outcome'[c] = IF Finished(s) THEN "whole" ELSE "open"
         /\ token[c].plan = <<>> => s.index = 1 /\ s.page = 0 /\ given[c] = <<>>
         /\ token[c].plan # <<>> => s = token[c] /\ given[c] # <<>>
<1>1. PlaceAt(call[c], token[c], given[c], outcome[c]) /\ call[c].pc = "answer"
  BY DEF PlaceInv, Receive, Goes
<1>2. GoodCall(call[c])
  BY DEF TInv, ClientsOK
<1> DEFINE s == call[c].state
<1>3. GoodState(s) /\ s.plan # <<>> /\ s.page < s.plan[s.index].pages
  BY <1>1, <1>2 DEF GoodCall
<1>4. /\ given'[c] = Append(given[c], <<s.index, s.page>>)
      /\ token'[c] = Updated(s)
      /\ outcome'[c] = IF Finished(s) THEN "whole" ELSE "open"
  BY DEF Receive, TInv, ClientsOK
<1>5. token[c].plan = <<>> => s.index = 1 /\ s.page = 0 /\ given[c] = <<>>
  BY <1>1 DEF PlaceAt, Initial
<1>6. token[c].plan # <<>> => s = token[c] /\ given[c] # <<>>
  BY <1>1 DEF PlaceAt
<1>7. outcome[c] = "open"
  BY <1>1 DEF PlaceAt
<1> QED
  BY <1>3, <1>4, <1>5, <1>6, <1>7

LEMMA LastOfAppend ==
  ASSUME NEW S, NEW g \in Seq(S), NEW e \in S
  PROVE  /\ Append(g, e) # <<>> /\ Len(Append(g, e)) = Len(g) + 1
         /\ Append(g, e)[Len(Append(g, e))] = e
  BY AppendProperties

LEMMA ReceivePlace ==
  ASSUME TInv, PlaceInv, NEW c \in Clients, Receive(c)
  PROVE  PlaceInv'
<1>1. \A d \in Clients \ {c} :
        /\ call'[d] = call[d] /\ token'[d] = token[d]
        /\ given'[d] = given[d] /\ outcome'[d] = outcome[d]
  BY DEF Receive, TInv, ClientsOK
<1>2. call'[c] = Idle
  BY DEF Receive, TInv, ClientsOK
<1>3. PlaceAt(call'[c], token'[c], given'[c], outcome'[c])
  <2>1. CASE call[c].answer = "page"
    <3> DEFINE s == call[c].state
    <3>1. /\ GoodState(s) /\ s.plan # <<>>
          /\ given'[c] = Append(given[c], <<s.index, s.page>>)
          /\ token'[c] = Updated(s)
          /\ outcome'[c] = IF Finished(s) THEN "whole" ELSE "open"
      BY <2>1, PageReceived
    <3>2. /\ Updated(s).plan = s.plan
          /\ ~Finished(s) =>
               After(s.plan, <<s.index, s.page>>) = <<Updated(s).index, Updated(s).page>>
      BY <3>1, UpdatedPlace
    <3>3. /\ given[c] \in Seq((Nat \ {0}) \X Nat)
          /\ <<s.index, s.page>> \in (Nat \ {0}) \X Nat
      BY <3>1 DEF TInv, ClientsOK, GoodState, States
    <3>4. given'[c] # <<>> /\ given'[c][Len(given'[c])] = <<s.index, s.page>>
      <4> DEFINE S == (Nat \ {0}) \X Nat
                 g == given[c]
                 e == <<s.index, s.page>>
      <4>1. g \in Seq(S) /\ e \in S
        BY <3>3
      <4>2. given'[c] = Append(g, e)
        BY <3>1
      <4> HIDE DEF S, g, e
      <4>3. Append(g, e) # <<>> /\ Append(g, e)[Len(Append(g, e))] = e
        BY <4>1, LastOfAppend
      <4> QED
        BY <4>2, <4>3 DEF e
    <3>5. outcome'[c] = "open" => ~Finished(s)
      BY <3>1
    <3> HIDE DEF s
    <3> QED
      BY <1>2, <3>1, <3>2, <3>4, <3>5 DEF PlaceAt, Idle
  <2>2. CASE call[c].answer # "page"
    <3>1. /\ token'[c] = token[c] /\ given'[c] = given[c]
          /\ outcome'[c] \in {"whole", "broken"}
      BY <2>2 DEF Receive, TInv, ClientsOK
    <3> QED
      BY <1>2, <3>1 DEF PlaceInv, PlaceAt, Idle
  <2> QED
    BY <2>1, <2>2
<1> QED
  BY <1>1, <1>3 DEF PlaceInv

\* The steps that give the clients nothing.
LEMMA RequestPlace ==
  ASSUME PlaceInv, UNCHANGED client, NEW c \in Clients,
         \A d \in Clients \ {c} : call'[d] = call[d],
         PlaceAt(call'[c], token[c], given[c], outcome[c])
  PROVE  PlaceInv'
  BY DEF PlaceInv, client

LEMMA NextPlaceInv == TInv /\ PlaceInv /\ [Next]_vars => PlaceInv'
<1> SUFFICES ASSUME TInv, PlaceInv, [Next]_vars PROVE PlaceInv'
  OBVIOUS
<1>1. CASE Backend
  BY <1>1, BackendKeeps DEF PlaceInv, client
<1>2. ASSUME NEW c \in Clients, Listen(c) \/ LoseAnswer(c) PROVE PlaceInv'
  <2> USE DEF TInv, ClientsOK, CallType, Goes
  <2>0. PlaceAt(call[c], token[c], given[c], outcome[c])
    BY DEF PlaceInv
  <2>1. CASE Ask(c)
    <3>1. UNCHANGED client /\ outcome[c] = "open"
      BY <2>1 DEF Ask
    <3>2. PICK set : call' = [call EXCEPT ![c] = [Idle EXCEPT
            !.pc = "save", !.set = set, !.state = token[c],
            !.seen = requests[AddressOf[c]]]]
      BY <2>1 DEF Ask
    <3>3. /\ call'[c].pc = "save" /\ call'[c].state = token[c]
          /\ call'[c].answer = "none"
          /\ \A d \in Clients \ {c} : call'[d] = call[d]
      BY <3>2 DEF Idle
    <3>4. PlaceAt(call'[c], token[c], given[c], outcome[c])
      BY <2>0, <3>1, <3>3 DEF PlaceAt, NoState, Initial
    <3> QED
      BY <3>1, <3>3, <3>4, RequestPlace
  <2>2. CASE SaveStat(c)
    <3>1. /\ UNCHANGED client
          /\ call[c].pc = "save" /\ call'[c].state = call[c].state
          /\ call'[c].answer = call[c].answer
          /\ call'[c].pc = IF call[c].state.plan = <<>> THEN "networks" ELSE "page"
          /\ \A d \in Clients \ {c} : call'[d] = call[d]
      BY <2>2 DEF SaveStat
    <3>2. PlaceAt(call'[c], token[c], given[c], outcome[c])
      BY <2>0, <3>1 DEF PlaceAt
    <3> QED
      BY <3>1, <3>2, RequestPlace
  <2>3. CASE SaveStatFails(c) \/ LoseAnswer(c)
    <3>1. /\ UNCHANGED client /\ call'[c] = Idle
          /\ \A d \in Clients \ {c} : call'[d] = call[d]
      BY <2>3 DEF SaveStatFails, LoseAnswer
    <3>2. PlaceAt(call'[c], token[c], given[c], outcome[c])
      BY <2>0, <3>1 DEF PlaceAt, Idle
    <3> QED
      BY <3>1, <3>2, RequestPlace
  <2>4. CASE FindNetworks(c) \/ FindSnapshot(c) \/ CountPages(c)
    <3>1. /\ UNCHANGED client
          /\ call[c].pc \in {"networks", "snapshot", "pages"}
          /\ \A d \in Clients \ {c} : call'[d] = call[d]
          /\ call'[c].state = call[c].state
      BY <2>4, LookupStep
    <3>2. PlaceAt(call'[c], token[c], given[c], outcome[c])
      BY <2>0, <3>1 DEF PlaceAt
    <3> QED
      BY <3>1, <3>2, RequestPlace
  <2>5. CASE UnknownSet(c)
    <3>1. /\ UNCHANGED client
          /\ call[c].pc = "networks" /\ call'[c].state = call[c].state
          /\ \A d \in Clients \ {c} : call'[d] = call[d]
      BY <2>5 DEF UnknownSet
    <3>2. PlaceAt(call'[c], token[c], given[c], outcome[c])
      BY <2>0, <3>1 DEF PlaceAt
    <3> QED
      BY <3>1, <3>2, RequestPlace
  <2>6. CASE Initialize(c)
    <3>1. /\ UNCHANGED client /\ call[c].pc = "snapshot"
          /\ call'[c].state \in {call[c].state, Initial(call[c].plan)}
          /\ \A d \in Clients \ {c} : call'[d] = call[d]
      BY <2>6 DEF Initialize
    <3>2. Initial(call[c].plan).plan = call[c].plan
      BY DEF Initial
    <3>3. PlaceAt(call'[c], token[c], given[c], outcome[c])
      BY <2>0, <3>1, <3>2 DEF PlaceAt
    <3> QED
      BY <3>1, <3>3, RequestPlace
  <2>7. CASE ReadPage(c)
    <3>1. /\ UNCHANGED client /\ call[c].pc = "page"
          /\ call'[c].state = call[c].state /\ call'[c].pc = "answer"
          /\ call'[c].answer \in {"page", "error"}
          /\ \A d \in Clients \ {c} : call'[d] = call[d]
      BY <2>7 DEF ReadPage
    <3>2. PlaceAt(call'[c], token[c], given[c], outcome[c])
      BY <2>0, <3>1 DEF PlaceAt
    <3> QED
      BY <3>1, <3>2, RequestPlace
  <2>8. CASE Receive(c)
    BY <2>8, ReceivePlace
  <2> QED
    BY <1>2, <2>1, <2>2, <2>3, <2>4, <2>5, <2>6, <2>7, <2>8 DEF Listen, Serve
<1>3. CASE UNCHANGED vars
  BY <1>3 DEF vars, client, PlaceInv
<1> QED
  BY <1>1, <1>2, <1>3 DEF Next

LEMMA CoverStep ==
  ASSUME NEW s, GoodState(s), s.plan # <<>>, s.page < s.plan[s.index].pages,
         NEW S, NEW g \in Seq(S), <<s.index, s.page>> \in S,
         CoverAt(s, g, "open")
  PROVE  CoverAt(Updated(s), Append(g, <<s.index, s.page>>),
                 IF Finished(s) THEN "whole" ELSE "open")
<1> DEFINE e == <<s.index, s.page>>
           longer == Append(g, e)
           o == IF Finished(s) THEN "whole" ELSE "open"
<1>1. /\ s \in States /\ s.plan \in Plans
      /\ s.index \in 1..Len(s.plan) /\ s.page \in Nat /\ Len(s.plan) \in Nat
  BY DEF GoodState, WellPlaced, States, Plans
<1>2. s.plan[s.index].pages \in Nat /\ s.plan[s.index].snapshot \in Snapshots
  BY <1>1, EntryOfPlan
<1>3. s.plan[s.index].pages = PagesOf[s.plan[s.index].snapshot]
  <2>1. Planned(s.plan)
    BY DEF GoodState, WellPlaced
  <2>2. s.plan[s.index].pages \in {0, PagesOf[s.plan[s.index].snapshot]}
    BY <1>1, <2>1 DEF Planned
  <2>3. s.plan[s.index].pages # 0
    BY <1>1, <1>2
  <2> QED
    BY <2>2, <2>3
<1>4. Updated(s).plan = s.plan
  BY UpdatedPlace
<1>5. /\ Len(longer) = Len(g) + 1 /\ longer[Len(g) + 1] = e
      /\ \A k \in 1..Len(g) : longer[k] = g[k]
  BY AppendProperties
<1>6. Len(g) \in Nat
  OBVIOUS
<1> SUFFICES ASSUME NEW n \in 1..Len(s.plan),
                    NEW p \in 0..(PagesOf[s.plan[n].snapshot] - 1),
                    \/ o = "whole" \/ n < Updated(s).index
                    \/ n = Updated(s).index /\ p < Updated(s).page
             PROVE  \E k \in 1..Len(longer) : longer[k] = <<n, p>>
  BY <1>4 DEF CoverAt
<1>7. p \in Nat /\ (n = s.index => p < s.plan[s.index].pages)
  <2>1. p \in Int
    OBVIOUS
  <2>2. p >= 0
    OBVIOUS
  <2>3. n = s.index => p < s.plan[s.index].pages
    BY <1>2, <1>3
  <2> QED
    BY <2>1, <2>2, <2>3
<1>8. CASE n = s.index /\ p = s.page
  BY <1>5, <1>6, <1>8
<1>9. CASE n < s.index \/ (n = s.index /\ p < s.page)
  <2>1. PICK k \in 1..Len(g) : g[k] = <<n, p>>
    BY <1>9 DEF CoverAt
  <2> QED
    BY <1>5, <1>6, <2>1
<1>10. \/ n < s.index \/ (n = s.index /\ p < s.page)
       \/ n = s.index /\ p = s.page
  <2> HIDE DEF longer, e
  <2>1. CASE ~AtLastPage(s)
    <3>1. o # "whole" /\ Updated(s).index = s.index /\ Updated(s).page = s.page + 1
      BY <2>1, <1>1 DEF Finished, Updated, States
    <3> QED
      BY <1>1, <1>7, <3>1
  <2>2. CASE AtLastPage(s) /\ s.index # Len(s.plan)
    <3>1. o # "whole" /\ Updated(s).index = s.index + 1 /\ Updated(s).page = 0
      BY <2>2, <1>1 DEF Finished, Updated, States
    <3>2. s.page + 1 = s.plan[s.index].pages
      BY <2>2 DEF AtLastPage
    <3> QED
      BY <1>1, <1>7, <3>1, <3>2
  <2>3. CASE AtLastPage(s) /\ s.index = Len(s.plan)
    <3>1. s.page + 1 = s.plan[s.index].pages
      BY <2>3 DEF AtLastPage
    <3> QED
      BY <1>1, <1>7, <2>3, <3>1
  <2> QED
    BY <2>1, <2>2, <2>3
<1> QED
  BY <1>8, <1>9, <1>10

LEMMA ReceiveCover ==
  ASSUME TInv, PlaceInv, CoverInv, NEW c \in Clients, Receive(c)
  PROVE  CoverInv'
<1>1. \A d \in Clients \ {c} :
        token'[d] = token[d] /\ given'[d] = given[d] /\ outcome'[d] = outcome[d]
  BY DEF Receive, TInv, ClientsOK
<1>2. CoverAt(token'[c], given'[c], outcome'[c])
  <2>1. CASE call[c].answer = "page"
    <3> DEFINE s == call[c].state
               g == given[c]
               S == (Nat \ {0}) \X Nat
    <3>1. /\ GoodState(s) /\ s.plan # <<>> /\ s.page < s.plan[s.index].pages
          /\ given'[c] = Append(g, <<s.index, s.page>>)
          /\ token'[c] = Updated(s)
          /\ outcome'[c] = IF Finished(s) THEN "whole" ELSE "open"
          /\ outcome[c] = "open"
          /\ token[c].plan = <<>> => s.index = 1 /\ s.page = 0
          /\ token[c].plan # <<>> => s = token[c]
      BY <2>1, PageReceived
    <3>2. g \in Seq(S) /\ <<s.index, s.page>> \in S
      BY <3>1 DEF TInv, ClientsOK, GoodState, States
    <3>3. CoverAt(s, g, "open")
      <4>1. CASE token[c].plan = <<>>
        BY <3>1, <4>1 DEF CoverAt
      <4>2. CASE token[c].plan # <<>>
        BY <3>1, <4>2 DEF CoverInv
      <4> QED
        BY <4>1, <4>2
    <3> HIDE DEF s, g, S
    <3>4. CoverAt(Updated(s), Append(g, <<s.index, s.page>>),
                  IF Finished(s) THEN "whole" ELSE "open")
      BY <3>1, <3>2, <3>3, CoverStep
    <3> QED
      BY <3>1, <3>4
  <2>2. CASE call[c].answer = "nothing"
    <3>1. token'[c] = token[c] /\ token[c].plan = <<>>
      BY <2>2 DEF Receive, Goes, PlaceInv, PlaceAt
    <3> QED
      BY <3>1 DEF CoverAt
  <2>3. CASE call[c].answer \notin {"page", "nothing"}
    <3>1. /\ token'[c] = token[c] /\ given'[c] = given[c]
          /\ outcome'[c] = "broken"
      BY <2>3 DEF Receive, TInv, ClientsOK
    <3>2. CoverAt(token[c], given[c], outcome[c])
      BY DEF CoverInv
    <3> QED
      BY <3>1, <3>2 DEF CoverAt
  <2> QED
    BY <2>1, <2>2, <2>3
<1> QED
  BY <1>1, <1>2 DEF CoverInv

\* Only an answer that arrives changes what a client has.
LEMMA ClientSteps ==
  ASSUME TInv, [Next]_vars
  PROVE  UNCHANGED client \/ \E c \in Clients : Receive(c)
<1>1. CASE Backend
  BY <1>1, BackendKeeps
<1>2. CASE \E c \in Clients : Listen(c) \/ LoseAnswer(c)
  BY <1>2
  DEF Listen, Serve, Ask, SaveStat, SaveStatFails, FindNetworks, UnknownSet,
      FindSnapshot, CountPages, Initialize, ReadPage, LoseAnswer
<1>3. CASE UNCHANGED vars
  BY <1>3 DEF vars
<1> QED
  BY <1>1, <1>2, <1>3 DEF Next

LEMMA NextCoverInv == TInv /\ PlaceInv /\ CoverInv /\ [Next]_vars => CoverInv'
<1> SUFFICES ASSUME TInv, PlaceInv, CoverInv, [Next]_vars PROVE CoverInv'
  OBVIOUS
<1>1. CASE UNCHANGED client
  BY <1>1 DEF client, CoverInv
<1>2. CASE \E c \in Clients : Receive(c)
  BY <1>2, ReceiveCover
<1>3. UNCHANGED client \/ \E c \in Clients : Receive(c)
  BY ClientSteps
<1> QED
  BY <1>1, <1>2, <1>3

LEMMA ListingInvariants == Spec => []TInv /\ []PlaceInv /\ []CoverInv
<1>1. Spec => []TInv
  BY InitTInv, NextTInv, PTL DEF Spec
<1>2. Spec => []PlaceInv
  BY <1>1, InitListing, NextPlaceInv, PTL DEF Spec
<1>3. Spec => []CoverInv
  BY <1>1, <1>2, InitListing, NextCoverInv, PTL DEF Spec
<1> QED
  BY <1>1, <1>2, <1>3, PTL

\* WholeIsWhole: a listing that ended without an error has every page that its
\* snapshots were harvested with (StateHolder.update).
THEOREM Completeness == Spec => []WholeIsWhole
<1>1. CoverInv => WholeIsWhole
  BY DEF CoverInv, CoverAt, WholeIsWhole
<1> QED
  BY <1>1, ListingInvariants, PTL

LEMMA AfterIsFollowing ==
  ASSUME NEW c \in Clients, NEW plan, NEW pos
  PROVE  Listing(c)!Following(plan, pos) = After(plan, pos)
  BY DEF Listing!Following, After

\* A received page is the next one of the listing.
LEMMA PageGiven ==
  ASSUME TInv, PlaceInv, NEW c \in Clients, Receive(c), call[c].answer = "page"
  PROVE  Listing(c)!Give
<1> DEFINE s == call[c].state
           g == given[c]
           e == <<s.index, s.page>>
           S == (Nat \ {0}) \X Nat
<1>1. /\ outcome[c] = "open"
      /\ GoodState(s) /\ s.plan # <<>>
      /\ given'[c] = Append(g, e)
      /\ token'[c] = Updated(s)
      /\ outcome'[c] = IF Finished(s) THEN "whole" ELSE "open"
      /\ token[c].plan = <<>> => s.index = 1 /\ s.page = 0 /\ g = <<>>
      /\ token[c].plan # <<>> => s = token[c] /\ g # <<>>
  BY PageReceived
<1>2. /\ Updated(s).plan = s.plan
      /\ Finished(s) <=> After(s.plan, e)[1] > Len(s.plan)
  BY <1>1, UpdatedPlace
<1>3. g \in Seq(S) /\ e \in S /\ e[1] = s.index /\ s.index <= Len(s.plan)
  BY <1>1 DEF TInv, ClientsOK, GoodState, States, WellPlaced
<1>4. PlaceAt(call[c], token[c], g, outcome[c])
  BY DEF PlaceInv
<1>5. g # <<>> => token[c].plan # <<>> /\ s = token[c]
  BY <1>1
<1>6. g # <<>> => After(token[c].plan, g[Len(g)]) = e
  BY <1>1, <1>4, <1>5 DEF PlaceAt
<1> HIDE DEF S, g
<1>7. /\ Append(g, e) # <<>> /\ Append(g, e)[Len(Append(g, e))] = e
  <2> HIDE DEF e
  <2> QED
    BY <1>3, LastOfAppend
<1>8. Listing(c)!Next_(token[c].plan, g) = e
  <2>1. CASE g = <<>>
    <3>1. token[c].plan = <<>> /\ s.index = 1 /\ s.page = 0
      BY <1>1, <2>1
    <3> QED
      BY <2>1, <3>1 DEF Listing!Next_
  <2>2. CASE g # <<>>
    <3> HIDE DEF e
    <3> QED
      BY <1>6, <2>2, AfterIsFollowing DEF Listing!Next_
  <2> QED
    BY <2>1, <2>2
<1> HIDE DEF e
<1>9. Listing(c)!Next_(token'[c].plan, given'[c]) = After(s.plan, e)
  BY <1>1, <1>2, <1>7, AfterIsFollowing DEF Listing!Next_
<1>10. g # <<>> => token'[c].plan = token[c].plan
  BY <1>1, <1>2, <1>5
<1>11. given'[c][Len(given'[c])][1] <= Len(token'[c].plan)
  BY <1>1, <1>2, <1>3, <1>7
<1>12. outcome'[c] = IF Listing(c)!Next_(token'[c].plan, given'[c])[1] > Len(token'[c].plan)
                     THEN "whole" ELSE "open"
  BY <1>1, <1>2, <1>9
<1>13. given'[c] = Append(given[c], Listing(c)!Next_(token[c].plan, given[c]))
  BY <1>1, <1>8 DEF g
<1> QED
  BY <1>1, <1>10, <1>11, <1>12, <1>13 DEF Listing!Give, g

LEMMA ListingStep ==
  ASSUME TInv, PlaceInv, [Next]_vars, NEW c \in Clients
  PROVE  [Listing(c)!Next]_(Listing(c)!vars)
<1>1. CASE UNCHANGED client
  BY <1>1 DEF client, Listing!vars
<1>2. CASE \E d \in Clients \ {c} : Receive(d)
  <2>1. token'[c] = token[c] /\ given'[c] = given[c] /\ outcome'[c] = outcome[c]
    BY <1>2 DEF Receive, TInv, ClientsOK
  <2> QED
    BY <2>1 DEF Listing!vars
<1>3. CASE Receive(c)
  <2>1. CASE call[c].answer = "page"
    BY <1>3, <2>1, PageGiven DEF Listing!Next
  <2>2. CASE call[c].answer # "page"
    <3>1. /\ token'[c] = token[c] /\ given'[c] = given[c]
          /\ outcome'[c] = IF call[c].answer = "nothing" THEN "whole" ELSE "broken"
      BY <1>3, <2>2 DEF Receive, TInv, ClientsOK
    <3>2. /\ outcome[c] = "open"
          /\ call[c].answer = "nothing" => given[c] = <<>>
      BY <1>3 DEF Receive, Goes, PlaceInv, PlaceAt
    <3>3. CASE call[c].answer = "nothing"
      BY <3>1, <3>2, <3>3 DEF Listing!Next, Listing!GiveNothing
    <3>4. CASE call[c].answer # "nothing"
      BY <3>1, <3>2, <3>4 DEF Listing!Next, Listing!Break
    <3> QED
      BY <3>3, <3>4
  <2> QED
    BY <2>1, <2>2
<1>4. UNCHANGED client \/ \E d \in Clients : Receive(d)
  BY ClientSteps
<1> QED
  BY <1>1, <1>2, <1>3, <1>4

\* ListsPages: what every client is given is a listing of PagedListing, pages in
\* order, each once, none left out, whatever the backend does meanwhile and
\* however often an answer is lost (listRecords, StateHolder).
THEOREM ImplementsPagedListing == Spec => ListsPages
<1>1. Init => \A c \in Clients : Listing(c)!Init
  BY DEF Init, Listing!Init, NoState
<1>2. TInv /\ PlaceInv /\ [Next]_vars =>
        [\A c \in Clients : [Listing(c)!Next]_(Listing(c)!vars)]_vars
  BY ListingStep
<1> QED
  BY <1>1, <1>2, ListingInvariants, PTL DEF Spec, ListsPages

=============================================================================
