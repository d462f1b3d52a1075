-------------------------- MODULE HarvestLoop_proofs --------------------------
(***************************************************************************)
(* Proofs about HarvestLoop: its types, what the stop flag bounds and, for *)
(* a server whose listing ends, that it implements PageFeed and how many   *)
(* requests it makes.                                                      *)
(***************************************************************************)
EXTENDS HarvestLoop, FiniteSetTheorems, TLAPS

\* Failures in a row stay below MaxRetries wherever the inner loop goes on.
RetryBudget ==
  \A w \in Workers :
    at[w] \in {"while", "request", "fire", "retry"} => actualRetry[w] < MaxRetries

TInv == TypeOK /\ RetryBudget

LEMMA InitTInv == Init => TInv
  BY HarvesterAssumption
  DEF TInv, RetryBudget, Init, HarvesterInit, TypeOK, HarvesterTypeOK, Points, Pages, NoToken, MaxRequests

LEMMA RequestBoundType == MaxRequests \in Nat
  BY HarvesterAssumption DEF MaxRequests

LEMMA NextTInv == TInv /\ [Next]_vars => TInv'
<1> USE HarvesterAssumption, RequestBoundType
    DEF TInv, RetryBudget, TypeOK, HarvesterTypeOK, Points, Pages, NoToken
<1> SUFFICES ASSUME TInv, [Next]_vars PROVE TInv'
  OBVIOUS
<1>1. CASE UNCHANGED vars
  BY <1>1 DEF vars, harvesterVars, historyVars
<1>2. ASSUME NEW w \in Workers, CallHarvest(w) PROVE TInv'
  BY <1>2 DEF CallHarvest, StartHarvest, Goto
<1>3. ASSUME NEW w \in Workers, CallReset(w) PROVE TInv'
  BY <1>3 DEF CallReset, ResetStop
<1>4. ASSUME NEW w \in Workers, CallStop(w) PROVE TInv'
  BY <1>4 DEF CallStop, SignalStop, historyVars
<1>5. ASSUME NEW w \in Workers, GetPage(w) PROVE TInv'
  <2>1. TokensOf(RequestedPage(w)) \subseteq {NoToken} \union Pages
    BY DEF TokensOf, RequestedPage
  <2>2. RequestedPage(w) \in Pages
    BY <1>5 DEF GetPage, Respond, RequestedPage
  <2>3. HarvesterTypeOK'
    BY <1>5, <2>1, <2>2 DEF GetPage, Respond, Goto
  <2>4. asked' \in [Workers -> 0..(MaxRequests + 1)]
    BY <1>5 DEF GetPage, CountRequest
  <2>5. RetryBudget'
    BY <1>5 DEF GetPage, Respond, Goto
  <2>6. QED
    BY <1>5, <2>3, <2>4, <2>5 DEF GetPage
<1>6. ASSUME NEW w \in Workers, GetNothing(w) PROVE TInv'
  BY <1>6 DEF GetNothing, FailRequest, Goto, CountRequest
<1>7. ASSUME NEW w \in Workers, ListenerReturns(w) PROVE TInv'
  BY <1>7 DEF ListenerReturns, AcceptBatch, Goto, HandOver
<1>8. ASSUME NEW w \in Workers, ListenerThrows(w) PROVE TInv'
  BY <1>8 DEF ListenerThrows, RejectBatch, Goto, HandOver
<1>9. ASSUME NEW w \in Workers, Proceed(w) PROVE TInv'
  <2>1. CASE EnterLoop(w)
    BY <1>9, <2>1 DEF Proceed, EnterLoop, Goto, historyVars
  <2>2. CASE Retry(w)
    BY <1>9, <2>2 DEF Proceed, Retry, Goto, historyVars
  <2>3. CASE Continue(w)
    <3>1. actualRetry[w] \in 0..MaxRetries /\ actualRetry[w] # MaxRetries
      BY <2>3 DEF Continue
    <3>2. QED
      BY <1>9, <2>3, <3>1 DEF Proceed, Continue, Goto, historyVars
  <2>4. QED
    BY <1>9, <2>1, <2>2, <2>3 DEF Proceed
<1>10. ASSUME NEW w \in Workers, Abandon(w) PROVE TInv'
  BY <1>10 DEF Abandon, GiveUp, HonourStop, Goto
<1>11. ASSUME NEW w \in Workers, Return(w) PROVE TInv'
  BY <1>11 DEF Return, LeaveLoop, Goto
<1>12. QED
  BY <1>1, <1>2, <1>3, <1>4, <1>5, <1>6, <1>7, <1>8, <1>9, <1>10, <1>11
  DEF Next, Step

(* Types: above all, the retries of a batch never pass MaxRetries, the     *)
(* value whose exact hit makes harvest() give up (lines 125-131).          *)
THEOREM TypeCorrect == Spec => []TypeOK
<1>1. TInv => TypeOK
  BY DEF TInv
<1>2. QED
  BY InitTInv, NextTInv, <1>1, PTL DEF Spec

-----------------------------------------------------------------------------
(* The stop flag. *)

\* A batch was taken with the flag up: the loop is on its way out.
StopInv ==
  \A w \in Workers :
    /\ sinceStop[w] <= 1
    /\ sinceStop[w] = 1 =>
         stopSignalReceived[w] /\ at[w] \in {"idle", "while", "check"}

LEMMA NextStopInv == TypeOK /\ StopInv /\ [Next]_vars => StopInv'
<1> USE DEF TypeOK, HarvesterTypeOK, StopInv
<1> SUFFICES ASSUME TypeOK, StopInv, [Next]_vars PROVE StopInv'
  OBVIOUS
<1>1. CASE UNCHANGED vars
  BY <1>1 DEF vars, harvesterVars, historyVars
<1>2. ASSUME NEW w \in Workers, CallHarvest(w) PROVE StopInv'
  BY <1>2 DEF CallHarvest, StartHarvest, Goto
<1>3. ASSUME NEW w \in Workers, CallReset(w) PROVE StopInv'
  BY <1>3 DEF CallReset, ResetStop
<1>4. ASSUME NEW w \in Workers, CallStop(w) PROVE StopInv'
  BY <1>4 DEF CallStop, SignalStop, historyVars
<1>5. ASSUME NEW w \in Workers, GetPage(w) PROVE StopInv'
  BY <1>5 DEF GetPage, Respond, Goto
<1>6. ASSUME NEW w \in Workers, GetNothing(w) PROVE StopInv'
  BY <1>6 DEF GetNothing, FailRequest, Goto
<1>7. ASSUME NEW w \in Workers, ListenerReturns(w) PROVE StopInv'
  BY <1>7 DEF ListenerReturns, AcceptBatch, Goto
<1>8. ASSUME NEW w \in Workers, ListenerThrows(w) PROVE StopInv'
  BY <1>8 DEF ListenerThrows, RejectBatch, Goto
<1>9. ASSUME NEW w \in Workers, Proceed(w) PROVE StopInv'
  BY <1>9 DEF Proceed, EnterLoop, MoreToAsk, Retry, Continue, Goto, historyVars
<1>10. ASSUME NEW w \in Workers, Abandon(w) PROVE StopInv'
  BY <1>10 DEF Abandon, GiveUp, HonourStop, Goto
<1>11. ASSUME NEW w \in Workers, Return(w) PROVE StopInv'
  BY <1>11 DEF Return, LeaveLoop, Goto
<1>12. QED
  BY <1>1, <1>2, <1>3, <1>4, <1>5, <1>6, <1>7, <1>8, <1>9, <1>10, <1>11
  DEF Next, Step

(* Whatever the server sends and however often harvest() is called again,  *)
(* a raised stop flag lets at most one more batch in (lines 83, 133-139).  *)
THEOREM StopBound == Spec => []OneBatchAfterStop
<1>1. Init => StopInv
  <2> SUFFICES ASSUME Init, NEW w \in Workers
               PROVE sinceStop[w] <= 1 /\ sinceStop[w] # 1
    BY DEF StopInv
  <2>1. sinceStop[w] = 0
    BY DEF Init
  <2>2. QED
    BY <2>1
<1>2. StopInv => OneBatchAfterStop
  BY DEF StopInv, OneBatchAfterStop
<1>3. QED
  BY <1>1, <1>2, NextStopInv, TypeCorrect, PTL DEF Spec

-----------------------------------------------------------------------------
(* The order of the pages, on a server whose listing ends. *)

LEMMA InitFeed == TypeOK /\ Init => TokenFollowsPages /\ Feed!Init
<1> SUFFICES ASSUME TypeOK, Init PROVE TokenFollowsPages /\ Feed!Init
  OBVIOUS
<1>1. Feed!Init
  BY DEF Init, Feed!Init
<1>2. ASSUME NEW w \in Workers
      PROVE /\ at[w] = "idle" /\ phase[w] = "off"
            /\ accepted[w] = {} /\ handed[w] = 0 /\ handed[w] <= 1
  <2>1. /\ at[w] = "idle" /\ phase[w] = "off"
        /\ accepted[w] = {} /\ handed[w] = 0
    BY DEF Init, HarvesterInit
  <2>2. QED
    BY <2>1
<1>3. TokenFollowsPages
  BY <1>2 DEF TokenFollowsPages
<1>4. QED
  BY <1>1, <1>3

LEMMA NextTokenFollowsPages ==
  ASSUME EndlessServer = FALSE, TypeOK, TypeOK', TokenFollowsPages, [Next]_vars
  PROVE  TokenFollowsPages'
<1> USE HarvesterAssumption
    DEF TypeOK, HarvesterTypeOK, TokenFollowsPages, TokenIsNext, NoToken, Pages
<1>1. CASE UNCHANGED vars
  BY <1>1 DEF vars, harvesterVars, historyVars
<1>2. ASSUME NEW w \in Workers, CallHarvest(w) PROVE TokenFollowsPages'
  BY <1>2 DEF CallHarvest, StartHarvest, Goto
<1>3. ASSUME NEW w \in Workers, CallReset(w) PROVE TokenFollowsPages'
  BY <1>3 DEF CallReset, ResetStop
<1>4. ASSUME NEW w \in Workers, CallStop(w) PROVE TokenFollowsPages'
  BY <1>4 DEF CallStop, SignalStop, historyVars
<1>5. ASSUME NEW w \in Workers, GetPage(w) PROVE TokenFollowsPages'
  BY <1>5 DEF GetPage, Respond, Goto, RequestedPage, TokensOf
<1>6. ASSUME NEW w \in Workers, GetNothing(w) PROVE TokenFollowsPages'
  BY <1>6 DEF GetNothing, FailRequest, Goto
<1>7. ASSUME NEW w \in Workers, ListenerReturns(w) PROVE TokenFollowsPages'
  BY <1>7 DEF ListenerReturns, AcceptBatch, Goto, HandOver
<1>8. ASSUME NEW w \in Workers, ListenerThrows(w) PROVE TokenFollowsPages'
  BY <1>8 DEF ListenerThrows, RejectBatch, Goto, HandOver
<1>9. ASSUME NEW w \in Workers, Proceed(w) PROVE TokenFollowsPages'
  BY <1>9 DEF Proceed, EnterLoop, Retry, Continue, Goto, historyVars
<1>10. ASSUME NEW w \in Workers, Abandon(w) PROVE TokenFollowsPages'
  BY <1>10 DEF Abandon, GiveUp, HonourStop, Goto
<1>11. ASSUME NEW w \in Workers, Return(w) PROVE TokenFollowsPages'
  BY <1>11 DEF Return, LeaveLoop, Goto
<1>12. QED
  BY <1>1, <1>2, <1>3, <1>4, <1>5, <1>6, <1>7, <1>8, <1>9, <1>10, <1>11
  DEF Next, Step

LEMMA FeedStep ==
  ASSUME EndlessServer = FALSE, TypeOK, TokenFollowsPages, [Next]_vars
  PROVE  [Feed!Next]_(Feed!vars)
<1> USE HarvesterAssumption
    DEF TypeOK, HarvesterTypeOK, TokenFollowsPages, TokenIsNext, NoToken, Pages,
        Feed!vars, Feed!Next
<1>1. CASE UNCHANGED vars
  BY <1>1 DEF vars, historyVars
<1>2. ASSUME NEW w \in Workers, CallHarvest(w) PROVE Feed!Open(w)
  BY <1>2 DEF CallHarvest, StartHarvest, Goto, Feed!Open
<1>3. ASSUME NEW w \in Workers,
             CallReset(w) \/ CallStop(w) \/ GetPage(w) \/ GetNothing(w) \/ Proceed(w)
      PROVE UNCHANGED Feed!vars
  BY <1>3 DEF CallReset, CallStop, GetPage, GetNothing, Proceed, historyVars
<1>4. ASSUME NEW w \in Workers, ListenerReturns(w) \/ ListenerThrows(w)
      PROVE Feed!HandOver(w) \/ UNCHANGED Feed!vars
  <2>1. /\ at[w] = "fire" /\ phase[w] = "on"
        /\ HandOver(w)
        /\ UNCHANGED phase
    BY <1>4 DEF ListenerReturns, ListenerThrows, AcceptBatch, RejectBatch, Goto
  <2>2. handed[w] \in 0..LastPage /\ page[w] \in 1..LastPage
    OBVIOUS
  <2>3. page[w] = handed[w] + 1 \/ page[w] <= handed[w]
    BY <2>1, <2>2
  <2>4. CASE page[w] = handed[w] + 1
    <3>1. handed[w] < LastPage /\ page[w] > handed[w]
      BY <2>2, <2>4
    <3>2. handed' = [handed EXCEPT ![w] = handed[w] + 1]
      BY <2>1, <2>4, <3>1 DEF HandOver
    <3>3. QED
      BY <2>1, <3>1, <3>2 DEF Feed!HandOver
  <2>5. CASE page[w] <= handed[w]
    BY <2>1, <2>2, <2>5 DEF HandOver
  <2>6. QED
    BY <2>3, <2>4, <2>5
<1>5. ASSUME NEW w \in Workers, Abandon(w) PROVE Feed!CutShort(w)
  BY <1>5 DEF Abandon, GiveUp, HonourStop, Goto, Feed!CutShort
<1>6. ASSUME NEW w \in Workers, Return(w)
      PROVE Feed!Complete(w) \/ Feed!CutShort(w)
  BY <1>6 DEF Return, LeaveLoop, MoreToAsk, Goto, Feed!Complete, Feed!CutShort
<1>7. QED
  BY <1>1, <1>2, <1>3, <1>4, <1>5, <1>6 DEF Next, Step

(* After every failed request and every event that threw, the token and    *)
(* batchIndex still ask for the page after the last one handed over (lines *)
(* 83-106, 164-167).                                                       *)
THEOREM TokenInvariant == EndlessServer = FALSE => (Spec => []TokenFollowsPages)
<1> SUFFICES ASSUME EndlessServer = FALSE PROVE Spec => []TokenFollowsPages
  OBVIOUS
<1>1. TypeOK /\ Init => TokenFollowsPages
  BY InitFeed
<1>2. TypeOK /\ TypeOK' /\ TokenFollowsPages /\ [Next]_vars => TokenFollowsPages'
  BY NextTokenFollowsPages
<1>3. QED
  BY <1>1, <1>2, TypeCorrect, PTL DEF Spec

(* No page whose OK event returned is handed over again (lines 83-104).    *)
THEOREM NoPageTwice == EndlessServer = FALSE => (Spec => []AcceptedOnce)
<1> SUFFICES ASSUME EndlessServer = FALSE PROVE Spec => []AcceptedOnce
  OBVIOUS
<1>1. TypeOK /\ TokenFollowsPages => AcceptedOnce
  <2> SUFFICES ASSUME TypeOK, TokenFollowsPages, NEW w \in Workers, at[w] = "fire"
               PROVE page[w] \notin accepted[w]
    BY DEF AcceptedOnce
  <2>1. handed[w] \in Nat /\ page[w] \in Nat
    BY HarvesterAssumption DEF TypeOK, HarvesterTypeOK, Pages
  <2>2. CASE started[w]
    BY <2>1, <2>2 DEF TokenFollowsPages
  <2>3. CASE ~started[w]
    BY <2>3 DEF TokenFollowsPages
  <2>4. QED
    BY <2>2, <2>3
<1>2. Spec => []TokenFollowsPages
  BY TokenInvariant
<1>3. QED
  BY <1>1, <1>2, TypeCorrect, PTL

(* harvest() implements PageFeed: every page in order, none left out, and  *)
(* a silent return only after the last one or under the stop flag (lines   *)
(* 83-141).                                                                *)
THEOREM ImplementsFeed == EndlessServer = FALSE => (Spec => FeedsPages)
<1> SUFFICES ASSUME EndlessServer = FALSE PROVE Spec => FeedsPages
  OBVIOUS
<1>1. TypeOK /\ Init => Feed!Init
  BY InitFeed
<1>2. TypeOK /\ TokenFollowsPages /\ [Next]_vars => [Feed!Next]_(Feed!vars)
  BY FeedStep
<1>3. Spec => []TokenFollowsPages
  BY TokenInvariant
<1>4. QED
  BY <1>1, <1>2, <1>3, TypeCorrect, PTL DEF Spec, FeedsPages, Feed!Spec

-----------------------------------------------------------------------------
(* The number of requests. *)

\* 1 while a request of the current batch is not yet counted in actualRetry.
Pending(w) == IF at[w] \in {"fire", "retry"} THEN 1 ELSE 0

\* Every accepted page has paid for at most MaxRetries requests, the current
\* batch for its failures, and there is a page left to ask for.
RequestInv ==
  \A w \in Workers :
    /\ phase[w] = "on" =>
         asked[w] <= MaxRetries * Cardinality(accepted[w]) + actualRetry[w] + Pending(w)
    /\ asked[w] <= MaxRequests
    /\ at[w] \in {"request", "fire", "retry"} => accepted[w] # Pages

LEMMA AcceptedPages ==
  ASSUME TypeOK, NEW w \in Workers
  PROVE  /\ IsFiniteSet(accepted[w])
         /\ Cardinality(accepted[w]) \in 0..LastPage
         /\ accepted[w] # Pages => Cardinality(accepted[w]) < LastPage
<1>1. IsFiniteSet(Pages) /\ Cardinality(Pages) = LastPage
  BY HarvesterAssumption, FS_Interval DEF Pages
<1>2. accepted[w] \subseteq Pages
  BY DEF TypeOK
<1>3. /\ IsFiniteSet(accepted[w])
      /\ Cardinality(accepted[w]) <= LastPage
      /\ Cardinality(accepted[w]) = LastPage => accepted[w] = Pages
  <2>1. accepted[w] \in SUBSET Pages
    BY <1>2
  <2>2. QED
    BY <1>1, <2>1, FS_Subset
<1>4. Cardinality(accepted[w]) \in Nat
  BY <1>3, FS_CardinalityType
<1>5. QED
  BY <1>3, <1>4, HarvesterAssumption

LEMMA Budget ==
  ASSUME NEW c \in Nat, c < LastPage, NEW r \in Nat, r < MaxRetries
  PROVE  /\ MaxRetries * c \in Nat
         /\ MaxRetries * (c + 1) = MaxRetries * c + MaxRetries
         /\ MaxRetries * c + r + 1 <= MaxRequests
<1>1. LastPage \in Nat /\ MaxRetries \in Nat
  BY HarvesterAssumption
<1>2. MaxRetries * c \in Nat /\ MaxRetries * (c + 1) \in Nat
  BY <1>1
<1>3. MaxRetries * (c + 1) = MaxRetries * c + MaxRetries
  BY <1>1
<1>4. PICK d \in Nat : LastPage = c + 1 + d
  <2>1. LastPage - (c + 1) \in Nat
    BY <1>1
  <2>2. QED
    BY <1>1, <2>1
<1>5. MaxRequests = MaxRetries * (c + 1) + MaxRetries * d
  BY <1>1, <1>4 DEF MaxRequests
<1>6. MaxRetries * d \in Nat
  BY <1>1
<1>7. QED
  BY <1>1, <1>2, <1>3, <1>5, <1>6

LEMMA NextRequestInv ==
  ASSUME EndlessServer = FALSE, TInv, TInv', TokenFollowsPages, RequestInv, [Next]_vars
  PROVE  RequestInv'
<1> DEFINE Done(w) == Cardinality(accepted[w])
<1>a. ASSUME NEW w \in Workers
      PROVE  /\ asked[w] \in Nat /\ asked'[w] \in Nat
             /\ actualRetry[w] \in Nat /\ actualRetry'[w] \in Nat
             /\ LastPage \in Nat /\ MaxRetries \in Nat
             /\ Done(w) \in Nat /\ MaxRequests \in Nat
             /\ MaxRetries * Done(w) \in Nat
  <2>1. LastPage \in Nat /\ MaxRetries \in Nat
    BY HarvesterAssumption
  <2>2. Done(w) \in Nat
    BY AcceptedPages DEF TInv
  <2>3. MaxRetries * Done(w) \in Nat
    BY <2>1, <2>2
  <2>4. asked[w] \in 0..(MaxRequests + 1) /\ asked'[w] \in 0..(MaxRequests + 1)
    BY DEF TInv, TypeOK
  <2>5. actualRetry[w] \in 0..MaxRetries /\ actualRetry'[w] \in 0..MaxRetries
    BY DEF TInv, TypeOK, HarvesterTypeOK
  <2>6. QED
    BY <2>1, <2>2, <2>3, <2>4, <2>5, RequestBoundType
<1> USE DEF RequestInv, Pending, TInv, TypeOK, HarvesterTypeOK
<1>1. CASE UNCHANGED vars
  BY <1>1 DEF vars, harvesterVars, historyVars
<1>2. ASSUME NEW w \in Workers, CallHarvest(w) PROVE RequestInv'
  <2>1. Cardinality({}) = 0 /\ MaxRetries * 0 = 0 /\ 0 <= MaxRequests
    BY <1>a, FS_EmptySet
  <2>2. QED
    BY <1>a, <1>2, <2>1 DEF CallHarvest, StartHarvest, Goto
<1>3. ASSUME NEW w \in Workers, CallReset(w) PROVE RequestInv'
  BY <1>3 DEF CallReset, ResetStop
<1>4. ASSUME NEW w \in Workers, CallStop(w) PROVE RequestInv'
  BY <1>4 DEF CallStop, SignalStop, historyVars
<1>5. ASSUME NEW w \in Workers, GetPage(w) \/ GetNothing(w) PROVE RequestInv'
  <2>1. /\ at[w] = "request" /\ phase[w] = "on" /\ accepted[w] # Pages
        /\ actualRetry[w] < MaxRetries
    BY <1>5 DEF GetPage, GetNothing, Respond, FailRequest, Goto, TokenFollowsPages, RetryBudget
  <2>2. MaxRetries * Done(w) + actualRetry[w] + 1 <= MaxRequests
    BY <1>a, <2>1, AcceptedPages, Budget
  <2>3. asked[w] <= MaxRetries * Done(w) + actualRetry[w]
    BY <1>a, <2>1
  <2>4. asked' = [asked EXCEPT ![w] = asked[w] + 1]
    BY <1>5, <1>a, <2>2, <2>3 DEF GetPage, GetNothing, CountRequest
  <2>5. /\ UNCHANGED <<accepted, phase, actualRetry>>
        /\ at' = [at EXCEPT ![w] = at'[w]] /\ at'[w] \in {"fire", "retry"}
    BY <1>5 DEF GetPage, GetNothing, Respond, FailRequest, Goto
  <2>6. QED
    BY <1>a, <2>1, <2>2, <2>3, <2>4, <2>5
<1>6. ASSUME NEW w \in Workers, ListenerReturns(w) PROVE RequestInv'
  <2>1. /\ at[w] = "fire" /\ phase[w] = "on" /\ accepted[w] # Pages
        /\ actualRetry[w] < MaxRetries
    BY <1>6 DEF ListenerReturns, AcceptBatch, Goto, TokenFollowsPages, RetryBudget
  <2>2. page[w] \notin accepted[w]
    <3>1. handed[w] \in Nat /\ page[w] \in Nat
      BY HarvesterAssumption DEF Pages
    <3>2. QED
      BY <2>1, <3>1 DEF TokenFollowsPages
  <2>3. Cardinality(accepted[w] \union {page[w]}) = Done(w) + 1
    BY <2>2, AcceptedPages, FS_AddElement
  <2>4. MaxRetries * (Done(w) + 1) = MaxRetries * Done(w) + MaxRetries
    BY <1>a, <2>1, AcceptedPages, Budget
  <2>5. asked[w] <= MaxRetries * Done(w) + actualRetry[w] + 1
    BY <1>a, <2>1
  <2>6. asked[w] <= MaxRetries * (Done(w) + 1)
    BY <1>a, <2>1, <2>4, <2>5
  <2>7. /\ UNCHANGED <<asked, phase>>
        /\ accepted' = [accepted EXCEPT ![w] = accepted[w] \union {page[w]}]
        /\ at' = [at EXCEPT ![w] = "check"]
        /\ actualRetry' = [actualRetry EXCEPT ![w] = 0]
    BY <1>6 DEF ListenerReturns, AcceptBatch, Goto
  <2>8. QED
    BY <1>a, <2>3, <2>4, <2>6, <2>7
<1>7. ASSUME NEW w \in Workers, ListenerThrows(w) PROVE RequestInv'
  BY <1>7 DEF ListenerThrows, RejectBatch, Goto
<1>8. ASSUME NEW w \in Workers, Proceed(w) PROVE RequestInv'
  <2>1. CASE EnterLoop(w)
    <3>1. accepted[w] # Pages
      <4>1. CASE ~started[w]
        BY <1>8, <2>1, <4>1, HarvesterAssumption
        DEF EnterLoop, Goto, TokenFollowsPages, Pages
      <4>2. CASE started[w]
        <5>1. resumptionToken[w] # NoToken /\ at[w] = "while"
          BY <2>1, <4>2 DEF EnterLoop, MoreToAsk, Goto
        <5>2. resumptionToken[w] = handed[w] + 1
          BY <4>2, <5>1 DEF TokenFollowsPages, TokenIsNext
        <5>3. handed[w] \in Nat /\ handed[w] + 1 \in Pages
          BY <5>1, <5>2, HarvesterAssumption DEF Pages, NoToken
        <5>4. handed[w] + 1 \notin accepted[w]
          BY <5>3 DEF TokenFollowsPages
        <5>5. QED
          BY <5>3, <5>4
      <4>3. QED
        BY <4>1, <4>2
    <3>2. QED
      BY <1>8, <2>1, <3>1 DEF Proceed, EnterLoop, Goto, historyVars
  <2>2. CASE Retry(w)
    BY <1>8, <1>a, <2>2 DEF Proceed, Retry, Goto, historyVars
  <2>3. CASE Continue(w)
    BY <1>8, <2>3 DEF Proceed, Continue, Goto, historyVars
  <2>4. QED
    BY <1>8, <2>1, <2>2, <2>3 DEF Proceed
<1>9. ASSUME NEW w \in Workers, Abandon(w) PROVE RequestInv'
  BY <1>9 DEF Abandon, GiveUp, HonourStop, Goto
<1>10. ASSUME NEW w \in Workers, Return(w) PROVE RequestInv'
  BY <1>10 DEF Return, LeaveLoop, Goto
<1>11. QED
  BY <1>1, <1>2, <1>3, <1>4, <1>5, <1>6, <1>7, <1>8, <1>9, <1>10 DEF Next, Step

(* The retries are a budget per batch and not per call: MaxRetries for     *)
(* each page of the listing, even when a failure of the listener has       *)
(* already used up the token (lines 86-131).                               *)
THEOREM RequestBound == EndlessServer = FALSE => (Spec => []RequestsBounded)
<1> SUFFICES ASSUME EndlessServer = FALSE PROVE Spec => []RequestsBounded
  OBVIOUS
<1>1. Init => RequestInv
  <2> SUFFICES ASSUME Init, NEW w \in Workers
               PROVE /\ phase[w] # "on" /\ asked[w] <= MaxRequests
                     /\ at[w] \notin {"request", "fire", "retry"}
    BY DEF RequestInv
  <2>1. phase[w] = "off" /\ asked[w] = 0 /\ at[w] = "idle"
    BY DEF Init, HarvesterInit
  <2>2. QED
    BY <2>1, RequestBoundType
<1>2. TInv /\ TInv' /\ TokenFollowsPages /\ RequestInv /\ [Next]_vars => RequestInv'
  BY NextRequestInv
<1>3. RequestInv => RequestsBounded
  BY DEF RequestInv, RequestsBounded
<1>4. Spec => []TokenFollowsPages
  BY TokenInvariant
<1>5. QED
  BY <1>1, <1>2, <1>3, <1>4, InitTInv, NextTInv, PTL DEF Spec

=============================================================================
