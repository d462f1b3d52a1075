----------------------------- MODULE HarvestLoop -----------------------------
(***************************************************************************)
(* The harvester alone.  Its worker calls reset() and then harvest() once  *)
(* per origin or set, the administrator may raise the stop flag at any     *)
(* moment, every request may fail and the listener may throw out of any OK *)
(* event.  The history variables record what the events show.              *)
(***************************************************************************)
EXTENDS Harvester

VARIABLES
  handed,     \* highest page handed over by this call of harvest()
  accepted,   \* pages of this call whose OK event returned
  phase,      \* "off", "on" during harvest(), "cut" after a cut short end
  asked,      \* requests of this call, counted up to one above their bound
  sinceStop   \* OK events accepted with the flag up, counted up to two

historyVars == <<handed, accepted, phase, asked, sinceStop>>
vars == <<harvesterVars, historyVars>>

MaxRequests == LastPage * MaxRetries

TypeOK ==
  /\ HarvesterTypeOK
  /\ handed \in [Workers -> 0..LastPage]
  /\ accepted \in [Workers -> SUBSET Pages]
  /\ phase \in [Workers -> {"off", "on", "cut"}]
  /\ asked \in [Workers -> 0..(MaxRequests + 1)]
  /\ sinceStop \in [Workers -> 0..2]

Init ==
  /\ HarvesterInit
  /\ handed = [w \in Workers |-> 0]
  /\ accepted = [w \in Workers |-> {}]
  /\ phase = [w \in Workers |-> "off"]
  /\ asked = [w \in Workers |-> 0]
  /\ sinceStop = [w \in Workers |-> 0]

-----------------------------------------------------------------------------
CallHarvest(w) ==
  /\ StartHarvest(w)
  /\ handed' = [handed EXCEPT ![w] = 0]
  /\ accepted' = [accepted EXCEPT ![w] = {}]
  /\ phase' = [phase EXCEPT ![w] = "on"]
  /\ asked' = [asked EXCEPT ![w] = 0]
  /\ UNCHANGED sinceStop

CallReset(w) ==
  /\ at[w] = "idle"
  /\ ResetStop(w)
  /\ sinceStop' = [sinceStop EXCEPT ![w] = 0]
  /\ UNCHANGED <<handed, accepted, phase, asked>>

CallStop(w) ==
  /\ SignalStop(w)
  /\ UNCHANGED historyVars

CountRequest(w) ==
  asked' = [asked EXCEPT ![w] = IF @ > MaxRequests THEN @ ELSE @ + 1]

GetPage(w) ==
  /\ Respond(w)
  /\ CountRequest(w)
  /\ UNCHANGED <<handed, accepted, phase, sinceStop>>

GetNothing(w) ==
  /\ FailRequest(w)
  /\ CountRequest(w)
  /\ UNCHANGED <<handed, accepted, phase, sinceStop>>

HandOver(w) ==
  handed' = [handed EXCEPT ![w] = IF page[w] > @ THEN page[w] ELSE @]

ListenerReturns(w) ==
  /\ AcceptBatch(w)
  /\ HandOver(w)
  /\ accepted' = [accepted EXCEPT ![w] = @ \union {page[w]}]
  /\ sinceStop' = [sinceStop EXCEPT ![w] =
                     IF stopSignalReceived[w] /\ @ < 2 THEN @ + 1 ELSE @]
  /\ UNCHANGED <<phase, asked>>

ListenerThrows(w) ==
  /\ RejectBatch(w)
  /\ HandOver(w)
  /\ UNCHANGED <<accepted, phase, asked, sinceStop>>

Proceed(w) ==
  /\ EnterLoop(w) \/ Retry(w) \/ Continue(w)
  /\ UNCHANGED historyVars

\* FATAL and STOP are events; a return from the loop condition is silent.
Abandon(w) ==
  /\ GiveUp(w) \/ HonourStop(w)
  /\ phase' = [phase EXCEPT ![w] = "cut"]
  /\ UNCHANGED <<handed, accepted, asked, sinceStop>>

Return(w) ==
  /\ LeaveLoop(w)
  /\ phase' = [phase EXCEPT ![w] = IF stopSignalReceived[w] THEN "cut" ELSE "off"]
  /\ UNCHANGED <<handed, accepted, asked, sinceStop>>

Step(w) ==
  \/ GetPage(w)
  \/ GetNothing(w)
  \/ ListenerReturns(w)
  \/ ListenerThrows(w)
  \/ Proceed(w)
  \/ Abandon(w)
  \/ Return(w)

Next ==
  \E w \in Workers :
    \/ CallHarvest(w)
    \/ CallReset(w)
    \/ CallStop(w)
    \/ Step(w)

\* harvest() runs in a thread of the scheduler's pool until it returns.
Spec == Init /\ [][Next]_vars /\ \A w \in Workers : WF_vars(Step(w))

-----------------------------------------------------------------------------
(* Implementation of the abstract feed. *)

Feed == INSTANCE PageFeed WITH Feeds <- Workers

(* Refinement: whatever fails and whoever stops it, harvest() hands the    *)
(* pages over in order, leaves none out, and returns from its loop without *)
(* the stop flag only after the last one (OCLCBasedHarvesterImpl 83-141).  *)
FeedsPages == Feed!Spec

\* The page the token asks for is the one after the last handed over.
TokenIsNext(w, last) ==
  IF resumptionToken[w] = NoToken THEN last = LastPage
  ELSE resumptionToken[w] = last + 1

(* Where the token stands between two requests, whichever of them failed   *)
(* and whichever event threw: the token and batchIndex together are what   *)
(* keeps the pages in order (lines 83-106, 164-167).                       *)
TokenFollowsPages ==
  \A w \in Workers :
    /\ phase[w] = "on" <=> at[w] # "idle"
    /\ accepted[w] \subseteq 1..handed[w]
    /\ ~started[w] => handed[w] <= 1 /\ accepted[w] = {}
    /\ at[w] \in {"while", "request", "retry", "check"} /\ started[w] =>
         TokenIsNext(w, handed[w])
    /\ at[w] = "fire" =>
         /\ page[w] = IF started[w] THEN handed[w] + 1 ELSE 1
         /\ TokenIsNext(w, page[w])

(* A page whose OK event returned is not handed over again: the worker     *)
(* stores a record once per harvest, unless the listener threw after       *)
(* storing the first batch (lines 83-104).                                 *)
AcceptedOnce ==
  \A w \in Workers : at[w] = "fire" => page[w] \notin accepted[w]

(* The retries are a budget per batch: a call of harvest() makes at most   *)
(* MaxRetries requests for each page of the listing (lines 86-131).        *)
RequestsBounded == \A w \in Workers : asked[w] <= MaxRequests

(* Once the stop flag is up, at most one more batch is taken, over all the *)
(* calls of harvest() the worker still makes (lines 83, 133-139).          *)
OneBatchAfterStop == \A w \in Workers : sinceStop[w] <= 1

(* Every call of harvest() returns, however many requests fail.            *)
HarvestReturns == \A w \in Workers : phase[w] = "on" ~> phase[w] # "on"

(* What the ERROR_RETRY message says, "Error lote: <batch> reintento: <n>" *)
(* and "RT Anterior: <token>" (lines 109-113, 145): the batch that failed  *)
(* is the one the retry asks for.                                          *)
RetryAsksForFailedBatch ==
  \A w \in Workers :
    at[w] = "retry" /\ handed[w] > 0 /\ handed[w] \notin accepted[w] =>
      RequestedPage(w) = handed[w]

=============================================================================
