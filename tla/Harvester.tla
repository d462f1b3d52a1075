------------------------------ MODULE Harvester ------------------------------
(***************************************************************************)
(* The OAI-PMH harvester of the backend, OCLCBasedHarvesterImpl.  Every    *)
(* snapshot worker has a harvester bean of its own (prototype scope), so   *)
(* the state is a function of the worker.  harvest() is a loop around one  *)
(* ListRecords request: each response is handed to the listener as an OK   *)
(* event, each exception is an ERROR_RETRY event followed by a sleep, and  *)
(* the loop ends on an empty resumption token, after MaxRetries failures   *)
(* in a row (ERROR_FATAL) or on the administrator's stop signal            *)
(* (STOP_SIGNAL_RECEIVED).                                                 *)
(*                                                                         *)
(* The module has the steps of the loop and no specification of its own:   *)
(* HarvestLoop runs them alone, SnapshotManager runs them inside the       *)
(* workers, with the work the listener does on each event.                 *)
(*                                                                         *)
(* Abstractions.  A resumption token is the number of the page it asks     *)
(* for.  batchIndex is only ever compared with zero: started stands for    *)
(* batchIndex > 0.  The seconds slept are not modelled.                    *)
(***************************************************************************)
EXTENDS Naturals

CONSTANTS
  Workers,        \* the workers, each with its harvester
  LastPage,       \* pages the OAI server answers with to one listing
  MaxRetries,     \* harvester.max.retries
  EndlessServer   \* TRUE: the last page may carry a token to itself

ASSUME HarvesterAssumption ==
  /\ LastPage \in Nat \ {0}
  /\ MaxRetries \in Nat \ {0}
  /\ EndlessServer \in BOOLEAN

VARIABLES
  at,                  \* where harvest() is, "idle" outside of it
  started,             \* batchIndex > 0
  actualRetry,         \* failures in a row
  resumptionToken,     \* page to ask for next, NoToken for null and for ""
  page,                \* page of the last response
  stopSignalReceived   \* the flag stop() raises and reset() clears

harvesterVars ==
  <<at, started, actualRetry, resumptionToken, page, stopSignalReceived>>

Pages == 1..LastPage
NoToken == 0
Points == {"idle", "while", "request", "fire", "retry", "check"}

HarvesterTypeOK ==
  /\ at \in [Workers -> Points]
  /\ started \in [Workers -> BOOLEAN]
  /\ actualRetry \in [Workers -> 0..MaxRetries]
  /\ resumptionToken \in [Workers -> {NoToken} \union Pages]
  /\ page \in [Workers -> Pages]
  /\ stopSignalReceived \in [Workers -> BOOLEAN]

HarvesterInit ==
  /\ at = [w \in Workers |-> "idle"]
  /\ started = [w \in Workers |-> FALSE]
  /\ actualRetry = [w \in Workers |-> 0]
  /\ resumptionToken = [w \in Workers |-> NoToken]
  /\ page = [w \in Workers |-> 1]
  /\ stopSignalReceived = [w \in Workers |-> FALSE]

Goto(w, from, to) ==
  /\ at[w] = from
  /\ at' = [at EXCEPT ![w] = to]

-----------------------------------------------------------------------------
(* Called by the worker and, for stop(), by the administrator's thread. *)

\* Mutated: the variables of harvest() are fields nobody resets.
StartHarvestGoingOn(w) ==
  /\ Goto(w, "idle", "while")
  /\ UNCHANGED <<started, actualRetry, resumptionToken, page, stopSignalReceived>>

\* Mutated: harvest() resets the stop flag itself.
StartHarvestResetting(w) ==
  /\ Goto(w, "idle", "while")
  /\ started' = [started EXCEPT ![w] = FALSE]
  /\ actualRetry' = [actualRetry EXCEPT ![w] = 0]
  /\ resumptionToken' = [resumptionToken EXCEPT ![w] = NoToken]
  /\ stopSignalReceived' = [stopSignalReceived EXCEPT ![w] = FALSE]
  /\ UNCHANGED page

\* harvest(): the local variables start anew, the stop flag does not.
StartHarvest(w) ==
  /\ Goto(w, "idle", "while")
  /\ started' = [started EXCEPT ![w] = FALSE]
  /\ actualRetry' = [actualRetry EXCEPT ![w] = 0]
  /\ resumptionToken' = [resumptionToken EXCEPT ![w] = NoToken]
  /\ UNCHANGED <<page, stopSignalReceived>>

\* Mutated: the harvesting thread never sees the flag.
SignalStopUnseen(w) == w \in Workers /\ UNCHANGED harvesterVars

SignalStop(w) ==
  /\ stopSignalReceived' = [stopSignalReceived EXCEPT ![w] = TRUE]
  /\ UNCHANGED <<at, started, actualRetry, resumptionToken, page>>

ResetStop(w) ==
  /\ stopSignalReceived' = [stopSignalReceived EXCEPT ![w] = FALSE]
  /\ UNCHANGED <<at, started, actualRetry, resumptionToken, page>>

-----------------------------------------------------------------------------
(* The steps of the loop. *)

\* Mutated: the loop condition forgets the stop flag.
MoreTokens(w) == ~started[w] \/ resumptionToken[w] # NoToken

MoreToAsk(w) ==
  /\ ~stopSignalReceived[w]
  /\ \/ ~started[w]
     \/ resumptionToken[w] # NoToken

EnterLoop(w) ==
  /\ MoreToAsk(w)
  /\ Goto(w, "while", "request")
  /\ UNCHANGED <<started, actualRetry, resumptionToken, page, stopSignalReceived>>

\* No event is fired here, whatever made the condition false.
LeaveLoop(w) ==
  /\ ~MoreToAsk(w)
  /\ Goto(w, "while", "idle")
  /\ UNCHANGED <<started, actualRetry, resumptionToken, page, stopSignalReceived>>

\* listRecords() ignores the token of the first batch and asks from the start.
RequestedPage(w) == IF started[w] THEN resumptionToken[w] ELSE 1

\* What the OAI server puts in the page it answers with.
TokensOf(p) ==
  IF p < LastPage THEN {p + 1}
  ELSE IF EndlessServer THEN {NoToken, p} ELSE {NoToken}

\* The token moves on before the event is built and fired.
Respond(w) ==
  /\ RequestedPage(w) # NoToken
  /\ Goto(w, "request", "fire")
  /\ page' = [page EXCEPT ![w] = RequestedPage(w)]
  /\ \E token \in TokensOf(RequestedPage(w)) :
       resumptionToken' = [resumptionToken EXCEPT ![w] = token]
  /\ UNCHANGED <<started, actualRetry, stopSignalReceived>>

\* Mutated: a failed request moves the token on as well.
FailRequestMovingOn(w) ==
  /\ Goto(w, "request", "retry")
  /\ resumptionToken' = [resumptionToken EXCEPT ![w] =
                           IF @ \in 1..(LastPage - 1) THEN @ + 1 ELSE NoToken]
  /\ UNCHANGED <<started, actualRetry, page, stopSignalReceived>>

\* An I/O error, an answer that does not parse or an OAI error: always the
\* case of a request with an empty token, which the protocol rejects.
FailRequest(w) ==
  /\ Goto(w, "request", "retry")
  /\ UNCHANGED <<started, actualRetry, resumptionToken, page, stopSignalReceived>>

\* Mutated: batchIndex is not incremented.
AcceptBatchUncounted(w) ==
  /\ Goto(w, "fire", "check")
  /\ actualRetry' = [actualRetry EXCEPT ![w] = 0]
  /\ UNCHANGED <<started, resumptionToken, page, stopSignalReceived>>

\* The listener returned from the OK event.
AcceptBatch(w) ==
  /\ Goto(w, "fire", "check")
  /\ started' = [started EXCEPT ![w] = TRUE]
  /\ actualRetry' = [actualRetry EXCEPT ![w] = 0]
  /\ UNCHANGED <<resumptionToken, page, stopSignalReceived>>

\* The listener threw out of the OK event: the token stays moved.
RejectBatch(w) ==
  /\ Goto(w, "fire", "retry")
  /\ UNCHANGED <<started, actualRetry, resumptionToken, page, stopSignalReceived>>

\* Mutated: actualRetry is not incremented.
RetryUncounted(w) ==
  /\ Goto(w, "retry", "request")
  /\ UNCHANGED <<started, actualRetry, resumptionToken, page, stopSignalReceived>>

\* Mutated: the inner loop tests <= for <.
RetryOnceMore(w) ==
  /\ Goto(w, "retry",
          IF actualRetry[w] + 1 <= MaxRetries THEN "request" ELSE "check")
  /\ actualRetry' = [actualRetry EXCEPT ![w] = @ + 1]
  /\ UNCHANGED <<started, resumptionToken, page, stopSignalReceived>>

\* ERROR_RETRY, the sleep and the condition of the inner loop.
Retry(w) ==
  /\ Goto(w, "retry",
          IF actualRetry[w] + 1 < MaxRetries THEN "request" ELSE "check")
  /\ actualRetry' = [actualRetry EXCEPT ![w] = @ + 1]
  /\ UNCHANGED <<started, resumptionToken, page, stopSignalReceived>>

\* ERROR_FATAL: out of retries.
GiveUp(w) ==
  /\ actualRetry[w] = MaxRetries
  /\ Goto(w, "check", "idle")
  /\ UNCHANGED <<started, actualRetry, resumptionToken, page, stopSignalReceived>>

\* STOP_SIGNAL_RECEIVED.
HonourStop(w) ==
  /\ actualRetry[w] # MaxRetries
  /\ stopSignalReceived[w]
  /\ Goto(w, "check", "idle")
  /\ UNCHANGED <<started, actualRetry, resumptionToken, page, stopSignalReceived>>

Continue(w) ==
  /\ actualRetry[w] # MaxRetries
  /\ ~stopSignalReceived[w]
  /\ Goto(w, "check", "while")
  /\ UNCHANGED <<started, actualRetry, resumptionToken, page, stopSignalReceived>>

=============================================================================
