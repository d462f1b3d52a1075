------------------------------ MODULE PageFeed ------------------------------
(***************************************************************************)
(* What a caller of harvest() may rely on.  The pages of the listing are   *)
(* handed over in order and none is left out: each event carries the page  *)
(* after the last one or, while the first page has not been accepted, the  *)
(* first page again.  A feed that was not cut short has handed over every  *)
(* page when it ends.                                                      *)
(***************************************************************************)
EXTENDS Naturals

CONSTANTS
  Feeds,    \* one per harvester
  LastPage

VARIABLES
  handed,   \* pages handed over are 1..handed
  phase     \* "off", "on" while harvest() runs, "cut" after a cut short end

vars == <<handed, phase>>

Init ==
  /\ handed = [f \in Feeds |-> 0]
  /\ phase = [f \in Feeds |-> "off"]

Open(f) ==
  /\ phase[f] # "on"
  /\ handed' = [handed EXCEPT ![f] = 0]
  /\ phase' = [phase EXCEPT ![f] = "on"]

HandOver(f) ==
  /\ phase[f] = "on"
  /\ handed[f] < LastPage
  /\ handed' = [handed EXCEPT ![f] = @ + 1]
  /\ UNCHANGED phase

Complete(f) ==
  /\ phase[f] = "on"
  /\ handed[f] = LastPage
  /\ phase' = [phase EXCEPT ![f] = "off"]
  /\ UNCHANGED handed

CutShort(f) ==
  /\ phase[f] = "on"
  /\ phase' = [phase EXCEPT ![f] = "cut"]
  /\ UNCHANGED handed

Next == \E f \in Feeds : Open(f) \/ HandOver(f) \/ Complete(f) \/ CutShort(f)

Spec == Init /\ [][Next]_vars

=============================================================================
