---------------------------- MODULE PagedListing ----------------------------
(***************************************************************************)
(* What a harvester of the OAI provider may rely on.  A listing is a plan, *)
(* snapshots with a number of pages each, fixed by its first answer.  The  *)
(* pages of the plan are given in order, each once, and a listing that     *)
(* ends without an error has given all of them.                            *)
(***************************************************************************)
EXTENDS Naturals, Sequences

VARIABLES
  plan,    \* the snapshots listed: sequence of [snapshot, pages]
  given,   \* sequence of the pages given, as <<place in the plan, page>>
  outcome  \* "open", "whole" or "broken"

vars == <<plan, given, outcome>>

\* The page after a page: of the same snapshot, or the first of the next one.
Following(p, pos) ==
  IF pos[2] + 1 = p[pos[1]].pages THEN <<pos[1] + 1, 0>> ELSE <<pos[1], pos[2] + 1>>

\* The place of the next page.
Next_(p, g) == IF g = <<>> THEN <<1, 0>> ELSE Following(p, g[Len(g)])

Init == plan = <<>> /\ given = <<>> /\ outcome = "open"

\* The next page is given; with the first one the plan is made.
Give ==
  /\ outcome = "open"
  /\ given # <<>> => plan' = plan
  /\ given' = Append(given, Next_(plan, given))
  /\ given'[Len(given')][1] <= Len(plan')
  /\ outcome' = IF Next_(plan', given')[1] > Len(plan') THEN "whole" ELSE "open"

\* There is nothing to list.
GiveNothing ==
  /\ outcome = "open" /\ given = <<>>
  /\ outcome' = "whole"
  /\ UNCHANGED <<plan, given>>

Break ==
  /\ outcome = "open"
  /\ outcome' = "broken"
  /\ UNCHANGED <<plan, given>>

Next == Give \/ GiveNothing \/ Break
Spec == Init /\ [][Next]_vars

=============================================================================
