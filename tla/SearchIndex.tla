----------------------------- MODULE SearchIndex -----------------------------
(***************************************************************************)
(* What the readers of a Solr core may rely on.  What they see of a        *)
(* network changes in two ways only: the network is cleared, or a cleared  *)
(* network gets one snapshot, whole unless its records were deleted from   *)
(* the database meanwhile.  The networks damaged by a request that Solr    *)
(* refused are exempt until they are cleared again.                        *)
(***************************************************************************)
EXTENDS Naturals

CONSTANTS
  Networks,
  Snapshots,
  NetworkOf,   \* the network of each snapshot
  PagesOf,     \* the pages of valid records of each snapshot
  MaxPages,
  None

VARIABLES
  content,     \* per network and page: the snapshot the documents are from
  damaged,     \* the networks a failure has touched since they were cleared
  records      \* the snapshots whose records are in the database

vars == <<content, damaged, records>>

Nothing == [p \in 1..MaxPages |-> None]

\* The first k pages of a snapshot.
Prefix(s, k) == [p \in 1..MaxPages |-> IF p <= k THEN s ELSE None]

Init ==
  /\ content = [n \in Networks |-> Nothing]
  /\ damaged = {}
  /\ records = Snapshots

\* What happens to the damaged networks is left open.
Elsewhere(n) ==
  \A m \in Networks : m \in damaged \/ m = n \/ content'[m] = content[m]

Clear(n) ==
  /\ Elsewhere(n)
  /\ content'[n] = Nothing
  /\ damaged' = damaged \ {n}
  /\ UNCHANGED records

Publish(n, s) ==
  /\ NetworkOf[s] = n
  /\ Elsewhere(n)
  /\ content[n] = Nothing
  /\ \E k \in 0..PagesOf[s] :
       /\ content'[n] = Prefix(s, k)
       /\ s \in records => k = PagesOf[s]
  /\ UNCHANGED <<damaged, records>>

\* A failure, or what becomes of an earlier one.
Suffer(n) ==
  /\ Elsewhere(n)
  /\ damaged' = damaged \union {n}
  /\ UNCHANGED records

Forget(s) ==
  /\ records' = records \ {s}
  /\ UNCHANGED <<content, damaged>>

ForgetNetwork(n) ==
  /\ records' = {s \in records : NetworkOf[s] # n}
  /\ UNCHANGED <<content, damaged>>

Next ==
  \/ \E n \in Networks : Clear(n) \/ Suffer(n) \/ ForgetNetwork(n)
  \/ \E n \in Networks, s \in Snapshots : Publish(n, s)
  \/ \E s \in Snapshots : Forget(s)

Spec == Init /\ [][Next]_vars

=============================================================================
