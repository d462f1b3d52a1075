------------------------------ MODULE MCIndexing ------------------------------
(* Indexing on one or two networks. *)
EXTENDS Indexing, TLC

CONSTANTS n1, n2, s1, s2, w1

OneJob == {w1}

\* Two networks with a snapshot each.
TwoNetworks == {n1, n2}
TwoSnapshots == {s1, s2}
TasksOfTwo == {s1, s2, w1}
NetworkOfTwo == (s1 :> n1) @@ (s2 :> n2)

\* One network with one snapshot, or with two.
OneNetwork == {n1}
OneSnapshot == {s1}
TasksOfOne == {s1, w1}
NetworkOfOne == (s1 :> n1)

PagesOfOne == (s1 :> 2)
PagesOfTwo == (s1 :> 2) @@ (s2 :> 1)

=============================================================================
