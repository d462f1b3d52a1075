---------------------------- MODULE MCWebClient ----------------------------
(* Two networks with an origin each and room for more: what is listed, edited, *)
(* appended and deleted while answers come in any order.                       *)
EXTENDS WebClient, TLC

CONSTANTS n1, n2, n3, o1, o2, o3, o4, s1, p1, l1

MCOrder == <<n1, n2, n3, o1, o2, o3, o4, s1, p1, l1>>
MCKindOf ==
  n1 :> "network" @@ n2 :> "network" @@ n3 :> "network"
  @@ o1 :> "origin" @@ o2 :> "origin" @@ o3 :> "origin" @@ o4 :> "origin"
  @@ s1 :> "set" @@ p1 :> "snapshot" @@ l1 :> "log"
MCStored == {n1, n2, o1, o2, p1, l1}
MCFirstParent == [i \in Items |->
  CASE i \in {o1, p1} -> n1 [] i = o2 -> n2 [] i = l1 -> p1 [] OTHER -> None]
=============================================================================
