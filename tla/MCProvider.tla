----------------------------- MODULE MCProvider -----------------------------
(* Two clients of one address list two networks, one of which is harvested a *)
(* second time, with fewer pages.                                            *)
EXTENDS Provider

CONSTANTS n1, n2, c1, c2, home, unknown

MCByName == <<n1, n2>>
MCNetworkOf == [s \in 1..3 |-> IF s = 3 THEN n2 ELSE n1]
MCPagesOf == [s \in 1..3 |-> IF s = 1 THEN 2 ELSE 1]
MCSetsOf == [c \in {c1, c2} |-> IF c = c1 THEN {AllSets, n1} ELSE {unknown}]
MCAddressOf == [c \in {c1, c2} |-> home]

=============================================================================
