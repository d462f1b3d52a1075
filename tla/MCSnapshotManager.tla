-------------------------- MODULE MCSnapshotManager --------------------------
(* SnapshotManager on a few workers and snapshots. *)
EXTENDS SnapshotManager, TLC

\* The networks' switches.
IndexedTwice == [published |-> TRUE, runIndexing |-> TRUE, runXOAI |-> TRUE]
OnlyXOAI == [published |-> TRUE, runIndexing |-> FALSE, runXOAI |-> TRUE]
Indexed == [published |-> TRUE, runIndexing |-> TRUE, runXOAI |-> FALSE]
Unpublished == [published |-> FALSE, runIndexing |-> TRUE, runXOAI |-> FALSE]

NotIndexed == [published |-> TRUE, runIndexing |-> FALSE, runXOAI |-> FALSE]

OneConfig == {Indexed}
AllConfigs == {IndexedTwice, OnlyXOAI, NotIndexed, Unpublished}

\* Nothing tells one identifier of the database from another.
Symmetry == Permutations(Snapshots)

=============================================================================
