---------------------------- MODULE MCHarvestLoop ----------------------------
(* HarvestLoop on one harvester. *)
EXTENDS HarvestLoop

=============================================================================
