------------------------------- MODULE MCMmc -------------------------------
(* A card of four sectors, so that a byte address taken for a sector number *)
(* still finds one.                                                         *)
EXTENDS Mmc
=============================================================================
