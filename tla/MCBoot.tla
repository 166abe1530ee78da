------------------------------- MODULE MCBoot -------------------------------
(* Directories of none to two files, cursor indices of two bits, one reset   *)
(* of the Arduino from outside.                                              *)
EXTENDS Boot
=============================================================================
