------------------------------ MODULE MCShmem ------------------------------
(* The heap with five blocks of two bytes and words of four bits.           *)
EXTENDS Shmem
============================================================================
