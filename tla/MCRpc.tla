------------------------------- MODULE MCRpc -------------------------------
(* Rpc on three commands, one of each kind: Mem::alloc passes arguments    *)
(* and gets an answer, Mem::free only passes arguments, Mem::stat only     *)
(* gets an answer.                                                         *)
EXTENDS Rpc
============================================================================
