----------------------------- MODULE MCRpcFile -----------------------------
(* Two handles, buffers of two bytes and words of three bits.  The sizes    *)
(* are nothing, less than a buffer, several buffers with and without a      *)
(* rest, and one whose last chunk makes the count of a write wrap around.   *)
EXTENDS RpcFile
============================================================================
