------------------------------- MODULE Heap --------------------------------
(***************************************************************************)
(* What the shared-memory heap promises a sketch, whatever its block       *)
(* table: regions handed out are disjoint and long enough, a request is    *)
(* refused only when no run of free blocks could hold it, and only what    *)
(* was handed out can be given back.                                       *)
(*                                                                         *)
(* Shmem.tla shows that the block table of firmware/shmem.cpp implements   *)
(* it.                                                                     *)
(***************************************************************************)
EXTENDS Integers

CONSTANTS
  NumBlocks,   \* blocks of the heap
  BlockSize,   \* bytes of a block
  Base,        \* address of the first block, never NULL
  Sizes,       \* sizes a sketch asks for
  NULL         \* address of no block

VARIABLES
  owned,       \* the regions handed out: first block -> number of blocks
  request,     \* the size being allocated, 0 for none
  reply        \* the address the last request was answered with

vars == <<owned, request, reply>>

Blocks == 0..(NumBlocks - 1)
Address(b) == Base + b * BlockSize

\* The blocks a request of |size| bytes takes.
Needed(size) == (size + BlockSize - 1) \div BlockSize

Region(b, n) == b..(b + n - 1)
Used == UNION {Region(b, owned[b]) : b \in DOMAIN owned}
Fits(b, n) == Region(b, n) \subseteq Blocks \ Used

Init ==
  /\ owned = [b \in {} |-> 0]
  /\ request = 0
  /\ reply = NULL

Ask(size) ==
  /\ request = 0
  /\ request' = size
  /\ reply' = IF size = 0 THEN NULL ELSE reply
  /\ UNCHANGED owned

Grant(b) ==
  /\ request > 0
  /\ Fits(b, Needed(request))
  /\ owned' = [x \in DOMAIN owned \cup {b} |->
                 IF x = b THEN Needed(request) ELSE owned[x]]
  /\ reply' = Address(b)
  /\ request' = 0

Refuse ==
  /\ request > 0
  /\ \A b \in Blocks : ~Fits(b, Needed(request))
  /\ reply' = NULL
  /\ request' = 0
  /\ UNCHANGED owned

Release(b) ==
  /\ request = 0
  /\ owned' = [x \in DOMAIN owned \ {b} |-> owned[x]]
  /\ UNCHANGED <<request, reply>>

Next ==
  \/ \E size \in Sizes : Ask(size)
  \/ \E b \in Blocks : Grant(b)
  \/ Refuse
  \/ \E b \in DOMAIN owned : Release(b)

Spec == Init /\ [][Next]_vars
============================================================================
