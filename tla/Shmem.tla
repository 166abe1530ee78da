------------------------------- MODULE Shmem -------------------------------
(***************************************************************************)
(* The shared-memory heap of the coprocessor, firmware/shmem.cpp: a table  *)
(* with one entry per block, in which the first block of every region      *)
(* records the length of the region and all others record 0.               *)
(*                                                                         *)
(* The loops over the regions are steps.  Sizes and addresses are unsigned *)
(* words, as in the code.                                                  *)
(***************************************************************************)
EXTENDS Integers, FiniteSets

CONSTANTS
  NumBlocks,    \* NUM_HEAP_BLOCKS
  BlockSize,    \* SHARED_MEMORY_BLOCK_SIZE
  HeapStart,    \* SHARED_MEMORY_HEAP_START
  Word,         \* 2^16, the range of uint16_t
  MaxSize       \* bound: the largest size a sketch asks for

\* num_blocks_in_region is a field of 7 bits.
ASSUME ShmemAssumption ==
  /\ NumBlocks \in 1..127
  /\ BlockSize \in Nat \ {0}
  /\ HeapStart \in Nat \ {0}
  /\ Word \in Nat
  /\ HeapStart + NumBlocks * BlockSize <= Word
  /\ MaxSize \in 0..(Word - 1)

NULL == 0
Blocks == 0..(NumBlocks - 1)
Address(b) == b * BlockSize + HeapStart

VARIABLES
  num,          \* heap_blocks[b].num_blocks_in_region
  allocated,    \* heap_blocks[b].is_allocated
  pc,           \* "idle", or the loop that runs: "alloc", "merge", "stat"
  i,            \* its index
  size,         \* |size| of shmem_alloc, 0 outside it
  want,         \* |num_blocks_to_alloc|
  block,        \* |block_index| of shmem_free
  addr,         \* the last address shmem_alloc returned
  tally,        \* shmem_stat: free blocks, current and largest free run
  stat,         \* the last answer of shmem_stat, in bytes
  live          \* history: the regions sketches hold, first block -> blocks

table == <<num, allocated>>
vars  == <<table, pc, i, size, want, block, addr, tally, stat, live>>

TypeOK ==
  /\ num \in [Blocks -> 0..NumBlocks]
  /\ allocated \in [Blocks -> BOOLEAN]
  /\ pc \in {"idle", "alloc", "merge", "stat"}
  /\ i \in 0..NumBlocks
  /\ size \in 0..MaxSize
  /\ want \in Nat
  /\ block \in Blocks
  /\ addr \in Nat
  /\ tally \in [free : Nat, run : Nat, best : Nat]
  /\ stat \in [total : Nat, largest : Nat]
  /\ live \in [DOMAIN live -> Nat] /\ DOMAIN live \subseteq Blocks

\* shmem_init: one free region.
Init ==
  /\ num = [b \in Blocks |-> IF b = 0 THEN NumBlocks ELSE 0]
  /\ allocated = [b \in Blocks |-> FALSE]
  /\ pc = "idle"
  /\ i = 0
  /\ size = 0
  /\ want = 0
  /\ block = 0
  /\ addr = NULL
  /\ tally = [free |-> 0, run |-> 0, best |-> 0]
  /\ stat = [total |-> 0, largest |-> 0]
  /\ live = [b \in {} |-> 0]

NoTally == [free |-> 0, run |-> 0, best |-> 0]

\* A function returns, and its local variables are gone.
Returns ==
  /\ pc' = "idle"
  /\ i' = 0 /\ size' = 0 /\ want' = 0 /\ block' = 0
  /\ tally' = NoTally

----------------------------------------------------------------------------
(* shmem_alloc.                                                            *)

\* Rounding down: a request that is no multiple of a block comes up short.
BlocksForFloor(s) == IF s < BlockSize THEN 1 ELSE s \div BlockSize

\* The sum wraps around at 2^16, before the division.
BlocksFor(s) == ((s + BlockSize - 1) % Word) \div BlockSize

Alloc(s) ==
  /\ pc = "idle"
  /\ IF s = 0
       THEN addr' = NULL /\ UNCHANGED <<pc, size, want>>
       ELSE /\ pc' = "alloc" /\ size' = s /\ want' = BlocksFor(s)
            /\ UNCHANGED addr
  /\ UNCHANGED <<table, i, block, tally, stat, live>>

\* A scan that takes any free region.
SuitsFree(b) == ~allocated[b]

\* A scan that leaves a region alone unless something remains of it.
SuitsWithRest(b) == ~allocated[b] /\ num[b] > want

Suits(b) == ~allocated[b] /\ num[b] >= want

AllocSkip ==
  /\ pc = "alloc"
  /\ i < NumBlocks /\ num[i] > 0 /\ ~Suits(i)
  /\ i' = i + num[i]
  /\ UNCHANGED <<table, pc, size, want, block, addr, tally, stat, live>>

AllocFail ==
  /\ pc = "alloc"
  /\ i = NumBlocks
  /\ addr' = NULL
  /\ Returns
  /\ UNCHANGED <<table, stat, live>>

\* What the sketch was promised: enough blocks for the size it asked for.
Promised(s) == (s + BlockSize - 1) \div BlockSize

\* The remainder of the region, if any, gets a head of its own.  The scan also
\* ends, without a suitable region, at a block that heads none.
AllocTake ==
  /\ pc = "alloc"
  /\ i < NumBlocks
  /\ num[i] > 0 => Suits(i)
  /\ num' = [b \in Blocks |->
               IF b = i THEN want
               ELSE IF b = i + want /\ num[i] > want THEN num[i] - want
               ELSE num[b]]
  /\ allocated' = [b \in Blocks |-> b \in i..(i + want - 1) \/ allocated[b]]
  /\ addr' = Address(i)
  /\ live' = [b \in DOMAIN live \cup {i} |->
                IF b = i THEN Promised(size) ELSE live[b]]
  /\ Returns
  /\ UNCHANGED stat

----------------------------------------------------------------------------
(* shmem_free.                                                             *)

BlockIndex(a) == (a - HeapStart) \div BlockSize

\* The checks at the top: an aligned address inside the heap, of a block that
\* is allocated.  (Past the heap the code reads beyond its table, which has no
\* defined outcome: such addresses are left out.)
Freeable(a) ==
  /\ a % BlockSize = 0
  /\ a >= HeapStart
  /\ allocated[BlockIndex(a)]

\* Only the flag of the first block cleared.
ClearedHead(b, n) == [allocated EXCEPT ![b] = FALSE]

\* The flags once the region of block b, n blocks long, is free.
Cleared(b, n) == [x \in Blocks |-> x \notin b..(b + n - 1) /\ allocated[x]]

\* The counts when free neighbours are left apart.
UnmergedNext(b, n) ==
  [x \in Blocks |-> IF x = b THEN n
                    ELSE IF x \in b..(b + n - 1) THEN 0 ELSE num[x]]

\* The counts, merged with a free region right behind.
MergedNext(b, n) ==
  LET next == b + n
      grows == next < NumBlocks /\ ~Cleared(b, n)[next]
  IN  [x \in Blocks |->
         IF x = b THEN n + (IF grows THEN num[next] ELSE 0)
         ELSE IF x \in b..(next - 1) \/ (x = next /\ grows) THEN 0
         ELSE num[x]]

\* With a free block in front, the loop back to the head of its region starts.
Free(a) ==
  /\ pc = "idle"
  /\ Freeable(a)
  /\ LET b == BlockIndex(a)
         n == num[b]
     IN  /\ allocated' = Cleared(b, n)
         /\ num' = MergedNext(b, n)
         /\ live' = [x \in DOMAIN live \ {b} |-> live[x]]
         /\ IF b = 0 \/ allocated[b - 1]
              THEN UNCHANGED <<pc, i, block>>
              ELSE pc' = "merge" /\ i' = b - 1 /\ block' = b
  /\ UNCHANGED <<size, want, addr, tally, stat>>

\* A loop back that forgets to step.
MergeBackStays ==
  /\ pc = "merge"
  /\ num[i] = 0 /\ i > 0
  /\ UNCHANGED vars

MergeBack ==
  /\ pc = "merge"
  /\ num[i] = 0 /\ i > 0
  /\ i' = i - 1
  /\ UNCHANGED <<table, pc, size, want, block, addr, tally, stat, live>>

\* Were there no head down to block 0, the loop would give up.
MergePrevious ==
  /\ pc = "merge"
  /\ num[i] = 0 => i = 0
  /\ num' = IF num[i] = 0 THEN num
            ELSE [num EXCEPT ![i] = @ + num[block], ![block] = 0]
  /\ Returns
  /\ UNCHANGED <<allocated, addr, stat, live>>

----------------------------------------------------------------------------
(* shmem_stat.                                                             *)

Stat ==
  /\ pc = "idle"
  /\ pc' = "stat"
  /\ UNCHANGED <<table, i, size, want, block, addr, tally, stat, live>>

\* Counting that takes the largest region for the largest run so far.
CountLastRun(t, b) ==
  IF allocated[b] THEN [t EXCEPT !.run = 0]
  ELSE [free |-> t.free + num[b], run |-> t.run + num[b],
        best |-> t.run + num[b]]

Count(t, b) ==
  IF allocated[b] THEN [t EXCEPT !.run = 0]
  ELSE LET run == t.run + num[b]
       IN  [free |-> t.free + num[b], run |-> run,
            best |-> IF run > t.best THEN run ELSE t.best]

StatStep ==
  /\ pc = "stat"
  /\ i < NumBlocks /\ num[i] > 0
  /\ tally' = Count(tally, i)
  /\ i' = i + num[i]
  /\ UNCHANGED <<table, pc, size, want, block, addr, stat, live>>

StatEnd ==
  /\ pc = "stat"
  /\ i < NumBlocks => num[i] = 0
  /\ stat' = [total |-> (tally.free * BlockSize) % Word,
              largest |-> (tally.best * BlockSize) % Word]
  /\ Returns
  /\ UNCHANGED <<table, addr, live>>

----------------------------------------------------------------------------
Addresses == 0..(HeapStart + NumBlocks * BlockSize - 1)

Loop ==
  \/ AllocSkip \/ AllocFail \/ AllocTake
  \/ MergeBack \/ MergePrevious
  \/ StatStep \/ StatEnd

Next ==
  \/ \E s \in 0..MaxSize : Alloc(s)
  \/ \E a \in Addresses : Free(a)
  \/ Stat
  \/ Loop

Spec == Init /\ [][Next]_vars

\* The coprocessor keeps running: a loop that was entered goes on.
FairSpec == Spec /\ WF_vars(Loop)

----------------------------------------------------------------------------
(* Properties.                                                             *)

Head(b) == num[b] > 0
RegionOf(b) == b..(b + num[b] - 1)

\* The comment on HeapBlock: the blocks are cut into regions without gap or
\* overlap, and only the first block of a region has a count.
Tiled ==
  /\ Head(0)
  /\ \A h \in Blocks : Head(h) =>
       /\ h + num[h] \in Blocks => Head(h + num[h])
       /\ h + num[h] <= NumBlocks
       /\ \A b \in RegionOf(h) \ {h} : ~Head(b)
  /\ \A b \in Blocks : \E h \in Blocks : Head(h) /\ b \in RegionOf(h)

\* A region is allocated or free as a whole.
Uniform ==
  \A h \in Blocks : Head(h) =>
    \A b \in RegionOf(h) : allocated[b] = allocated[h]

\* Two free regions are never neighbours: shmem_free merges on both sides.
Coalesced ==
  \A h \in Blocks :
    Head(h) /\ ~allocated[h] /\ h + num[h] \in Blocks =>
      \/ allocated[h + num[h]]
      \/ pc = "merge" /\ h + num[h] = block

\* The allocated regions are those sketches hold, at the length they asked
\* for, in spite of double frees and of frees inside a region.
LiveMatches ==
  /\ DOMAIN live = {b \in Blocks : Head(b) /\ allocated[b]}
  /\ \A b \in DOMAIN live : live[b] = num[b]

\* What the loops have established so far: they stand on a head, the search
\* has passed no region that suits, and the merge stands in the free region
\* right before |block|.
Scanning ==
  /\ pc = "idle" => i = 0
  /\ pc \in {"alloc", "stat"} /\ i < NumBlocks => Head(i)

Searching ==
  /\ pc = "alloc" <=> size > 0
  /\ pc = "alloc" =>
       /\ want = Promised(size)
       /\ want > 0
       /\ \A h \in Blocks : h < i /\ Head(h) => ~Suits(h)

Merging ==
  pc = "merge" =>
    /\ Head(block) /\ ~allocated[block]
    /\ i < block /\ ~allocated[i]
    /\ \A b \in (i + 1)..(block - 1) : ~Head(b)

HeapInv ==
  /\ Tiled /\ Uniform /\ Coalesced /\ LiveMatches
  /\ Scanning /\ Searching /\ Merging

\* The regions in the hands of sketches lie in the heap, apart from each other.
LiveDisjoint ==
  \A a, b \in DOMAIN live :
    /\ a + live[a] <= NumBlocks
    /\ a < b => a + live[a] <= b

\* Once everything has been given back the heap is whole again.
NoFragments ==
  pc = "idle" /\ DOMAIN live = {} => num[0] = NumBlocks

\* shmem_stat tells the truth: all free blocks, and the longest run of them.
FreeBlocks == {b \in Blocks : ~allocated[b]}
FreeRuns == {n \in 0..NumBlocks :
               \E b \in Blocks : b..(b + n - 1) \subseteq FreeBlocks}

StatTruthful ==
  [][pc = "stat" /\ pc' = "idle" =>
       /\ stat'.total = BlockSize * Cardinality(FreeBlocks)
       /\ stat'.largest \in {BlockSize * n : n \in FreeRuns}
       /\ \A n \in FreeRuns : BlockSize * n <= stat'.largest]_vars

\* The block table implements the heap.
Abstract == INSTANCE Heap WITH
  Base <- HeapStart, Sizes <- 0..MaxSize, owned <- live, request <- size, reply <- addr

ImplementsHeap == Abstract!Spec

\* No loop over the table runs for ever.
LoopsEnd == pc # "idle" ~> pc = "idle"
============================================================================
