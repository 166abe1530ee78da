---------------------------- MODULE ShmemProofs ----------------------------
(***************************************************************************)
(* The block table of Shmem is a correct heap, for every number and size   *)
(* of blocks, as long as no request is so large that rounding it up to     *)
(* blocks wraps around.                                                    *)
(***************************************************************************)
EXTENDS Shmem, TLAPS, FiniteSetTheorems

\* The range of requests for which shmem_alloc does not overflow.
NoWrap == MaxSize <= Word - BlockSize

IInv == TypeOK /\ HeapInv

----------------------------------------------------------------------------
(* Arithmetic of sizes and addresses.                                      *)

LEMMA BlocksPromised ==
  ASSUME NoWrap, NEW s \in 1..MaxSize
  PROVE  /\ BlocksFor(s) = Promised(s)
         /\ Promised(s) \in Nat
         /\ Promised(s) > 0
<1>1. s + BlockSize - 1 \in Nat /\ s + BlockSize - 1 < Word
  BY ShmemAssumption DEF NoWrap
<1>2. (s + BlockSize - 1) % Word = s + BlockSize - 1
  BY <1>1, ShmemAssumption
<1>3. (s + BlockSize - 1) \div BlockSize \in Nat
  BY <1>1, ShmemAssumption
<1>4. (s + BlockSize - 1) \div BlockSize >= 1
  BY <1>1, ShmemAssumption
<1> QED BY <1>2, <1>3, <1>4 DEF BlocksFor, Promised

LEMMA IndexInTable ==
  ASSUME NEW a \in Addresses, a >= HeapStart
  PROVE  BlockIndex(a) \in Blocks
<1> DEFINE x == a - HeapStart
<1>1. x \in Nat /\ x < NumBlocks * BlockSize
  BY ShmemAssumption DEF Addresses
<1>2. x \div BlockSize \in Nat /\ (x \div BlockSize) * BlockSize <= x
  BY <1>1, ShmemAssumption
<1>3. x \div BlockSize < NumBlocks
  BY <1>1, <1>2, ShmemAssumption
<1> QED BY <1>2, <1>3, ShmemAssumption DEF BlockIndex, Blocks

----------------------------------------------------------------------------
(* Geometry of a tiled table.                                              *)

LEMMA TableSize == NumBlocks \in Nat /\ NumBlocks > 0 /\ 0 \in Blocks
BY ShmemAssumption DEF Blocks

\* Regions do not overlap.
LEMMA RegionsApart ==
  ASSUME TypeOK, Tiled, NEW g \in Blocks, NEW h \in Blocks,
         Head(g), Head(h), g < h
  PROVE  g + num[g] <= h
<1> SUFFICES ASSUME g + num[g] > h PROVE FALSE
  BY TableSize DEF TypeOK, Blocks
<1>1. h \in RegionOf(g) \ {g}
  BY TableSize DEF TypeOK, Blocks, RegionOf
<1> QED BY <1>1 DEF Tiled

\* A block that heads no region has the flag of the block before it.
LEMMA SameAsPrevious ==
  ASSUME TypeOK, Tiled, Uniform, NEW b \in Blocks, ~Head(b)
  PROVE  b > 0 /\ b - 1 \in Blocks /\ allocated[b - 1] = allocated[b]
<1>1. PICK h \in Blocks : Head(h) /\ b \in RegionOf(h)
  BY DEF Tiled
<1>2. b # h
  BY <1>1
<1>3. num[h] \in Nat
  BY DEF TypeOK
<1>4. b > 0 /\ b - 1 \in RegionOf(h) /\ b - 1 \in Blocks
  BY <1>1, <1>2, <1>3, TableSize DEF Blocks, RegionOf
<1> QED BY <1>1, <1>4 DEF Uniform

----------------------------------------------------------------------------
LEMMA InitIInv == Init => IInv
<1> SUFFICES ASSUME Init PROVE IInv
  OBVIOUS
<1> USE TableSize
<1>1. TypeOK
  <2>1. live \in [DOMAIN live -> Nat] /\ DOMAIN live \subseteq Blocks
    BY DEF Init
  <2> QED BY <2>1, ShmemAssumption DEF Init, TypeOK, Blocks, NoTally, NULL
<1>2. Tiled
  BY DEF Init, Tiled, Head, RegionOf, Blocks
<1>3. Uniform
  <2>1. \A h, b \in Blocks : allocated[h] = allocated[b]
    BY DEF Init
  <2>2. \A h \in Blocks : Head(h) => RegionOf(h) \subseteq Blocks
    BY DEF Init, Head, RegionOf, Blocks
  <2> QED BY <2>1, <2>2 DEF Uniform
<1>4. Coalesced
  BY DEF Init, Coalesced, Head, Blocks
<1>5. LiveMatches
  BY DEF Init, LiveMatches, Blocks
<1>6. Scanning /\ Searching /\ Merging
  BY DEF Init, Scanning, Searching, Merging
<1> QED BY <1>1, <1>2, <1>3, <1>4, <1>5, <1>6 DEF IInv, HeapInv

----------------------------------------------------------------------------
(* Steps that leave the table alone.                                       *)

LEMMA SameTable ==
  ASSUME IInv, UNCHANGED <<table, live>>,
         pc = "merge" => pc' = "merge" /\ block' = block
  PROVE  Tiled' /\ Uniform' /\ Coalesced' /\ LiveMatches'
<1> USE DEF table
<1>1. Tiled' /\ Uniform'
  BY DEF IInv, HeapInv, Tiled, Uniform, Head, RegionOf
<1>2. Coalesced'
  BY DEF IInv, HeapInv, Coalesced, Head
<1>3. LiveMatches'
  BY DEF IInv, HeapInv, LiveMatches, Head
<1> QED BY <1>1, <1>2, <1>3

LEMMA UnchangedKeepsIInv == IInv /\ UNCHANGED vars => IInv'
BY DEF vars, table, IInv, TypeOK, HeapInv, Tiled, Uniform, Coalesced,
       LiveMatches, Scanning, Searching, Merging, Head, RegionOf, Suits

LEMMA AllocKeepsIInv ==
  ASSUME NoWrap, IInv, NEW s \in 0..MaxSize, Alloc(s)
  PROVE  IInv'
<1>1. Tiled' /\ Uniform' /\ Coalesced' /\ LiveMatches'
  BY SameTable DEF Alloc
<1>2. CASE s = 0
  <2>1. TypeOK'
    BY <1>2 DEF Alloc, table, IInv, TypeOK, NULL
  <2>2. Scanning' /\ Searching' /\ Merging'
    BY <1>2 DEF Alloc, IInv, HeapInv, Scanning, Searching, Merging
  <2> QED BY <1>1, <2>1, <2>2 DEF IInv, HeapInv
<1>3. CASE s # 0
  <2>1. s \in 1..MaxSize
    BY <1>3, ShmemAssumption
  <2>2. want' = Promised(s) /\ want' \in Nat /\ want' > 0
    BY <1>3, <2>1, BlocksPromised DEF Alloc
  <2>3. TypeOK'
    BY <1>3, <2>2 DEF Alloc, table, IInv, TypeOK
  <2>4. i = 0 /\ i' = 0
    BY DEF Alloc, IInv, HeapInv, Scanning
  <2>5. Scanning' /\ Merging'
    BY <1>3, <2>4 DEF Alloc, table, IInv, HeapInv, Tiled, Scanning, Merging, Head
  <2>6. Searching'
    BY <1>3, <2>1, <2>2, <2>4 DEF Alloc, Searching, Blocks
  <2> QED BY <1>1, <2>3, <2>5, <2>6 DEF IInv, HeapInv
<1> QED BY <1>2, <1>3

\* From the head of a region the scans step to a head, or to the end.
LEMMA NextHead ==
  ASSUME IInv, i < NumBlocks, num[i] > 0
  PROVE  /\ i \in Blocks /\ Head(i)
         /\ i + num[i] \in 0..NumBlocks
         /\ i + num[i] < NumBlocks => Head(i + num[i])
         /\ \A h \in Blocks : h < i + num[i] /\ Head(h) => h <= i
<1>1. i \in Blocks /\ Head(i) /\ num[i] \in Nat /\ num[i] > 0 /\ i \in Nat
  BY TableSize DEF IInv, TypeOK, Blocks, Head
<1>2. i + num[i] <= NumBlocks
  BY <1>1 DEF IInv, HeapInv, Tiled
<1>3. i + num[i] < NumBlocks => i + num[i] \in Blocks
  BY <1>1, TableSize DEF Blocks
<1>4. i + num[i] < NumBlocks => Head(i + num[i])
  BY <1>1, <1>3 DEF IInv, HeapInv, Tiled
<1>5. ASSUME NEW h \in Blocks, h < i + num[i], Head(h), h > i
      PROVE  FALSE
  BY <1>1, <1>5, RegionsApart DEF IInv, HeapInv
<1> QED BY <1>1, <1>2, <1>4, <1>5, TableSize DEF Blocks

LEMMA AllocSkipKeepsIInv ==
  ASSUME IInv, AllocSkip
  PROVE  IInv'
<1>1. Tiled' /\ Uniform' /\ Coalesced' /\ LiveMatches'
  BY SameTable DEF AllocSkip
<1>2. /\ i' \in 0..NumBlocks
      /\ i' < NumBlocks => Head(i')
      /\ \A h \in Blocks : h < i' /\ Head(h) => h <= i
  BY NextHead DEF AllocSkip
<1>3. TypeOK'
  BY <1>2 DEF AllocSkip, table, IInv, TypeOK
<1>4. Scanning' /\ Merging'
  BY <1>2 DEF AllocSkip, table, Scanning, Merging, Head
<1>5. ASSUME NEW h \in Blocks, h < i', Head(h)
      PROVE  ~Suits(h)
  <2>1. CASE h < i
    BY <1>5, <2>1 DEF AllocSkip, IInv, HeapInv, Searching
  <2>2. CASE h = i
    BY <2>2 DEF AllocSkip
  <2> QED BY <1>2, <1>5, <2>1, <2>2 DEF IInv, TypeOK, Blocks
<1>6. Searching'
  BY <1>5 DEF AllocSkip, table, IInv, HeapInv, Searching, Head, Suits
<1> QED BY <1>1, <1>3, <1>4, <1>6 DEF IInv, HeapInv

LEMMA ReturnKeepsIInv ==
  ASSUME IInv, AllocFail \/ StatEnd
  PROVE  IInv'
<1>1. Tiled' /\ Uniform' /\ Coalesced' /\ LiveMatches'
  BY SameTable DEF AllocFail, StatEnd
<1>2. TypeOK'
  <2>1. ASSUME StatEnd PROVE stat' \in [total : Nat, largest : Nat]
    <3>1. \A n \in Nat : (n * BlockSize) % Word \in Nat
      BY ShmemAssumption
    <3> QED BY <2>1, <3>1 DEF StatEnd, IInv, TypeOK
  <2>2. stat' \in [total : Nat, largest : Nat]
    BY <2>1 DEF AllocFail, IInv, TypeOK
  <2> QED
    BY <2>2, TableSize, ShmemAssumption
       DEF AllocFail, StatEnd, Returns, table, IInv, TypeOK, NULL, NoTally
<1>3. Scanning' /\ Searching' /\ Merging'
  BY DEF AllocFail, StatEnd, Returns, Scanning, Searching, Merging
<1> QED BY <1>1, <1>2, <1>3 DEF IInv, HeapInv

LEMMA StatKeepsIInv ==
  ASSUME IInv, Stat \/ StatStep
  PROVE  IInv'
<1>1. Tiled' /\ Uniform' /\ Coalesced' /\ LiveMatches'
  BY SameTable DEF Stat, StatStep
<1>2. CASE Stat
  <2>1. TypeOK'
    BY <1>2 DEF Stat, table, IInv, TypeOK
  <2>2. i = 0 /\ Head(0)
    BY <1>2 DEF Stat, IInv, HeapInv, Scanning, Tiled
  <2>3. Scanning' /\ Searching' /\ Merging'
    BY <1>2, <2>2
       DEF Stat, table, IInv, HeapInv, Scanning, Searching, Merging, Head
  <2> QED BY <1>1, <2>1, <2>3 DEF IInv, HeapInv
<1>3. CASE StatStep
  <2>1. /\ i \in Blocks
        /\ i' \in 0..NumBlocks
        /\ i' < NumBlocks => Head(i')
    BY <1>3, NextHead DEF StatStep
  <2>2. tally' \in [free : Nat, run : Nat, best : Nat]
    BY <1>3, <2>1, TableSize DEF StatStep, Count, IInv, TypeOK
  <2>3. TypeOK'
    BY <1>3, <2>1, <2>2 DEF StatStep, table, IInv, TypeOK
  <2>4. Scanning' /\ Searching' /\ Merging'
    BY <1>3, <2>1
       DEF StatStep, table, IInv, HeapInv, Scanning, Searching, Merging, Head
  <2> QED BY <1>1, <2>3, <2>4 DEF IInv, HeapInv
<1> QED BY <1>2, <1>3

LEMMA MergeBackKeepsIInv ==
  ASSUME IInv, MergeBack
  PROVE  IInv'
<1>1. Tiled' /\ Uniform' /\ Coalesced' /\ LiveMatches'
  BY SameTable DEF MergeBack
<1>2. i \in Blocks /\ ~Head(i)
  BY TableSize DEF MergeBack, IInv, HeapInv, TypeOK, Merging, Blocks, Head
<1>3. i - 1 \in Blocks /\ allocated[i - 1] = allocated[i]
  BY <1>2, SameAsPrevious DEF IInv, HeapInv
<1>4. TypeOK'
  BY <1>3, TableSize DEF MergeBack, table, IInv, TypeOK, Blocks
<1>5. Scanning' /\ Searching'
  BY DEF MergeBack, IInv, HeapInv, Scanning, Searching
<1>6. Merging'
  <2>1. \A b \in i..(block - 1) : ~Head(b)
    BY <1>2 DEF MergeBack, IInv, HeapInv, Merging, Blocks, TypeOK
  <2> QED BY <1>2, <1>3, <2>1
       DEF MergeBack, table, IInv, HeapInv, Merging, TypeOK, Head, Blocks
<1> QED BY <1>1, <1>4, <1>5, <1>6 DEF IInv, HeapInv

\* What there is to show of a new table for it to be tiled.
LEMMA TiledNext ==
  ASSUME num' \in [Blocks -> Nat],
         num'[0] > 0,
         \A h \in Blocks : num'[h] > 0 =>
           /\ h + num'[h] \in Blocks => num'[h + num'[h]] > 0
           /\ h + num'[h] <= NumBlocks
           /\ \A b \in Blocks : b > h /\ b < h + num'[h] => ~(num'[b] > 0),
         \A b \in Blocks :
           \E h \in Blocks : num'[h] > 0 /\ b >= h /\ b < h + num'[h]
  PROVE  Tiled'
<1> USE TableSize
<1>1. \A h \in Blocks : num'[h] > 0 =>
        \A b \in (h..(h + num'[h] - 1)) \ {h} : ~(num'[b] > 0)
  BY DEF Blocks
<1>2. \A b \in Blocks :
        \E h \in Blocks : num'[h] > 0 /\ b \in h..(h + num'[h] - 1)
  BY DEF Blocks
<1> QED BY <1>1, <1>2 DEF Tiled, RegionOf, Head

LEMMA UniformNext ==
  ASSUME num' \in [Blocks -> 0..NumBlocks],
         \A h, b \in Blocks :
           num'[h] > 0 /\ b >= h /\ b < h + num'[h] =>
             allocated'[b] = allocated'[h],
         \A h \in Blocks : num'[h] > 0 => h + num'[h] <= NumBlocks
  PROVE  Uniform'
<1>1. ASSUME NEW h \in Blocks, num'[h] > 0, NEW b \in h..(h + num'[h] - 1)
      PROVE  b \in Blocks /\ b >= h /\ b < h + num'[h]
  BY <1>1, TableSize DEF Blocks
<1> QED BY <1>1 DEF Uniform, RegionOf, Head

----------------------------------------------------------------------------
(* Handing out a region, with or without a remainder.                      *)

LEMMA AllocTakeKeepsIInv ==
  ASSUME IInv, AllocTake
  PROVE  IInv'
<1> DEFINE n == num[i]
           splits == n > want
<1>1. /\ i \in Blocks /\ i \in Nat /\ Head(i) /\ n \in Nat /\ n > 0
      /\ want \in Nat /\ want > 0 /\ want <= n
      /\ ~allocated[i] /\ pc = "alloc" /\ want = Promised(size)
  BY TableSize
     DEF AllocTake, Suits, IInv, HeapInv, TypeOK, Scanning, Searching, Blocks,
         Head
<1>2. /\ i + n <= NumBlocks
      /\ i + n \in Blocks => Head(i + n)
      /\ \A b \in Blocks : b > i /\ b < i + n => ~Head(b)
  <2>1. i + n <= NumBlocks /\ (i + n \in Blocks => Head(i + n))
    BY <1>1 DEF IInv, HeapInv, Tiled
  <2>2. ASSUME NEW b \in Blocks, b > i, b < i + n, Head(b) PROVE FALSE
    BY <1>1, <2>2, RegionsApart DEF IInv, HeapInv, Blocks
  <2> QED BY <2>1, <2>2
<1>3. \A b \in Blocks :
        num'[b] = IF b = i THEN want
                  ELSE IF b = i + want /\ splits THEN n - want ELSE num[b]
  BY DEF AllocTake
<1>4. \A b \in Blocks :
        allocated'[b] <=> (b >= i /\ b < i + want) \/ allocated[b]
  <2>1. ASSUME NEW b \in Blocks
        PROVE  allocated'[b] <=> b \in i..(i + want - 1) \/ allocated[b]
    BY Zenon DEF AllocTake
  <2>2. \A b \in Blocks : b \in i..(i + want - 1) <=> b >= i /\ b < i + want
    BY <1>1 DEF Blocks
  <2> QED BY <2>1, <2>2, Zenon
<1>5. /\ DOMAIN live' = DOMAIN live \cup {i}
      /\ live'[i] = want
      /\ \A b \in DOMAIN live : b # i => live'[b] = live[b]
  BY <1>1 DEF AllocTake
<1>6. num \in [Blocks -> Nat] /\ NumBlocks \in Nat
  BY TableSize DEF IInv, TypeOK
<1>7. \A b \in Blocks : num'[b] > 0 <=> Head(b) \/ (b = i + want /\ splits)
  BY <1>1, <1>3, <1>6 DEF Head
\* The other regions lie before or behind this one.
<1>8. ASSUME NEW h \in Blocks, Head(h), h # i
      PROVE  h + num[h] <= i \/ h >= i + n
  BY <1>1, <1>8, RegionsApart DEF IInv, HeapInv, Blocks
<1>9. TypeOK'
  <2>1. num' \in [Blocks -> 0..NumBlocks]
    <3>1. \A b \in Blocks : num[b] \in 0..NumBlocks
      BY DEF IInv, TypeOK
    <3>2. want \in 0..NumBlocks /\ (splits => n - want \in 0..NumBlocks)
      BY <1>1, <1>2, <1>6
    <3> QED BY <3>1, <3>2 DEF AllocTake
  <2>2. allocated' \in [Blocks -> BOOLEAN]
    BY DEF AllocTake, IInv, TypeOK
  <2>3. addr' \in Nat
    <3>1. \A b \in Nat : b * BlockSize + HeapStart \in Nat
      BY ShmemAssumption
    <3> QED BY <1>1, <3>1 DEF AllocTake, Address
  <2>4. live' \in [DOMAIN live' -> Nat] /\ DOMAIN live' \subseteq Blocks
    BY <1>1 DEF AllocTake, IInv, TypeOK
  <2> QED BY <2>1, <2>2, <2>3, <2>4, TableSize, ShmemAssumption
          DEF AllocTake, Returns, NoTally, IInv, TypeOK
<1>10. Tiled'
  <2>1. num'[0] > 0
    BY <1>7, TableSize DEF IInv, HeapInv, Tiled
  <2>2. ASSUME NEW h \in Blocks, num'[h] > 0
        PROVE  /\ h + num'[h] \in Blocks => num'[h + num'[h]] > 0
               /\ h + num'[h] <= NumBlocks
               /\ \A b \in Blocks : b > h /\ b < h + num'[h] => ~(num'[b] > 0)
    <3>1. CASE h = i
      <4>1. num'[h] = want
        BY <1>3, <3>1
      <4>2. h + want <= NumBlocks
        BY <1>1, <1>2, <1>6, <3>1
      <4>3. i + want \in Blocks => num'[i + want] > 0
        <5>1. CASE splits
          BY <1>7, <5>1
        <5>2. CASE ~splits
          <6>1. want = n
            BY <1>1, <5>2
          <6> QED BY <1>2, <1>7, <6>1
        <5> QED BY <5>1, <5>2
      <4>4. \A b \in Blocks : b > i /\ b < i + want => ~(num'[b] > 0)
        BY <1>1, <1>2, <1>7 DEF Blocks
      <4> QED BY <3>1, <4>1, <4>2, <4>3, <4>4
    <3>2. CASE h = i + want /\ splits
      <4>1. num'[h] = n - want /\ h + num'[h] = i + n
        BY <1>1, <1>3, <3>2
      <4>2. i + n \in Blocks => num'[i + n] > 0
        BY <1>2, <1>7
      <4>3. \A b \in Blocks : b > i + want /\ b < i + n => ~(num'[b] > 0)
        BY <1>1, <1>2, <1>7 DEF Blocks
      <4> QED BY <1>2, <3>2, <4>1, <4>2, <4>3
    <3>3. CASE h # i /\ ~(h = i + want /\ splits)
      <4>1. Head(h) /\ num'[h] = num[h]
        BY <1>3, <1>7, <2>2, <3>3
      <4>2. h + num[h] <= i \/ h >= i + n
        BY <1>8, <3>3, <4>1
      <4>3. \A b \in Blocks : b > h /\ b < h + num[h] => ~Head(b)
        BY <1>6, <4>1, RegionsApart DEF IInv, HeapInv, Blocks
      <4>4. /\ h + num[h] <= NumBlocks
            /\ h + num[h] \in Blocks => Head(h + num[h])
        BY <4>1 DEF IInv, HeapInv, Tiled
      <4> QED BY <1>1, <1>6, <1>7, <4>1, <4>2, <4>3, <4>4 DEF Blocks
    <3> QED BY <3>1, <3>2, <3>3
  <2>3. ASSUME NEW b \in Blocks
        PROVE  \E h \in Blocks : num'[h] > 0 /\ b >= h /\ b < h + num'[h]
    <3>1. PICK h \in Blocks : Head(h) /\ b >= h /\ b < h + num[h]
      BY <1>6 DEF IInv, HeapInv, Tiled, RegionOf, Blocks
    <3>2. CASE h # i
      <4>1. ~(h = i + want /\ splits)
        BY <1>1, <1>8, <3>1, <3>2, <1>6 DEF Blocks
      <4> QED BY <1>3, <1>7, <3>1, <3>2, <4>1
    <3>3. CASE h = i /\ b < i + want
      BY <1>1, <1>3, <1>7, <3>1, <3>3
    <3>4. CASE h = i /\ b >= i + want
      <4>1. splits /\ i + want \in Blocks
        BY <1>1, <1>2, <1>6, <3>1, <3>4 DEF Blocks
      <4>2. num'[i + want] = n - want /\ num'[i + want] > 0
        BY <1>1, <1>3, <1>7, <4>1
      <4> QED BY <1>1, <3>1, <3>4, <4>1, <4>2 DEF Blocks
    <3> QED BY <3>2, <3>3, <3>4, <1>1, <1>6 DEF Blocks
  <2>4. num' \in [Blocks -> Nat]
    BY <1>6, <1>9 DEF TypeOK
  <2> QED BY <2>1, <2>2, <2>3, <2>4, TiledNext
\* What a head of the new table is: this region, its remainder, or another.
<1>11. ASSUME NEW h \in Blocks, num'[h] > 0
       PROVE  \/ h = i /\ num'[h] = want
              \/ h = i + want /\ splits /\ num'[h] = n - want
              \/ h # i /\ Head(h) /\ num'[h] = num[h]
  BY <1>3, <1>7, <1>11
<1>12. Uniform'
  <2>1. ASSUME NEW h \in Blocks, num'[h] > 0,
               NEW b \in Blocks, b >= h, b < h + num'[h]
        PROVE  allocated'[b] = allocated'[h]
    <3>1. CASE h = i /\ num'[h] = want
      BY <1>1, <1>4, <2>1, <3>1, <1>9 DEF TypeOK
    <3>2. CASE h = i + want /\ splits /\ num'[h] = n - want
      <4>1. b \in RegionOf(i) /\ h \in RegionOf(i)
        BY <1>1, <2>1, <3>2 DEF RegionOf, Blocks
      <4>2. ~allocated[b] /\ ~allocated[h]
        BY <1>1, <4>1 DEF IInv, HeapInv, Uniform
      <4>3. ~(b >= i /\ b < i + want) /\ ~(h >= i /\ h < i + want)
        BY <1>1, <2>1, <3>2 DEF Blocks
      <4> QED BY <1>4, <4>2, <4>3, <1>9 DEF TypeOK
    <3>3. CASE h # i /\ Head(h) /\ num'[h] = num[h]
      <4>1. b \in RegionOf(h)
        BY <1>6, <2>1, <3>3 DEF RegionOf, Blocks
      <4>2. allocated[b] = allocated[h]
        BY <3>3, <4>1 DEF IInv, HeapInv, Uniform
      <4>3. ~(b >= i /\ b < i + want) /\ ~(h >= i /\ h < i + want)
        BY <1>1, <1>6, <1>8, <2>1, <3>3 DEF Blocks
      <4> QED BY <1>4, <4>2, <4>3, <1>9 DEF TypeOK
    <3> QED BY <1>11, <2>1, <3>1, <3>2, <3>3
  <2>2. \A h \in Blocks : num'[h] > 0 => h + num'[h] <= NumBlocks
    BY <1>10 DEF Tiled, Head
  <2> QED BY <2>1, <2>2, <1>9, UniformNext DEF TypeOK
<1>13. Coalesced'
  <2>1. ASSUME NEW h \in Blocks, num'[h] > 0, ~allocated'[h],
               h + num'[h] \in Blocks
        PROVE  allocated'[h + num'[h]]
    <3>1. h # i
      BY <1>1, <1>4, <2>1
    <3>2. CASE h = i + want /\ splits /\ num'[h] = n - want
      <4>1. h + num'[h] = i + n
        BY <1>1, <3>2
      <4>2. allocated[i + n]
        BY <1>1, <2>1, <4>1 DEF IInv, HeapInv, Coalesced
      <4> QED BY <1>4, <2>1, <4>1, <4>2
    <3>3. CASE Head(h) /\ num'[h] = num[h]
      <4>1. ~allocated[h]
        BY <1>4, <2>1
      <4>2. allocated[h + num[h]]
        BY <1>1, <2>1, <3>3, <4>1 DEF IInv, HeapInv, Coalesced
      <4> QED BY <1>4, <2>1, <3>3, <4>2
    <3> QED BY <1>11, <2>1, <3>1, <3>2, <3>3
  <2> QED BY <2>1 DEF Coalesced, Head
<1>14. LiveMatches'
  <2>1. \A b \in Blocks :
          num'[b] > 0 /\ allocated'[b] <=> b = i \/ b \in DOMAIN live
    <3>1. \A b \in Blocks : b \in DOMAIN live <=> Head(b) /\ allocated[b]
      BY DEF IInv, HeapInv, LiveMatches
    <3>2. ASSUME NEW b \in Blocks, num'[b] > 0, allocated'[b], b # i
          PROVE  Head(b) /\ allocated[b]
      <4>1. ~(b > i /\ b < i + want)
        BY <1>1, <1>2, <1>7, <3>2 DEF Blocks
      <4>2. allocated[b]
        BY <1>1, <1>4, <3>2, <4>1 DEF Blocks
      <4>3. CASE b = i + want /\ splits
        <5>1. b \in RegionOf(i)
          BY <1>1, <3>2, <4>3 DEF RegionOf, Blocks
        <5>2. ~allocated[b]
          BY <1>1, <5>1 DEF IInv, HeapInv, Uniform
        <5> QED BY <4>2, <5>2
      <4> QED BY <1>7, <3>2, <4>2, <4>3
    <3>3. num'[i] > 0 /\ allocated'[i]
      BY <1>1, <1>3, <1>4
    <3>4. ASSUME NEW b \in Blocks, Head(b), allocated[b]
          PROVE  num'[b] > 0 /\ allocated'[b]
      BY <1>4, <1>7, <3>4
    <3> QED BY <3>1, <3>2, <3>3, <3>4
  <2>2. ASSUME NEW b \in DOMAIN live, b # i PROVE live'[b] = num'[b]
    <3>1. b \in Blocks /\ Head(b) /\ allocated[b] /\ live[b] = num[b]
      BY DEF IInv, HeapInv, LiveMatches
    <3>2. ~(b = i + want /\ splits)
      BY <1>1, <1>2, <3>1 DEF Blocks
    <3> QED BY <1>3, <1>5, <2>2, <3>1, <3>2
  <2>3. live'[i] = num'[i]
    BY <1>1, <1>3, <1>5
  <2>4. DOMAIN live' = {b \in Blocks : num'[b] > 0 /\ allocated'[b]}
    BY <1>1, <1>5, <2>1 DEF IInv, TypeOK
  <2> QED BY <1>5, <2>2, <2>3, <2>4 DEF LiveMatches, Head
<1>15. Scanning' /\ Searching' /\ Merging'
  BY DEF AllocTake, Returns, Scanning, Searching, Merging
<1> QED
  BY <1>9, <1>10, <1>12, <1>13, <1>14, <1>15 DEF IInv, HeapInv

----------------------------------------------------------------------------
(* Two neighbouring regions become one: both merges of shmem_free.          *)

Joined(g, next) ==
  \A x \in Blocks :
    num'[x] = IF x = g THEN num[g] + num[next] ELSE IF x = next THEN 0 ELSE num[x]

LEMMA JoinTiles ==
  ASSUME TypeOK, Tiled, NEW g \in Blocks, NEW next \in Blocks,
         Head(g), next = g + num[g], Head(next),
         num' \in [Blocks -> Nat], Joined(g, next)
  PROVE  /\ Tiled'
         /\ g + num'[g] = next + num[next]
         /\ \A x \in Blocks : num'[x] > 0 <=> Head(x) /\ x # next
         /\ \A x \in Blocks : x # g /\ num'[x] > 0 => num'[x] = num[x]
<1>1. /\ num \in [Blocks -> Nat] /\ NumBlocks \in Nat
      /\ g \in Nat /\ next \in Nat /\ num[g] > 0 /\ num[next] > 0 /\ next > g
  BY TableSize DEF TypeOK, Blocks, Head
<1>2. num'[g] = num[g] + num[next] /\ g + num'[g] = next + num[next]
  BY <1>1 DEF Joined
<1>3. \A x \in Blocks : num'[x] > 0 <=> Head(x) /\ x # next
  BY <1>1, <1>2 DEF Joined, Head
<1>4. \A x \in Blocks : x # g /\ num'[x] > 0 => num'[x] = num[x]
  BY DEF Joined
<1>5. /\ next + num[next] <= NumBlocks
      /\ next + num[next] \in Blocks => Head(next + num[next])
  BY DEF Tiled
<1>6. num'[0] > 0
  BY <1>1, <1>3, TableSize DEF Tiled
<1>7. ASSUME NEW h \in Blocks, num'[h] > 0
      PROVE  /\ h + num'[h] \in Blocks => num'[h + num'[h]] > 0
             /\ h + num'[h] <= NumBlocks
             /\ \A b \in Blocks : b > h /\ b < h + num'[h] => ~(num'[b] > 0)
  <2>1. CASE h = g
    <3>1. ASSUME NEW b \in Blocks, b > g, b < next + num[next], num'[b] > 0
          PROVE  FALSE
      <4>1. Head(b) /\ b # next
        BY <1>3, <3>1
      <4>2. CASE b < next
        BY <1>1, <3>1, <4>1, <4>2, RegionsApart DEF Blocks
      <4>3. CASE b > next
        BY <1>1, <3>1, <4>1, <4>3, RegionsApart DEF Blocks
      <4> QED BY <1>1, <4>1, <4>2, <4>3 DEF Blocks
    <3>2. next + num[next] # next
      BY <1>1
    <3> QED BY <1>2, <1>3, <1>5, <2>1, <3>1, <3>2
  <2>2. CASE h # g
    <3>1. Head(h) /\ h # next /\ num'[h] = num[h]
      BY <1>3, <1>4, <1>7, <2>2
    <3>2. /\ h + num[h] <= NumBlocks
          /\ h + num[h] \in Blocks => Head(h + num[h])
      BY <3>1 DEF Tiled
    <3>3. ASSUME NEW b \in Blocks, b > h, b < h + num[h], Head(b) PROVE FALSE
      BY <1>1, <3>1, <3>3, RegionsApart DEF Blocks
    <3>4. h + num[h] # next
      <4>1. CASE h < g
        BY <1>1, <2>2, <3>1, <4>1, RegionsApart DEF Blocks
      <4>2. CASE h > g
        BY <1>1, <2>2, <3>1, <4>2, RegionsApart DEF Blocks
      <4> QED BY <1>1, <2>2, <4>1, <4>2 DEF Blocks
    <3> QED BY <1>3, <3>1, <3>2, <3>3, <3>4
  <2> QED BY <2>1, <2>2
<1>8. ASSUME NEW b \in Blocks
      PROVE  \E h \in Blocks : num'[h] > 0 /\ b >= h /\ b < h + num'[h]
  <2>1. PICK h \in Blocks : Head(h) /\ b \in RegionOf(h)
    BY DEF Tiled
  <2>2. b >= h /\ b < h + num[h]
    BY <1>1, <2>1 DEF RegionOf, Blocks
  <2>3. CASE h = g \/ h = next
    <3>1. num'[g] > 0
      BY <1>1, <1>2
    <3>2. b >= g /\ b < next + num[next]
      BY <1>1, <2>2, <2>3 DEF Blocks
    <3> QED BY <1>2, <3>1, <3>2
  <2>4. CASE h # g /\ h # next
    BY <1>3, <1>4, <2>1, <2>2, <2>4
  <2> QED BY <2>4, <2>3
<1>9. Tiled'
  BY <1>6, <1>7, <1>8, TiledNext
<1> QED BY <1>2, <1>3, <1>4, <1>9

LEMMA MergePreviousKeepsIInv ==
  ASSUME IInv, MergePrevious
  PROVE  IInv'
<1>1. /\ i \in Blocks /\ block \in Blocks /\ i \in Nat /\ block \in Nat
      /\ Head(block) /\ ~allocated[block] /\ i < block /\ ~allocated[i]
      /\ pc = "merge"
      /\ \A b \in Blocks : b > i /\ b < block => ~Head(b)
      /\ num \in [Blocks -> 0..NumBlocks] /\ NumBlocks \in Nat
  <2>1. \A b \in Blocks : b > i /\ b < block => b \in (i + 1)..(block - 1)
    BY DEF IInv, TypeOK, Blocks
  <2> QED BY <2>1, TableSize
          DEF MergePrevious, IInv, HeapInv, TypeOK, Merging, Blocks
<1>2. Head(i) /\ num[i] > 0
  BY <1>1 DEF MergePrevious, IInv, HeapInv, Tiled, Head
<1>3. block = i + num[i]
  <2>1. i + num[i] <= block
    BY <1>1, <1>2, RegionsApart DEF IInv, HeapInv
  <2>2. i + num[i] \in Blocks => Head(i + num[i])
    BY <1>1, <1>2 DEF IInv, HeapInv, Tiled
  <2> QED BY <1>1, <1>2, <2>1, <2>2 DEF Blocks
<1>4. Joined(i, block) /\ num' \in [Blocks -> Nat]
  BY <1>1, <1>2 DEF MergePrevious, Joined, Blocks
<1>5. /\ Tiled'
      /\ i + num'[i] = block + num[block]
      /\ \A x \in Blocks : num'[x] > 0 <=> Head(x) /\ x # block
      /\ \A x \in Blocks : x # i /\ num'[x] > 0 => num'[x] = num[x]
  BY <1>1, <1>2, <1>3, <1>4, JoinTiles DEF IInv, HeapInv
<1>6. allocated' = allocated /\ live' = live /\ pc' = "idle"
  BY DEF MergePrevious, Returns
<1>7. TypeOK'
  <2>1. ASSUME NEW x \in Blocks PROVE num'[x] \in 0..NumBlocks
    <3>1. i + num'[i] <= NumBlocks
      BY <1>1, <1>5 DEF IInv, HeapInv, Tiled
    <3>2. num'[i] \in Nat /\ num'[i] <= NumBlocks
      BY <1>1, <1>4, <3>1
    <3>3. x # i => num'[x] \in 0..NumBlocks
      BY <1>1, <1>4 DEF Joined
    <3> QED BY <1>1, <3>2, <3>3
  <2>2. num' \in [Blocks -> 0..NumBlocks]
    BY <1>4, <2>1
  <2> QED BY <2>2, TableSize, ShmemAssumption
          DEF MergePrevious, Returns, NoTally, IInv, TypeOK
<1>8. Uniform'
  <2>1. ASSUME NEW h \in Blocks, num'[h] > 0,
               NEW b \in Blocks, b >= h, b < h + num'[h]
        PROVE  allocated[b] = allocated[h]
    <3>1. CASE h = i
      <4>1. b \in RegionOf(i) \/ b \in RegionOf(block)
        BY <1>1, <1>3, <1>5, <2>1, <3>1 DEF RegionOf, Blocks
      <4>2. allocated[b] = allocated[i] \/ allocated[b] = allocated[block]
        BY <1>1, <1>2, <4>1 DEF IInv, HeapInv, Uniform
      <4> QED BY <1>1, <3>1, <4>2 DEF IInv, TypeOK
    <3>2. CASE h # i
      <4>1. Head(h) /\ b \in RegionOf(h)
        BY <1>1, <1>5, <2>1, <3>2 DEF RegionOf, Blocks
      <4> QED BY <4>1 DEF IInv, HeapInv, Uniform
    <3> QED BY <3>1, <3>2
  <2>2. \A h \in Blocks : num'[h] > 0 => h + num'[h] <= NumBlocks
    BY <1>5 DEF Tiled, Head
  <2> QED BY <2>1, <2>2, <1>6, <1>7, UniformNext DEF TypeOK
<1>9. Coalesced'
  <2>1. ASSUME NEW h \in Blocks, num'[h] > 0, ~allocated[h],
               h + num'[h] \in Blocks
        PROVE  allocated[h + num'[h]]
    <3>1. CASE h = i
      <4>1. block + num[block] # block
        BY <1>1 DEF Head
      <4> QED BY <1>1, <1>5, <2>1, <3>1, <4>1 DEF IInv, HeapInv, Coalesced
    <3>2. CASE h # i
      <4>1. Head(h) /\ h # block /\ num'[h] = num[h]
        BY <1>5, <2>1, <3>2
      <4>2. h + num[h] # block
        <5>1. CASE h < i
          BY <1>1, <1>2, <4>1, <5>1, RegionsApart DEF IInv, HeapInv
        <5>2. CASE h > i
          BY <1>1, <2>1, <4>1, <5>2 DEF Blocks
        <5> QED BY <1>1, <3>2, <5>1, <5>2 DEF Blocks
      <4> QED BY <2>1, <4>1, <4>2 DEF IInv, HeapInv, Coalesced
    <3> QED BY <3>1, <3>2
  <2> QED BY <2>1, <1>6 DEF Coalesced, Head
<1>10. LiveMatches'
  <2>1. DOMAIN live = {b \in Blocks : num'[b] > 0 /\ allocated[b]}
    BY <1>1, <1>5 DEF IInv, HeapInv, LiveMatches
  <2>2. \A b \in DOMAIN live : live[b] = num'[b]
    BY <1>1, <1>5, <2>1 DEF IInv, HeapInv, LiveMatches
  <2> QED BY <1>6, <2>1, <2>2 DEF LiveMatches, Head
<1>11. Scanning' /\ Searching' /\ Merging'
  BY DEF MergePrevious, Returns, Scanning, Searching, Merging
<1> QED BY <1>5, <1>7, <1>8, <1>9, <1>10, <1>11 DEF IInv, HeapInv

----------------------------------------------------------------------------
(* Giving a region back: it grows by the free region behind it, if any.     *)

LEMMA FreeKeepsTable ==
  ASSUME IInv, NEW a \in Addresses, Free(a), num[BlockIndex(a)] = 0
  PROVE  /\ UNCHANGED <<num, allocated, live, pc, i, block>>
<1> DEFINE b == BlockIndex(a)
<1>1. b \in Blocks /\ b \in Nat /\ allocated[b] /\ num[b] = 0
  BY IndexInTable DEF Free, Freeable, Blocks
<1>2. \A x \in Nat : x \notin b..(b + 0 - 1)
  BY <1>1
<1>3. Cleared(b, 0) = allocated
  BY <1>2 DEF Cleared, IInv, TypeOK, Blocks
<1>4. MergedNext(b, 0) = num
  BY <1>1, <1>2, <1>3 DEF MergedNext, IInv, TypeOK, Blocks
<1>5. b > 0 /\ allocated[b - 1]
  BY <1>1, SameAsPrevious DEF IInv, HeapInv, Head
<1>6. b \notin DOMAIN live
  BY <1>1 DEF IInv, HeapInv, LiveMatches, Head
<1>7. [x \in DOMAIN live \ {b} |-> live[x]] = live
  BY <1>6 DEF IInv, TypeOK
<1> QED BY <1>1, <1>3, <1>4, <1>5, <1>7 DEF Free

\* Freeing a region, the one that follows it taken or free.
LEMMA FreeKeepsRegions ==
  ASSUME IInv, NEW a \in Addresses, Free(a), num[BlockIndex(a)] > 0
  PROVE  IInv'
<1> DEFINE b == BlockIndex(a)
           n == num[b]
           next == b + n
           grows == next < NumBlocks /\ ~allocated[next]
<1>1. /\ b \in Blocks /\ b \in Nat /\ allocated[b] /\ n \in Nat /\ n > 0
      /\ Head(b) /\ pc = "idle" /\ i = 0
      /\ num \in [Blocks -> 0..NumBlocks] /\ NumBlocks \in Nat
      /\ allocated \in [Blocks -> BOOLEAN]
  BY IndexInTable, TableSize
     DEF Free, Freeable, Blocks, IInv, HeapInv, TypeOK, Scanning, Head
<1>2. /\ next <= NumBlocks /\ next \in Nat
      /\ next \in Blocks => Head(next)
      /\ grows => next \in Blocks
      /\ \A x \in Blocks : x > b /\ x < next => ~Head(x)
  <2>1. next <= NumBlocks /\ (next \in Blocks => Head(next))
    BY <1>1 DEF IInv, HeapInv, Tiled
  <2>2. ASSUME NEW x \in Blocks, x > b, x < next, Head(x) PROVE FALSE
    BY <1>1, <2>2, RegionsApart DEF IInv, HeapInv, Blocks
  <2> QED BY <1>1, <2>1, <2>2 DEF Blocks
<1>3. /\ allocated' \in [Blocks -> BOOLEAN]
      /\ \A x \in Blocks :
           allocated'[x] <=> ~(x >= b /\ x < next) /\ allocated[x]
  <2>1. allocated' = Cleared(b, n)
    BY DEF Free
  <2>2. ASSUME NEW x \in Blocks
        PROVE  allocated'[x] <=> x \notin b..(b + n - 1) /\ allocated[x]
    BY <2>1, Zenon DEF Cleared
  <2>3. \A x \in Blocks : x \in b..(b + n - 1) <=> x >= b /\ x < next
    BY <1>1 DEF Blocks
  <2>4. allocated' \in [Blocks -> BOOLEAN]
    BY <1>1, <2>1 DEF Cleared
  <2> QED BY <2>2, <2>3, <2>4, Zenon
<1>4. /\ num' \in [Blocks -> Nat]
      /\ grows => Joined(b, next)
      /\ ~grows => num' = num
  <2>1. num' = MergedNext(b, n)
    BY DEF Free
  <2>2. Cleared(b, n)[next] = allocated[next] \/ next \notin Blocks
    BY <1>1 DEF Cleared
  <2>3. ASSUME NEW x \in Blocks, x \in b..(next - 1), x # b
        PROVE  num[x] = 0
    BY <1>1, <1>2, <2>3 DEF Blocks, Head
  <2>4. next < NumBlocks => next \in Blocks
    BY <1>1, <1>2 DEF Blocks
  <2>5. CASE grows
    <3>1. \A x \in Blocks :
            num'[x] = IF x = b THEN n + num[next]
                      ELSE IF x \in b..(next - 1) \/ x = next THEN 0 ELSE num[x]
      BY <2>1, <2>2, <2>4, <2>5 DEF MergedNext
    <3>2. Joined(b, next)
      BY <1>1, <2>3, <3>1 DEF Joined
    <3>3. num' \in [Blocks -> Nat]
      <4>1. num' = [x \in Blocks |-> num'[x]]
        BY <2>1 DEF MergedNext
      <4>2. \A x \in Blocks : num'[x] \in Nat
        BY <1>1, <1>2, <2>5, <3>2 DEF Joined
      <4> QED BY <4>1, <4>2
    <3> QED BY <2>5, <3>2, <3>3
  <2>6. CASE ~grows
    <3>1. \A x \in Blocks :
            num'[x] = IF x = b THEN n + 0
                      ELSE IF x \in b..(next - 1) THEN 0 ELSE num[x]
      BY <2>1, <2>2, <2>4, <2>6 DEF MergedNext
    <3>2. \A x \in Blocks : num'[x] = num[x]
      BY <1>1, <2>3, <3>1
    <3>3. num' = [x \in Blocks |-> num'[x]]
      BY <2>1 DEF MergedNext
    <3> QED BY <1>1, <2>6, <3>2, <3>3
  <2> QED BY <2>5, <2>6
<1>5. /\ Tiled'
      /\ b + num'[b] = IF grows THEN next + num[next] ELSE next
      /\ \A x \in Blocks : num'[x] > 0 <=> Head(x) /\ ~(grows /\ x = next)
      /\ \A x \in Blocks : x # b /\ num'[x] > 0 => num'[x] = num[x]
  <2>1. CASE grows
    <3>1. next \in Blocks /\ Head(next) /\ Joined(b, next)
      BY <1>2, <1>4, <2>1
    <3> QED BY <1>1, <1>4, <2>1, <3>1, JoinTiles DEF IInv, HeapInv
  <2>2. CASE ~grows
    <3>1. Tiled'
      BY <1>4, <2>2 DEF IInv, HeapInv, Tiled, RegionOf, Head
    <3> QED BY <1>1, <1>4, <2>2, <3>1 DEF Head
  <2> QED BY <2>1, <2>2
\* The other regions lie before or behind this one.
<1>6. ASSUME NEW h \in Blocks, Head(h), h # b
      PROVE  h + num[h] <= b \/ h >= next
  BY <1>1, <1>6, RegionsApart DEF IInv, HeapInv, Blocks
<1>7. TypeOK'
  <2>1. num' \in [Blocks -> 0..NumBlocks]
    <3>1. ASSUME NEW x \in Blocks PROVE num'[x] <= NumBlocks
      <4>1. CASE num'[x] > 0
        <5>1. x + num'[x] <= NumBlocks
          BY <1>5, <4>1 DEF Tiled, Head
        <5> QED BY <1>1, <1>4, <5>1 DEF Blocks
      <4> QED BY <1>1, <1>4, <4>1
    <3> QED BY <1>1, <1>4, <3>1
  <2>2. live' \in [DOMAIN live' -> Nat] /\ DOMAIN live' \subseteq Blocks
    BY DEF Free, IInv, TypeOK
  <2>3. pc' \in {"idle", "merge"} /\ i' \in 0..NumBlocks /\ block' \in Blocks
    <3>1. b # 0 => b - 1 \in 0..NumBlocks
      BY <1>1 DEF Blocks
    <3> QED BY <1>1, <3>1 DEF Free, IInv, TypeOK
  <2> QED BY <2>1, <2>2, <2>3, <1>3 DEF Free, IInv, TypeOK
<1>8. Uniform'
  <2>1. ASSUME NEW h \in Blocks, num'[h] > 0,
               NEW x \in Blocks, x >= h, x < h + num'[h]
        PROVE  allocated'[x] = allocated'[h]
    <3>1. CASE h = b
      <4>1. ~allocated'[h]
        BY <1>1, <1>2, <1>3, <3>1
      <4>2. ~allocated'[x]
        <5>1. CASE x < next
          BY <1>3, <2>1, <3>1, <5>1
        <5>2. CASE x >= next
          <6>1. grows /\ x < next + num[next]
            BY <1>2, <1>5, <2>1, <3>1, <5>2 DEF Blocks
          <6>2. x \in RegionOf(next)
            BY <1>1, <1>2, <5>2, <6>1 DEF RegionOf, Blocks
          <6>3. ~allocated[x]
            BY <1>2, <6>1, <6>2 DEF IInv, HeapInv, Uniform
          <6> QED BY <1>3, <6>3
        <5> QED BY <1>2, <5>1, <5>2 DEF Blocks
      <4> QED BY <1>3, <4>1, <4>2
    <3>2. CASE h # b
      <4>1. Head(h) /\ num'[h] = num[h]
        BY <1>5, <2>1, <3>2
      <4>2. x \in RegionOf(h)
        BY <1>1, <2>1, <4>1 DEF RegionOf, Blocks
      <4>3. allocated[x] = allocated[h]
        BY <4>1, <4>2 DEF IInv, HeapInv, Uniform
      <4>4. ~(x >= b /\ x < next) /\ ~(h >= b /\ h < next)
        BY <1>1, <1>2, <1>6, <2>1, <3>2, <4>1 DEF Blocks
      <4> QED BY <1>3, <4>3, <4>4
    <3> QED BY <3>1, <3>2
  <2>2. \A h \in Blocks : num'[h] > 0 => h + num'[h] <= NumBlocks
    BY <1>5 DEF Tiled, Head
  <2> QED BY <2>1, <2>2, <1>7, UniformNext DEF TypeOK
<1>9. Coalesced'
  <2>1. ASSUME NEW h \in Blocks, num'[h] > 0, ~allocated'[h],
               h + num'[h] \in Blocks
        PROVE  \/ allocated'[h + num'[h]]
               \/ pc' = "merge" /\ h + num'[h] = block'
    <3>1. CASE h = b /\ ~grows
      BY <1>1, <1>2, <1>3, <1>5, <2>1, <3>1 DEF Blocks
    <3>2. CASE h = b /\ grows
      <4>1. next \in Blocks /\ Head(next) /\ ~allocated[next]
        BY <1>2, <3>2
      <4>2. allocated[next + num[next]]
        BY <1>1, <1>5, <2>1, <3>2, <4>1 DEF IInv, HeapInv, Coalesced
      <4>3. ~(next + num[next] < next)
        BY <1>1, <1>2, <4>1
      <4> QED BY <1>3, <1>5, <2>1, <3>2, <4>2, <4>3
    <3>3. CASE h # b
      <4>1. Head(h) /\ num'[h] = num[h] /\ ~(h >= b /\ h < next)
        BY <1>1, <1>2, <1>5, <1>6, <2>1, <3>3 DEF Head, Blocks
      <4>2. ~allocated[h]
        BY <1>3, <2>1, <4>1
      <4>3. allocated[h + num[h]]
        BY <1>1, <2>1, <4>1, <4>2 DEF IInv, HeapInv, Coalesced
      <4>4. CASE h + num[h] = b
        <5>1. b # 0 /\ b - 1 \in RegionOf(h)
          BY <1>1, <4>1, <4>4 DEF RegionOf, Blocks, Head
        <5>2. ~allocated[b - 1]
          BY <4>1, <4>2, <5>1 DEF IInv, HeapInv, Uniform
        <5> QED BY <4>1, <4>4, <5>1, <5>2 DEF Free
      <4>5. CASE h + num[h] # b
        <5>1. Head(h + num[h])
          BY <2>1, <4>1 DEF IInv, HeapInv, Tiled
        <5>2. ~(h + num[h] >= b /\ h + num[h] < next)
          BY <1>1, <1>2, <2>1, <4>1, <4>5, <5>1 DEF Blocks
        <5> QED BY <1>3, <2>1, <4>1, <4>3, <5>2
      <4> QED BY <4>4, <4>5
    <3> QED BY <3>1, <3>2, <3>3
  <2> QED BY <2>1 DEF Coalesced, Head
<1>10. LiveMatches'
  <2>1. \A x \in Blocks : x \in DOMAIN live <=> Head(x) /\ allocated[x]
    BY DEF IInv, HeapInv, LiveMatches
  <2>2. ASSUME NEW x \in Blocks
        PROVE  num'[x] > 0 /\ allocated'[x] <=> x \in DOMAIN live /\ x # b
    <3>1. CASE x = b
      BY <1>1, <1>2, <1>3, <3>1
    <3>2. CASE x # b
      <4>1. ASSUME Head(x) PROVE ~(x >= b /\ x < next)
        BY <1>1, <1>2, <3>2, <4>1 DEF Blocks
      <4> QED BY <1>3, <1>5, <2>1, <3>2, <4>1
    <3> QED BY <3>1, <3>2
  <2>3. DOMAIN live' = DOMAIN live \ {b}
    BY DEF Free
  <2>4. DOMAIN live' = {x \in Blocks : num'[x] > 0 /\ allocated'[x]}
    BY <2>2, <2>3 DEF IInv, TypeOK
  <2>5. ASSUME NEW x \in DOMAIN live' PROVE live'[x] = num'[x]
    <3>1. x \in DOMAIN live /\ x # b /\ live'[x] = live[x]
      BY <2>3, <2>5 DEF Free
    <3>2. x \in Blocks /\ num'[x] > 0
      BY <2>4
    <3> QED BY <1>5, <3>1, <3>2 DEF IInv, HeapInv, LiveMatches
  <2> QED BY <2>4, <2>5 DEF LiveMatches, Head
<1>11. Scanning' /\ Searching'
  BY <1>1 DEF Free, IInv, HeapInv, Scanning, Searching
<1>12. Merging'
  <2>1. ASSUME pc' = "merge"
        PROVE  i' = b - 1 /\ block' = b /\ b # 0 /\ ~allocated[b - 1]
    BY <1>1, <2>1 DEF Free
  <2>2. num'[b] > 0 /\ ~allocated'[b]
    BY <1>1, <1>2, <1>3, <1>5
  <2>3. b # 0 => b - 1 \in Blocks /\ b - 1 < b
    BY <1>1 DEF Blocks
  <2>4. \A x \in ((b - 1) + 1)..(b - 1) : FALSE
    BY <1>1
  <2> QED BY <1>3, <2>1, <2>2, <2>3, <2>4 DEF Merging, Head
<1> QED
  BY <1>5, <1>7, <1>8, <1>9, <1>10, <1>11, <1>12 DEF IInv, HeapInv

LEMMA FreeKeepsIInv ==
  ASSUME IInv, NEW a \in Addresses, Free(a)
  PROVE  IInv'
<1>1. BlockIndex(a) \in Blocks
  BY IndexInTable DEF Free, Freeable
<1>2. CASE num[BlockIndex(a)] = 0
  <2>1. UNCHANGED vars
    BY <1>2, FreeKeepsTable DEF Free, vars, table
  <2> QED BY <2>1, UnchangedKeepsIInv
<1>3. CASE num[BlockIndex(a)] > 0
  BY <1>3, FreeKeepsRegions
<1> QED BY <1>1, <1>2, <1>3, TableSize DEF IInv, TypeOK

----------------------------------------------------------------------------
LEMMA NextKeepsIInv ==
  ASSUME NoWrap, IInv, [Next]_vars
  PROVE  IInv'
<1>1. CASE UNCHANGED vars
  BY <1>1, UnchangedKeepsIInv
<1>2. ASSUME NEW s \in 0..MaxSize, Alloc(s) PROVE IInv'
  BY <1>2, AllocKeepsIInv
<1>3. ASSUME NEW a \in Addresses, Free(a) PROVE IInv'
  BY <1>3, FreeKeepsIInv
<1>4. CASE Stat \/ StatStep
  BY <1>4, StatKeepsIInv
<1>5. CASE AllocFail \/ StatEnd
  BY <1>5, ReturnKeepsIInv
<1>6. CASE AllocSkip
  BY <1>6, AllocSkipKeepsIInv
<1>7. CASE AllocTake
  BY <1>7, AllocTakeKeepsIInv
<1>8. CASE MergeBack
  BY <1>8, MergeBackKeepsIInv
<1>9. CASE MergePrevious
  BY <1>9, MergePreviousKeepsIInv
<1> QED
  BY <1>1, <1>2, <1>3, <1>4, <1>5, <1>6, <1>7, <1>8, <1>9 DEF Next, Loop

\* Unless a request wraps around, whatever sketches allocate and free, in any
\* order and with any address below the end of the heap, the table of
\* shmem.cpp stays well-formed, and it records exactly what they hold.
THEOREM TableStaysWellFormed ==
  ASSUME NoWrap
  PROVE  Spec => [](TypeOK /\ HeapInv)
<1>1. Init => IInv
  BY InitIInv
<1>2. IInv /\ [Next]_vars => IInv'
  BY NextKeepsIInv
<1>3. Spec => []IInv
  BY <1>1, <1>2, PTL DEF Spec
<1> QED BY <1>3 DEF IInv

\* shmem_alloc never hands out a block twice, nor one past the heap.
THEOREM RegionsAreDisjoint ==
  ASSUME NoWrap
  PROVE  Spec => []LiveDisjoint
<1>1. ASSUME IInv PROVE LiveDisjoint
  <2>1. ASSUME NEW a \in DOMAIN live
        PROVE  /\ a \in Blocks /\ Head(a) /\ live[a] = num[a]
               /\ a + live[a] <= NumBlocks
    BY <1>1 DEF IInv, HeapInv, LiveMatches, Tiled
  <2> QED BY <1>1, <2>1, RegionsApart DEF LiveDisjoint, IInv, HeapInv
<1>2. Spec => []IInv
  BY TableStaysWellFormed DEF IInv
<1> QED BY <1>1, <1>2, PTL

\* After every region has been freed the heap is one free region again.
THEOREM HeapBecomesWhole ==
  ASSUME NoWrap
  PROVE  Spec => []NoFragments
<1>1. ASSUME IInv, pc = "idle", DOMAIN live = {} PROVE num[0] = NumBlocks
  <2>1. Head(0) /\ ~allocated[0]
    BY <1>1, TableSize DEF IInv, HeapInv, Tiled, LiveMatches
  <2>2. num[0] \in 0..NumBlocks
    BY <1>1, TableSize DEF IInv, TypeOK
  <2>3. CASE num[0] < NumBlocks
    <3>1. 0 + num[0] = num[0] /\ num[0] \in Blocks
      BY <2>2, <2>3, TableSize DEF Blocks
    <3>2. Head(num[0])
      BY <1>1, <2>1, <3>1, TableSize DEF IInv, HeapInv, Tiled
    <3>3. allocated[num[0]]
      BY <1>1, <2>1, <3>1, TableSize DEF IInv, HeapInv, Coalesced
    <3> QED BY <1>1, <3>1, <3>2, <3>3 DEF IInv, HeapInv, LiveMatches
  <2> QED BY <2>2, <2>3, TableSize
<1>2. IInv => NoFragments
  BY <1>1 DEF NoFragments
<1>3. Spec => []IInv
  BY TableStaysWellFormed DEF IInv
<1> QED BY <1>2, <1>3, PTL
----------------------------------------------------------------------------
(* The block table implements the heap.                                    *)

\* The blocks that sketches hold are those that are marked.
LEMMA UsedIsMarked ==
  ASSUME IInv
  PROVE  Abstract!Used = {b \in Blocks : allocated[b]}
<1> USE TableSize
<1>1. ASSUME NEW b \in DOMAIN live
      PROVE  /\ b \in Blocks /\ Head(b) /\ allocated[b]
             /\ Abstract!Region(b, live[b]) = RegionOf(b)
  BY DEF IInv, HeapInv, LiveMatches, Abstract!Region, RegionOf
<1>2. ASSUME NEW b \in DOMAIN live, NEW x \in RegionOf(b)
      PROVE  x \in Blocks /\ allocated[x]
  <2>1. b + num[b] <= NumBlocks /\ num[b] \in Nat /\ b \in Nat
    BY <1>1 DEF IInv, HeapInv, Tiled, TypeOK, Blocks
  <2>2. x \in Blocks
    BY <2>1 DEF RegionOf, Blocks
  <2> QED BY <1>1, <2>2 DEF IInv, HeapInv, Uniform
<1>3. ASSUME NEW x \in Blocks, allocated[x]
      PROVE  \E b \in DOMAIN live : x \in RegionOf(b)
  <2>1. PICK h \in Blocks : Head(h) /\ x \in RegionOf(h)
    BY DEF IInv, HeapInv, Tiled
  <2>2. allocated[h]
    BY <1>3, <2>1 DEF IInv, HeapInv, Uniform
  <2> QED BY <2>1, <2>2 DEF IInv, HeapInv, LiveMatches
<1>4. Abstract!Used = UNION {RegionOf(b) : b \in DOMAIN live}
  BY <1>1 DEF Abstract!Used
<1> QED BY <1>2, <1>3, <1>4

\* While nothing is being freed, a run of free blocks lies in one region.
LEMMA RunInOneRegion ==
  ASSUME IInv, pc # "merge", NEW b \in Blocks, NEW n \in Nat, n > 0,
         \A x \in b..(b + n - 1) : x \in Blocks /\ ~allocated[x]
  PROVE  \E h \in Blocks : /\ Head(h) /\ ~allocated[h]
                           /\ h <= b /\ b + n <= h + num[h]
<1> USE TableSize
<1>1. PICK h \in Blocks : Head(h) /\ b \in RegionOf(h)
  BY DEF IInv, HeapInv, Tiled
<1>2. b \in Nat /\ h \in Nat /\ num[h] \in Nat /\ h <= b /\ b < h + num[h]
  BY <1>1 DEF IInv, TypeOK, Blocks, RegionOf
<1>3. ~allocated[h]
  <2>1. b \in b..(b + n - 1)
    BY <1>2
  <2>2. ~allocated[b]
    BY <2>1
  <2> QED BY <1>1, <2>2 DEF IInv, HeapInv, Uniform
<1>4. SUFFICES ASSUME h + num[h] < b + n PROVE FALSE
  BY <1>1, <1>2, <1>3
<1>5. h + num[h] \in b..(b + n - 1)
  BY <1>2, <1>4
<1>6. h + num[h] \in Blocks /\ ~allocated[h + num[h]]
  BY <1>5
<1> QED BY <1>1, <1>3, <1>6 DEF IInv, HeapInv, Coalesced

LEMMA InitRefines == Init => Abstract!Init
BY DEF Init, Abstract!Init

\* What is being allocated is what was asked for: nothing outside shmem_alloc.
LEMMA NoRequest == IInv /\ pc # "alloc" => size = 0
BY ShmemAssumption DEF IInv, HeapInv, Searching, TypeOK

LEMMA AllocRefines ==
  ASSUME IInv, NEW s \in 0..MaxSize, Alloc(s)
  PROVE  Abstract!Next
<1>1. size = 0
  BY NoRequest DEF Alloc
<1>2. Abstract!Ask(s)
  BY <1>1 DEF Alloc, Abstract!Ask
<1> QED BY <1>2 DEF Abstract!Next

\* shmem_alloc gives up only if no run of free blocks is long enough.
LEMMA AllocFailRefines ==
  ASSUME IInv, AllocFail
  PROVE  Abstract!Next
<1>1. /\ pc = "alloc" /\ i = NumBlocks /\ size > 0
      /\ want = Promised(size) /\ want \in Nat /\ want > 0
      /\ \A h \in Blocks : h < i /\ Head(h) => ~Suits(h)
  BY DEF AllocFail, IInv, HeapInv, Searching, TypeOK
<1>2. Abstract!Needed(size) = want /\ Abstract!Blocks = Blocks
  BY <1>1 DEF Abstract!Needed, Promised, Abstract!Blocks, Blocks
<1>3. ASSUME NEW b \in Blocks, Abstract!Fits(b, want)
      PROVE  FALSE
  <2>1. \A x \in b..(b + want - 1) : x \in Blocks /\ ~allocated[x]
    BY <1>2, <1>3, UsedIsMarked DEF Abstract!Fits, Abstract!Region
  <2>2. PICK h \in Blocks : /\ Head(h) /\ ~allocated[h]
                            /\ h <= b /\ b + want <= h + num[h]
    BY <1>1, <2>1, RunInOneRegion
  <2>3. h < NumBlocks /\ num[h] \in Nat /\ num[h] >= want
    BY <1>1, <2>2, TableSize DEF IInv, TypeOK, Blocks
  <2> QED BY <1>1, <2>2, <2>3 DEF Suits
<1>4. Abstract!Refuse
  BY <1>1, <1>2, <1>3 DEF AllocFail, Returns, Abstract!Refuse
<1> QED BY <1>4 DEF Abstract!Next

\* What it hands out was free, and long enough.
LEMMA AllocTakeRefines ==
  ASSUME IInv, AllocTake
  PROVE  Abstract!Next
<1>1. /\ i \in Blocks /\ Head(i) /\ ~allocated[i] /\ size > 0
      /\ num[i] \in Nat /\ want \in Nat /\ want > 0 /\ want <= num[i]
      /\ want = Promised(size)
  BY TableSize
     DEF AllocTake, Suits, IInv, HeapInv, TypeOK, Scanning, Searching, Blocks,
         Head
<1>2. Abstract!Needed(size) = want /\ Abstract!Blocks = Blocks
  BY <1>1 DEF Abstract!Needed, Promised, Abstract!Blocks, Blocks
<1>3. Abstract!Fits(i, want)
  <2>1. ASSUME NEW x \in i..(i + want - 1)
        PROVE  x \in Blocks /\ ~allocated[x]
    <3>1. i + num[i] <= NumBlocks
      BY <1>1 DEF IInv, HeapInv, Tiled
    <3>2. x \in RegionOf(i) /\ x \in Blocks
      BY <1>1, <3>1, TableSize DEF RegionOf, Blocks
    <3> QED BY <1>1, <3>2 DEF IInv, HeapInv, Uniform
  <2> QED BY <1>2, <2>1, UsedIsMarked DEF Abstract!Fits, Abstract!Region
<1>4. addr' = Abstract!Address(i)
  BY <1>1, ShmemAssumption DEF AllocTake, Address, Abstract!Address, Blocks
<1>5. Abstract!Grant(i)
  BY <1>1, <1>2, <1>3, <1>4 DEF AllocTake, Returns, Abstract!Grant
<1> QED BY <1>1, <1>2, <1>5 DEF Abstract!Next

\* shmem_free gives back a region that was handed out, or does nothing.
LEMMA FreeRefines ==
  ASSUME IInv, NEW a \in Addresses, Free(a)
  PROVE  [Abstract!Next]_(Abstract!vars)
<1> DEFINE b == BlockIndex(a)
<1>1. b \in Blocks /\ allocated[b] /\ num[b] \in Nat /\ size = 0
  BY IndexInTable, NoRequest, TableSize DEF Free, Freeable, IInv, TypeOK
<1>2. CASE num[b] = 0
  BY <1>2, FreeKeepsTable DEF Free, Abstract!vars
<1>3. CASE num[b] > 0
  <2>1. b \in DOMAIN live
    BY <1>1, <1>3 DEF IInv, HeapInv, LiveMatches, Head
  <2>2. Abstract!Release(b)
    BY <1>1 DEF Free, Abstract!Release
  <2> QED BY <2>1, <2>2 DEF Abstract!Next
<1> QED BY <1>1, <1>2, <1>3

LEMMA NextRefines ==
  ASSUME IInv, [Next]_vars
  PROVE  [Abstract!Next]_(Abstract!vars)
<1>1. ASSUME NEW s \in 0..MaxSize, Alloc(s) PROVE Abstract!Next
  BY <1>1, AllocRefines
<1>2. ASSUME NEW a \in Addresses, Free(a)
      PROVE  [Abstract!Next]_(Abstract!vars)
  BY <1>2, FreeRefines
<1>3. CASE AllocFail
  BY <1>3, AllocFailRefines
<1>4. CASE AllocTake
  BY <1>4, AllocTakeRefines
<1>5. CASE AllocSkip \/ Stat \/ StatStep \/ MergeBack \/ UNCHANGED vars
  BY <1>5
     DEF AllocSkip, Stat, StatStep, MergeBack, vars, Abstract!vars
<1>6. CASE StatEnd \/ MergePrevious
  BY <1>6, NoRequest
     DEF StatEnd, MergePrevious, Returns, Abstract!vars
<1> QED
  BY <1>1, <1>2, <1>3, <1>4, <1>5, <1>6 DEF Next, Loop

\* The table of shmem.cpp is a heap as sketches understand it: regions are
\* handed out apart from each other and long enough, a request is refused only
\* if no run of free blocks could hold it (no free space is lost to
\* fragmentation between neighbours), and giving back an address that was not
\* handed out has no effect on what others hold.
THEOREM TableImplementsHeap ==
  ASSUME NoWrap
  PROVE  Spec => ImplementsHeap
<1>1. IInv /\ [Next]_vars => [Abstract!Next]_(Abstract!vars)
  BY NextRefines
<1>2. Spec => []IInv
  BY TableStaysWellFormed DEF IInv
<1> QED
  BY <1>1, <1>2, InitRefines, PTL DEF Spec, ImplementsHeap, Abstract!Spec
----------------------------------------------------------------------------
(* The count of shmem_stat.                                                *)

IsFreeRun(b, n) == \A x \in Blocks : x >= b /\ x < b + n => ~allocated[x]

\* What shmem_stat has found when it stands on block i: the free blocks in
\* front of it, the run of them that ends there, and the longest of all.
Tallying ==
  /\ pc # "stat" => tally = NoTally
  /\ pc = "stat" =>
       /\ tally.free = Cardinality({b \in FreeBlocks : b < i})
       /\ tally.run <= i
       /\ IsFreeRun(i - tally.run, tally.run)
       /\ tally.run < i => allocated[i - tally.run - 1]
       /\ \E b \in Blocks : b + tally.best <= i /\ IsFreeRun(b, tally.best)
       /\ \A b \in Blocks, n \in 0..NumBlocks :
            b + n <= i /\ IsFreeRun(b, n) => n <= tally.best

LEMMA FreeFinite == IsFiniteSet(FreeBlocks) /\ Cardinality(FreeBlocks) <= NumBlocks
<1>1. IsFiniteSet(Blocks) /\ Cardinality(Blocks) = NumBlocks
  <2>1. 0 \in Int /\ NumBlocks - 1 \in Int /\ ~(0 > NumBlocks - 1)
    BY TableSize
  <2> QED BY <2>1, TableSize, FS_Interval DEF Blocks
<1>2. FreeBlocks \in SUBSET Blocks
  BY DEF FreeBlocks
<1> QED BY <1>1, <1>2, FS_Subset

LEMMA FreeBefore ==
  ASSUME NEW j \in Int
  PROVE  /\ IsFiniteSet({b \in FreeBlocks : b < j})
         /\ Cardinality({b \in FreeBlocks : b < j}) \in Nat
<1>1. {b \in FreeBlocks : b < j} \in SUBSET FreeBlocks
  OBVIOUS
<1> QED BY <1>1, FreeFinite, FS_Subset, FS_CardinalityType

\* An allocated region adds nothing to what is in front of it, a free one all
\* its blocks.
LEMMA CountRegion ==
  ASSUME IInv, i < NumBlocks, num[i] > 0
  PROVE  Cardinality({b \in FreeBlocks : b < i + num[i]}) =
           Cardinality({b \in FreeBlocks : b < i}) +
             (IF allocated[i] THEN 0 ELSE num[i])
<1> DEFINE m == num[i]
           Before == {b \in FreeBlocks : b < i}
           Upto == {b \in FreeBlocks : b < i + m}
           R == i..(i + m - 1)
<1>1. i \in Blocks /\ Head(i) /\ m \in Nat /\ i \in Nat /\ i + m <= NumBlocks
  BY NextHead, TableSize DEF IInv, TypeOK, Blocks
<1>2. \A x \in R : x \in Blocks /\ allocated[x] = allocated[i]
  BY <1>1, TableSize DEF IInv, HeapInv, Uniform, RegionOf, Blocks
<1>3. CASE allocated[i]
  <2>1. \A x \in R : allocated[x]
    BY <1>2, <1>3, Zenon
  <2>2. Upto = Before
    BY <1>1, <2>1 DEF FreeBlocks, Blocks
  <2> QED BY <1>1, <1>3, <2>2, FreeBefore
<1>4. CASE ~allocated[i]
  <2>1. Upto = Before \cup R /\ Before \cap R = {}
    BY <1>1, <1>2, <1>4 DEF FreeBlocks, Blocks
  <2>2. IsFiniteSet(R) /\ Cardinality(R) = m
    <3> DEFINE last == i + m - 1
    <3>1. i \in Int /\ last \in Int /\ ~(i > last) /\ last - i + 1 = m
      BY <1>1
    <3> HIDE DEF last
    <3>2. IsFiniteSet(i..last) /\ Cardinality(i..last) = last - i + 1
      BY <3>1, FS_Interval
    <3> QED BY <3>1, <3>2 DEF last
  <2>3. IsFiniteSet(Before) /\ Cardinality(Before) \in Nat
    BY <1>1, FreeBefore
  <2>4. Cardinality(Before \cap R) = 0
    BY <2>1, FS_EmptySet
  <2>5. Cardinality(Upto) = Cardinality(Before) + Cardinality(R) - Cardinality(Before \cap R)
    BY <2>1, <2>2, <2>3, FS_Union
  <2> HIDE DEF Before, R, Upto
  <2>6. Cardinality(Upto) = Cardinality(Before) + m
    BY <1>1, <2>2, <2>3, <2>4, <2>5
  <2> QED BY <1>4, <2>6 DEF Before, Upto
<1> QED BY <1>3, <1>4

LEMMA TallyStep ==
  ASSUME IInv, Tallying, StatStep
  PROVE  Tallying'
<1> DEFINE m == num[i]
           run == tally.run
           best == tally.best
<1>1. /\ i \in Blocks /\ i \in Nat /\ m \in Nat /\ m > 0 /\ i + m <= NumBlocks
      /\ i < NumBlocks /\ NumBlocks \in Nat /\ num[i] > 0
  BY NextHead, TableSize DEF StatStep, IInv, TypeOK, Blocks
<1>2. /\ pc = "stat" /\ pc' = "stat" /\ i' = i + m /\ tally' = Count(tally, i)
      /\ allocated' = allocated
  BY DEF StatStep, table
<1>3. \A x \in Blocks : x >= i /\ x < i + m => allocated[x] = allocated[i]
  BY <1>1 DEF IInv, HeapInv, Uniform, Head, RegionOf, Blocks
<1>4. /\ tally.free \in Nat /\ run \in Nat /\ best \in Nat
      /\ tally = [free |-> tally.free, run |-> run, best |-> best]
  BY DEF IInv, TypeOK
<1>5. /\ tally.free = Cardinality({b \in FreeBlocks : b < i})
      /\ run <= i
      /\ IsFreeRun(i - run, run)
      /\ run < i => allocated[i - run - 1]
      /\ \E b \in Blocks : b + best <= i /\ IsFreeRun(b, best)
      /\ \A b \in Blocks, n \in 0..NumBlocks :
           b + n <= i /\ IsFreeRun(b, n) => n <= best
  BY <1>2, Zenon DEF Tallying
<1>7. FreeBlocks' = FreeBlocks
  BY <1>2, Zenon DEF FreeBlocks
<1> DEFINE c == tally'
<1> HIDE DEF c
<1>8. SUFFICES
        /\ c.free = Cardinality({b \in FreeBlocks : b < i + m})
        /\ c.run <= i + m
        /\ IsFreeRun((i + m) - c.run, c.run)
        /\ c.run < i + m => allocated[(i + m) - c.run - 1]
        /\ \E b \in Blocks : b + c.best <= i + m /\ IsFreeRun(b, c.best)
        /\ \A b \in Blocks, n \in 0..NumBlocks :
             b + n <= i + m /\ IsFreeRun(b, n) => n <= c.best
  <2>1. {b \in FreeBlocks' : b < i'} = {b \in FreeBlocks : b < i + m}
    BY <1>2, <1>7
  <2> QED BY <1>2, <2>1 DEF Tallying, IsFreeRun, c
<1>9. CASE allocated[i]
  <2>0. \A x \in Blocks : x >= i /\ x < i + m => allocated[x]
    BY <1>3, <1>9, Zenon
  <2>1. c.free = tally.free /\ c.run = 0 /\ c.best = best
    BY <1>2, <1>4, <1>9 DEF Count, c
  <2>2. c.free = Cardinality({b \in FreeBlocks : b < i + m})
    BY <1>1, <1>4, <1>5, <1>9, <2>1, CountRegion
  <2>3. IsFreeRun((i + m) - c.run, c.run)
    BY <1>1, <2>1 DEF IsFreeRun, Blocks
  <2>4. c.run < i + m => allocated[(i + m) - c.run - 1]
    <3>1. i + m - 1 \in Blocks /\ i + m - 1 >= i /\ i + m - 1 < i + m
      BY <1>1 DEF Blocks
    <3>2. (i + m) - c.run - 1 = i + m - 1
      BY <1>1, <2>1
    <3> QED BY <2>0, <3>1, <3>2
  <2>5. \E b \in Blocks : b + c.best <= i + m /\ IsFreeRun(b, c.best)
    BY <1>1, <1>4, <1>5, <2>1 DEF Blocks
  <2>6. ASSUME NEW b \in Blocks, NEW n \in 0..NumBlocks, b + n <= i + m, IsFreeRun(b, n)
        PROVE  n <= c.best
    <3>1. ~(b <= i /\ i < b + n)
      BY <1>1, <1>9, <2>6 DEF IsFreeRun
    <3>2. ~(b > i /\ n > 0)
      BY <1>1, <2>0, <2>6 DEF IsFreeRun, Blocks
    <3>3. n = 0 \/ b + n <= i
      BY <1>1, <2>6, <3>1, <3>2 DEF Blocks
    <3> QED BY <1>4, <1>5, <2>1, <2>6, <3>3
  <2>7. c.run <= i + m
    BY <1>1, <2>1
  <2> QED BY <2>2, <2>3, <2>4, <2>5, <2>6, <2>7
<1>10. CASE ~allocated[i]
  <2>1. /\ c.free = tally.free + m /\ c.run = run + m
        /\ c.best = IF run + m > best THEN run + m ELSE best
    BY <1>2, <1>4, <1>10 DEF Count, c
  <2>2. c.free = Cardinality({b \in FreeBlocks : b < i + m})
    BY <1>1, <1>4, <1>5, <1>10, <2>1, CountRegion
  <2>3. (i + m) - c.run = i - run
    BY <1>1, <1>4, <2>1
  <2>4. IsFreeRun(i - run, run + m)
    BY <1>1, <1>3, <1>4, <1>5, <1>10 DEF IsFreeRun, Blocks
  <2>5. i - run \in Blocks
    BY <1>1, <1>4, <1>5 DEF Blocks
  <2>6. \E b \in Blocks : b + c.best <= i + m /\ IsFreeRun(b, c.best)
    <3>1. CASE run + m > best
      <4>1. i - run + (run + m) <= i + m
        BY <1>1, <1>4
      <4> QED BY <2>1, <2>4, <2>5, <3>1, <4>1
    <3>2. CASE ~(run + m > best)
      BY <1>1, <1>4, <1>5, <2>1, <3>2 DEF Blocks
    <3> QED BY <3>1, <3>2
  <2>7. ASSUME NEW b \in Blocks, NEW n \in 0..NumBlocks, b + n <= i + m, IsFreeRun(b, n)
        PROVE  n <= c.best
    <3>1. CASE b + n <= i
      BY <1>4, <1>1, <1>5, <2>1, <2>7, <3>1
    <3>2. CASE b + n > i
      <4>1. ASSUME b < i - run PROVE FALSE
        <5>1. i - run - 1 \in Blocks /\ run < i
          BY <1>1, <1>4, <1>5, <4>1 DEF Blocks
        <5>2. i - run - 1 >= b /\ i - run - 1 < b + n
          BY <1>1, <1>4, <3>2, <4>1 DEF Blocks
        <5> QED BY <1>5, <2>7, <5>1, <5>2 DEF IsFreeRun
      <4> QED BY <1>1, <1>4, <2>1, <2>7, <4>1 DEF Blocks
    <3> QED BY <1>1, <3>1, <3>2 DEF Blocks
  <2> QED BY <1>1, <1>4, <1>5, <2>1, <2>2, <2>3, <2>4, <2>6, <2>7
<1> QED BY <1>9, <1>10

LEMMA TallyBegins ==
  ASSUME IInv, Tallying, Stat
  PROVE  Tallying'
<1>1. /\ pc' = "stat" /\ i' = 0 /\ tally' = NoTally
  BY DEF Stat, Tallying, IInv, HeapInv, Scanning
<1>2. ASSUME NEW b \in Blocks, NEW n \in 0..NumBlocks, b + n <= 0
      PROVE  n <= 0
  BY <1>2 DEF Blocks
<1>3. {b \in FreeBlocks' : b < 0} = {}
  BY DEF FreeBlocks, Blocks
<1>4. IsFreeRun(0, 0)'
  BY DEF IsFreeRun, Blocks
<1>5. Cardinality({b \in FreeBlocks' : b < 0}) = 0
  BY <1>3, FS_EmptySet
<1>6. 0 \in Blocks /\ 0 - 0 = 0 /\ 0 + 0 <= 0
  BY TableSize
<1> QED BY <1>1, <1>2, <1>4, <1>5, <1>6 DEF Tallying, NoTally

LEMMA NextTallying ==
  ASSUME IInv, Tallying, [Next]_vars
  PROVE  Tallying'
<1>1. CASE Stat
  BY <1>1, TallyBegins
<1>2. CASE StatStep
  BY <1>2, TallyStep
<1>3. CASE UNCHANGED vars
  BY <1>3 DEF vars, table, Tallying, IsFreeRun, FreeBlocks
<1>4. CASE AllocFail \/ AllocTake \/ StatEnd \/ MergePrevious
  BY <1>4 DEF AllocFail, AllocTake, StatEnd, MergePrevious, Returns, Tallying
<1>5. CASE AllocSkip \/ MergeBack
  BY <1>5 DEF AllocSkip, MergeBack, Tallying
<1>6. ASSUME NEW s \in 0..MaxSize, Alloc(s) PROVE Tallying'
  BY <1>6 DEF Alloc, Tallying
<1>7. ASSUME NEW a \in Addresses, Free(a) PROVE Tallying'
  BY <1>7 DEF Free, Tallying
<1> QED
  BY <1>1, <1>2, <1>3, <1>4, <1>5, <1>6, <1>7 DEF Next, Loop

\* The free bytes fit in a word.
LEMMA BytesFit ==
  ASSUME NEW n \in 0..NumBlocks
  PROVE  (n * BlockSize) % Word = BlockSize * n
<1>1. n * BlockSize \in Nat /\ n * BlockSize <= NumBlocks * BlockSize
  BY ShmemAssumption
<1>2. n * BlockSize < Word
  BY <1>1, ShmemAssumption
<1>3. (n * BlockSize) % Word = n * BlockSize
  BY <1>1, <1>2, ShmemAssumption
<1> QED BY <1>3, ShmemAssumption

LEMMA StatEndTruthful ==
  ASSUME IInv, Tallying, StatEnd
  PROVE  /\ stat'.total = BlockSize * Cardinality(FreeBlocks)
         /\ stat'.largest \in {BlockSize * n : n \in FreeRuns}
         /\ \A n \in FreeRuns : BlockSize * n <= stat'.largest
<1>1. pc = "stat" /\ i = NumBlocks
  BY TableSize
     DEF StatEnd, IInv, HeapInv, Scanning, TypeOK, Head, Blocks
<1>2. tally.free \in Nat /\ tally.best \in Nat
  BY DEF IInv, TypeOK
<1>3. tally.free = Cardinality(FreeBlocks) /\ tally.free \in 0..NumBlocks
  <2>1. {b \in FreeBlocks : b < i} = FreeBlocks
    BY <1>1, TableSize DEF FreeBlocks, Blocks
  <2>2. tally.free = Cardinality(FreeBlocks)
    BY <1>1, <2>1 DEF Tallying
  <2>3. Cardinality(FreeBlocks) <= NumBlocks
    BY FreeFinite
  <2> QED BY <1>2, <2>2, <2>3, TableSize
<1>4. PICK b \in Blocks : b + tally.best <= NumBlocks /\ IsFreeRun(b, tally.best)
  BY <1>1 DEF Tallying
<1>5. \A c \in Blocks, n \in 0..NumBlocks :
        c + n <= NumBlocks /\ IsFreeRun(c, n) => n <= tally.best
  BY <1>1 DEF Tallying
<1>6. tally.best \in 0..NumBlocks
  BY <1>2, <1>4, TableSize DEF Blocks
<1>7. stat'.total = BlockSize * tally.free /\ stat'.largest = BlockSize * tally.best
  BY <1>3, <1>6, BytesFit DEF StatEnd
<1>8. tally.best \in FreeRuns
  <2>1. b..(b + tally.best - 1) \subseteq FreeBlocks
    BY <1>2, <1>4, TableSize DEF IsFreeRun, FreeBlocks, Blocks
  <2> QED BY <1>6, <2>1 DEF FreeRuns
<1>9. ASSUME NEW n \in FreeRuns
      PROVE  BlockSize * n <= BlockSize * tally.best
  <2>1. n \in 0..NumBlocks
    BY DEF FreeRuns
  <2>2. PICK c \in Blocks : c..(c + n - 1) \subseteq FreeBlocks
    BY DEF FreeRuns
  <2>3. IsFreeRun(c, n)
    BY <2>1, <2>2 DEF IsFreeRun, FreeBlocks, Blocks
  <2>4. c + n <= NumBlocks
    <3>1. CASE n = 0
      BY <3>1, TableSize DEF Blocks
    <3>2. CASE n > 0
      <4>1. c + n - 1 \in c..(c + n - 1)
        BY <2>1, <3>2 DEF Blocks
      <4>2. c + n - 1 \in Blocks
        BY <2>2, <4>1 DEF FreeBlocks
      <4> QED BY <2>1, <4>2, TableSize DEF Blocks
    <3> QED BY <2>1, <3>1, <3>2
  <2>5. n <= tally.best
    BY <1>5, <2>1, <2>3, <2>4
  <2> QED BY <1>2, <2>1, <2>5, ShmemAssumption
<1> QED BY <1>3, <1>7, <1>8, <1>9

\* shmem_stat tells the truth about the heap: its total is that of all free
\* blocks, and a run of exactly the largest size it names exists, while no
\* longer one does.
THEOREM StatTellsTheTruth ==
  ASSUME NoWrap
  PROVE  Spec => StatTruthful
<1> DEFINE Truth ==
             pc = "stat" /\ pc' = "idle" =>
               /\ stat'.total = BlockSize * Cardinality(FreeBlocks)
               /\ stat'.largest \in {BlockSize * n : n \in FreeRuns}
               /\ \A n \in FreeRuns : BlockSize * n <= stat'.largest
<1>1. Init => Tallying
  BY DEF Init, Tallying, NoTally
<1>2. IInv /\ Tallying /\ [Next]_vars => Tallying'
  BY NextTallying
<1>3. IInv /\ Tallying /\ [Next]_vars => [Truth]_vars
  <2>1. ASSUME pc = "stat", pc' = "idle", Next PROVE StatEnd
    BY <2>1
       DEF Next, Loop, Alloc, AllocSkip, AllocFail, AllocTake, Free, MergeBack,
           MergePrevious, Stat, StatStep
  <2> QED BY <2>1, StatEndTruthful
<1>4. Spec => []IInv
  BY TableStaysWellFormed DEF IInv
<1> QED BY <1>1, <1>2, <1>3, <1>4, PTL DEF Spec, StatTruthful
============================================================================
