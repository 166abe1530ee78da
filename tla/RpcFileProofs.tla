--------------------------- MODULE RpcFileProofs ---------------------------
(***************************************************************************)
(* The handle table of the file service and FatFs agree, whatever the      *)
(* number of handles, the files, the requests and the card's failures.     *)
(***************************************************************************)
EXTENDS RpcFile, TLAPS

IInv == TypeOK /\ HandleInv

LEMMA Bounds ==
  /\ BufferSize \in Nat /\ Word \in Nat /\ 0 \in 0..(Word - 1)
  /\ Lengths \subseteq Nat /\ Offsets \subseteq Nat /\ Sizes \subseteq Nat
  /\ NIL \notin Files
BY RpcFileAssumption

(***************************************************************************)
(* What the steps do to the file objects.                                  *)
(***************************************************************************)

\* A handle that is active has an object that is in use, of a file on the
\* card, with a position in it.
LEMMA ActiveObject ==
  ASSUME TypeOK, HandleInv, NEW h \in Handles
  PROVE  /\ length \in [Files -> Nat]
         /\ fil[h] \in FIL
         /\ active[h] <=> fil[h].state # "none"
         /\ active[h] => /\ fil[h].file \in Files
                         /\ length[fil[h].file] \in Nat
                         /\ fil[h].pos \in 0..length[fil[h].file]
<1>1. length \in [Files -> Nat]
  BY Bounds DEF TypeOK
<1>2. fil[h] \in FIL /\ fil[h].pos \in Nat
  BY DEF TypeOK, FIL
<1>3. /\ active[h] <=> fil[h].state # "none"
      /\ active[h] => /\ fil[h].file \in Files
                      /\ fil[h].pos <= length[fil[h].file]
  BY DEF HandleInv, TableAgrees
<1> QED  BY <1>1, <1>2, <1>3

\* A read of file_read moves the position on and may abort the object; nothing
\* that the handle table says changes.
LEMMA FileReadKeeps ==
  ASSUME IInv, NEW h \in Passed, NEW n \in Nat, NEW k \in Nat,
         FileRead(h, n, k), UNCHANGED <<length, active, held>>
  PROVE  /\ fil' \in [Handles -> FIL]
         /\ HandleInv'
         /\ fault \in BOOLEAN => fault' \in BOOLEAN
<1> USE DEF IInv
<1>1. CASE ~Valid(h)
  BY <1>1 DEF FileRead, TypeOK, HandleInv, TableAgrees, NoneLost
<1>2. CASE Valid(h) /\ fil[h].state # "open"
  BY <1>2 DEF FileRead, FRead, TypeOK, HandleInv, TableAgrees, NoneLost
<1>3. CASE Valid(h) /\ fil[h].state = "open"
  <2>1. h \in Handles /\ active[h]
    BY <1>3 DEF Valid
  <2>2. /\ fil[h].file \in Files
        /\ length[fil[h].file] \in Nat
        /\ fil[h].pos \in 0..length[fil[h].file]
    BY <2>1, ActiveObject
  <2>3. k <= Least(n, Remaining(h)) /\ fault' \in BOOLEAN
    BY <1>3, <2>1 DEF FileRead, FRead
  <2>4. PICK s \in {"open", "aborted"} :
          fil' = [fil EXCEPT ![h].pos = fil[h].pos + k, ![h].state = s]
    BY <1>3, <2>1 DEF FileRead, FRead, TypeOK, FIL
  <2>5. fil[h].pos + k \in 0..length[fil[h].file]
    BY <2>2, <2>3 DEF Least, Remaining
  <2>6. PICK p \in Nat :
          /\ p <= length[fil[h].file]
          /\ fil' = [fil EXCEPT ![h].pos = p, ![h].state = s]
    <3>1. fil[h].pos + k \in Nat /\ fil[h].pos + k <= length[fil[h].file]
      BY <2>2, <2>5
    <3> USE <3>1
    <3> WITNESS fil[h].pos + k \in Nat
    <3> QED  BY <2>4
  <2>7. fil' \in [Handles -> FIL]
    BY <2>1, <2>6 DEF TypeOK, FIL
  <2>8. HandleInv'
    BY <2>1, <2>2, <2>6 DEF TypeOK, FIL, HandleInv, TableAgrees, NoneLost
  <2> QED  BY <2>3, <2>7, <2>8
<1> QED  BY <1>1, <1>2, <1>3

(***************************************************************************)
(* The invariant.                                                          *)
(***************************************************************************)

LEMMA InitIInv == Init => IInv
<1> SUFFICES ASSUME Init PROVE IInv
  OBVIOUS
<1>1. NULL \in Nat
  BY DEF NULL
<1>2. TypeOK
  BY <1>1, Bounds DEF Init, TypeOK, FIL
<1>3. HandleInv
  BY DEF Init, HandleInv, TableAgrees, NoneLost
<1> QED  BY <1>2, <1>3 DEF IInv

LEMMA OpenIInv ==
  ASSUME IInv, NEW f \in Files, Open(f)
  PROVE  IInv'
<1>1. PICK h \in Handles :
        /\ fil' = [fil EXCEPT ![h] = [state |-> "open", file |-> f, pos |-> 0]]
        /\ active' = [active EXCEPT ![h] = TRUE]
        /\ held' = held \cup {h}
        /\ out' = h
  BY DEF Open
<1>2. TypeOK'
  BY <1>1 DEF IInv, Open, TypeOK, FIL, transfer, Handles
<1>3. HandleInv'
  <2>1. length[f] \in Nat
    BY Bounds DEF IInv, TypeOK
  <2> QED
    BY <1>1, <2>1 DEF IInv, Open, TypeOK, HandleInv, TableAgrees, NoneLost
<1> QED  BY <1>2, <1>3 DEF IInv

LEMMA OpenFailsIInv ==
  ASSUME IInv, OpenFails
  PROVE  IInv'
<1>1. PICK h \in Handles : FirstFree(h) /\ fil' = [fil EXCEPT ![h].state = "none"]
  BY DEF OpenFails
<1>2. fil' = fil
  BY <1>1, ActiveObject DEF IInv, FirstFree, TypeOK, FIL
<1>3. TypeOK'
  BY <1>2 DEF IInv, OpenFails, TypeOK, transfer, NULL
<1>4. HandleInv'
  BY <1>2 DEF IInv, OpenFails, HandleInv, TableAgrees, NoneLost
<1> QED  BY <1>3, <1>4 DEF IInv

LEMMA CloseIInv ==
  ASSUME IInv, NEW h \in Passed, Close(h)
  PROVE  IInv'
<1>1. CASE Valid(h)
  <2>1. /\ h \in Handles
        /\ fil' = [fil EXCEPT ![h].state = "none"]
        /\ active' = [active EXCEPT ![h] = FALSE]
        /\ held' = held \ {h}
    BY <1>1 DEF Close, Valid, FClose
  <2>2. TypeOK'
    BY <2>1 DEF IInv, Close, TypeOK, FIL, transfer
  <2>3. HandleInv'
    BY <2>1 DEF IInv, Close, TypeOK, FIL, HandleInv, TableAgrees, NoneLost
  <2> QED  BY <2>2, <2>3 DEF IInv
<1>2. CASE ~Valid(h)
  <2>1. held' = held
    BY <1>2 DEF Close, Valid, IInv, TypeOK, HandleInv, NoneLost
  <2> QED
    BY <1>2, <2>1
    DEF IInv, Close, TypeOK, HandleInv, TableAgrees, NoneLost, transfer
<1> QED  BY <1>1, <1>2

LEMMA SizeIInv ==
  ASSUME IInv, NEW h \in Passed, Size(h)
  PROVE  IInv'
<1>1. out' \in Nat
  <2>1. CASE h = NULL
    BY <2>1, Bounds DEF Size
  <2>2. CASE h # NULL
    <3>1. h \in Handles /\ fil[h].file \in Files \cup {NIL}
      BY <2>2 DEF Passed, IInv, TypeOK, FIL
    <3>2. fil[h].file \in Files => length[fil[h].file] \in Nat
      BY Bounds DEF IInv, TypeOK
    <3> QED  BY <2>2, <3>1, <3>2 DEF Size
  <2> QED  BY <2>1, <2>2
<1> QED
  BY <1>1 DEF IInv, Size, TypeOK, HandleInv, TableAgrees, NoneLost, transfer

LEMMA SeekIInv ==
  ASSUME IInv, NEW h \in Passed, NEW offset \in Offsets, Seek(h, offset)
  PROVE  IInv'
<1>1. CASE UNCHANGED fil
  <2>1. fault' \in BOOLEAN
    BY <1>1 DEF Seek, FSeek, IInv, TypeOK, Passed, FIL
  <2> QED
    BY <1>1, <2>1
    DEF IInv, Seek, TypeOK, HandleInv, TableAgrees, NoneLost, transfer
<1>2. CASE ~UNCHANGED fil
  <2> DEFINE goal == Least(offset, length[fil[h].file])
  <2>1. h \in Handles /\ fil[h].state = "open"
    BY <1>2 DEF Seek, FSeek, Passed, IInv, TypeOK, FIL
  <2>2. /\ fil[h].file \in Files
        /\ length[fil[h].file] \in Nat
    BY <2>1, ActiveObject DEF IInv
  <2>3. goal \in 0..length[fil[h].file]
    BY <2>2, Bounds DEF Least
  <2>4. \E p \in 0..goal, s \in {"open", "aborted"} :
          fil' = [fil EXCEPT ![h].pos = p, ![h].state = s]
    <3>1. FSeek(h, offset)
      BY <2>1 DEF Seek, Handles, NULL
    <3>2. CASE fil' = [fil EXCEPT ![h].pos = goal]
      <4>1. fil' = [fil EXCEPT ![h].pos = goal, ![h].state = "open"]
        BY <2>1, <3>2 DEF IInv, TypeOK, FIL
      <4>2. goal \in 0..goal
        BY <2>3
      <4> QED  BY <4>1, <4>2
    <3>3. CASE \E p \in 0..goal :
                 fil' = [fil EXCEPT ![h].pos = p, ![h].state = "aborted"]
      BY <3>3
    <3> QED  BY <2>1, <3>1, <3>2, <3>3 DEF FSeek
  <2>5. PICK p \in 0..goal, s \in {"open", "aborted"} :
          fil' = [fil EXCEPT ![h].pos = p, ![h].state = s]
    BY <2>4
  <2>6. fault' \in BOOLEAN
    BY <2>1 DEF Seek, FSeek, Handles, NULL, IInv, TypeOK
  <2>7. p \in Nat /\ p <= length[fil[h].file]
    BY <2>2, <2>3, <2>5
  <2>8. TypeOK'
    BY <2>1, <2>5, <2>6, <2>7 DEF IInv, Seek, TypeOK, FIL, transfer
  <2>9. HandleInv'
    BY <2>1, <2>2, <2>5, <2>7
    DEF IInv, Seek, TypeOK, FIL, HandleInv, TableAgrees, NoneLost
  <2> QED  BY <2>8, <2>9 DEF IInv
<1> QED  BY <1>1, <1>2

LEMMA AskIInv ==
  ASSUME IInv, NEW r \in Requests, Ask(r)
  PROVE  IInv'
<1>1. r.handle \in Passed /\ r.op \in {"read", "write"}
  BY DEF Requests
<1>2. from' \in Nat
  BY <1>1 DEF Ask, Passed, IInv, TypeOK, FIL
<1>3. TypeOK'
  BY <1>1, <1>2, Bounds DEF IInv, Ask, TypeOK
<1> QED
  BY <1>3 DEF IInv, Ask, HandleInv, TableAgrees, NoneLost

\* Both copy loops stay within the 16 bits of their count.
LEMMA ChunkIInv ==
  ASSUME IInv, ReadChunk \/ WriteChunk
  PROVE  IInv'
<1>1. args \in Requests /\ total < args.size
  BY DEF IInv, TypeOK, ReadChunk, WriteChunk
<1>2. args.handle \in Passed /\ args.size \in Sizes /\ args.size \in Nat
  BY <1>1, Bounds DEF Requests
<1>3. Chunk \in Nat
  BY <1>1, <1>2, Bounds DEF Chunk, Least, IInv, TypeOK
<1>4. PICK k \in 0..Chunk :
        /\ FileRead(args.handle, Chunk, k)
        /\ \/ pc' = "reply" /\ total' = (total + k) % Word
           \/ total' = (total + BufferSize) % Word /\ UNCHANGED pc
  BY DEF ReadChunk, WriteChunk
<1>5. UNCHANGED <<length, active, args, from, out, held>>
  BY DEF ReadChunk, WriteChunk
<1>6. /\ fil' \in [Handles -> FIL]
      /\ HandleInv'
      /\ fault' \in BOOLEAN
  BY <1>2, <1>3, <1>4, <1>5, FileReadKeeps DEF IInv, TypeOK
<1>7. total' \in 0..(Word - 1)
  BY <1>3, <1>4, Bounds DEF IInv, TypeOK
<1>8. pc' \in {"idle", "read", "write", "reply"}
  BY <1>4 DEF IInv, TypeOK
<1> QED
  BY <1>1, <1>5, <1>6, <1>7, <1>8 DEF IInv, TypeOK

LEMMA NextIInv == IInv /\ [Next]_vars => IInv'
<1> SUFFICES ASSUME IInv, [Next]_vars PROVE IInv'
  OBVIOUS
<1>1. CASE OpenFull
  BY <1>1 DEF OpenFull, IInv, TypeOK, HandleInv, TableAgrees, NoneLost,
              transfer, NULL
<1>2. CASE Reply
  BY <1>2, Bounds
  DEF Reply, IInv, TypeOK, HandleInv, TableAgrees, NoneLost
<1>3. CASE UNCHANGED vars
  BY <1>3 DEF vars, IInv, TypeOK, HandleInv, TableAgrees, NoneLost
<1> QED
  BY <1>1, <1>2, <1>3, OpenIInv, OpenFailsIInv, CloseIInv, SizeIInv, SeekIInv,
     AskIInv, ChunkIInv
  DEF Next, Loop

\* file_handle_active and the objects of FatFs agree on which files are open,
\* no position leaves its file, no handle is lost or given out twice, and the
\* counts of the copy loops stay words.
THEOREM HandlesAccountedFor == Spec => [](TypeOK /\ HandleInv)
<1>1. Init => IInv
  BY InitIInv
<1>2. IInv /\ [Next]_vars => IInv'
  BY NextIInv
<1>3. IInv => TypeOK /\ HandleInv
  BY DEF IInv
<1> QED  BY <1>1, <1>2, <1>3, PTL DEF Spec

(***************************************************************************)
(* What a transfer under way has done.                                     *)
(***************************************************************************)

\* The bytes that a read has brought so far.
Brought ==
  [a \in args.addr..(args.addr + total - 1) |->
     [file |-> fil[args.handle].file, pos |-> from + (a - args.addr)]]

\* A read stands as far behind the beginning as its count says, and comes up
\* short only at the end of the file, or when the card has failed.
Reading ==
  args.op = "read" =>
    /\ total <= args.size
    /\ memory = Brought
    /\ ~Valid(args.handle) => total = 0
    /\ Valid(args.handle) =>
         /\ fil[args.handle].pos = from + total
         /\ pc = "reply" /\ total < args.size
              /\ from + total < length[fil[args.handle].file] => fault

Writing ==
  args.op = "write" =>
    /\ memory = Nothing
    /\ Valid(args.handle) => from <= fil[args.handle].pos

Transferring ==
  /\ pc = "idle" => args = NIL
  /\ pc # "idle" => Reading /\ Writing
  /\ pc \in {"read", "write"} => args.op = pc

TInv == IInv /\ Transferring

\* What a request asks for lies within a word.
LEMMA RequestBounds ==
  ASSUME NEW r \in Requests
  PROVE  /\ r.op \in {"read", "write"} /\ r.handle \in Passed
         /\ r.addr \in Nat /\ r.size \in Nat /\ r.size < Word
<1>1. /\ r.op \in {"read", "write"} /\ r.handle \in Passed
      /\ r.addr \in Addrs /\ r.size \in Sizes
  BY DEF Requests
<1>2. r.size \in 0..(Word - 1) /\ Word \in Nat /\ r.addr \in Nat
  BY <1>1, RpcFileAssumption
<1> QED BY <1>1, <1>2

LEMMA AskBegins ==
  ASSUME TInv, NEW r \in Requests, Ask(r)
  PROVE  Transferring'
<1>1. /\ args' = r /\ pc' = r.op /\ total' = 0 /\ memory' = Nothing
      /\ UNCHANGED <<length, active, fil>>
      /\ from' = IF r.handle = NULL THEN 0 ELSE fil[r.handle].pos
  BY DEF Ask
<1>2. /\ r.op \in {"read", "write"} /\ r.handle \in Passed
      /\ r.addr \in Nat /\ r.size \in Nat
  BY RequestBounds
<1>3. Brought' = Nothing
  <2>1. r.addr..(r.addr + 0 - 1) = {}
    BY <1>2
  <2> QED BY <1>1, <2>1 DEF Brought, Nothing
<1>4. ASSUME Valid(r.handle)
      PROVE  from' = fil[r.handle].pos /\ from' \in Nat
  BY <1>1, <1>4 DEF Valid, Handles, NULL, TInv, IInv, TypeOK, FIL
<1>5. Valid(r.handle)' <=> Valid(r.handle)
  BY <1>1 DEF Valid
<1>6. Reading'
  BY <1>1, <1>2, <1>3, <1>4, <1>5 DEF Reading, Valid
<1>7. Writing'
  BY <1>1, <1>2, <1>4, <1>5 DEF Writing, Valid
<1> QED BY <1>1, <1>2, <1>6, <1>7 DEF Transferring

\* What a read is due, and what one chunk of it is.
LEMMA ChunkBounds ==
  ASSUME IInv, pc # "idle", total < args.size
  PROVE  /\ args.size \in Nat /\ args.size < Word /\ args.addr \in Nat
         /\ args.handle \in Passed /\ total \in Nat /\ from \in Nat
         /\ BufferSize \in Nat /\ BufferSize > 0 /\ Word \in Nat
         /\ Chunk \in Nat /\ Chunk > 0 /\ Chunk <= BufferSize
         /\ total + Chunk <= args.size
         /\ Chunk < BufferSize => total + Chunk = args.size
<1>1. args \in Requests
  BY DEF IInv, TypeOK
<1>2. /\ args.size \in Nat /\ args.size < Word /\ args.addr \in Nat
      /\ args.handle \in Passed
  BY <1>1, RequestBounds
<1>3. total \in Nat /\ from \in Nat
  BY RpcFileAssumption DEF IInv, TypeOK
<1> QED BY <1>2, <1>3, RpcFileAssumption DEF Chunk, Least

LEMMA ReadChunkKeeps ==
  ASSUME TInv, ReadChunk
  PROVE  Transferring'
<1> DEFINE h == args.handle
           at == args.addr + total
<1>1. /\ pc = "read" /\ total < args.size /\ args.op = "read"
      /\ UNCHANGED <<length, active, args, from>>
  BY DEF TInv, Transferring, ReadChunk
<1>2. /\ args.size \in Nat /\ args.size < Word /\ args.addr \in Nat
      /\ h \in Passed /\ total \in Nat /\ from \in Nat
      /\ BufferSize \in Nat /\ BufferSize > 0 /\ Word \in Nat
      /\ Chunk \in Nat /\ Chunk > 0 /\ Chunk <= BufferSize
      /\ total + Chunk <= args.size
      /\ Chunk < BufferSize => total + Chunk = args.size
  BY <1>1, ChunkBounds DEF TInv
<1>3. PICK k \in 0..Chunk :
        /\ FileRead(h, Chunk, k)
        /\ memory' = Written(k)
        /\ IF k # Chunk \/ k < BufferSize
             THEN pc' = "reply" /\ total' = (total + k) % Word
             ELSE total' = (total + BufferSize) % Word /\ UNCHANGED pc
  BY DEF ReadChunk
<1>4. /\ total' = total + k /\ total + k <= args.size
      /\ pc' \in {"read", "reply"}
      /\ pc' = "reply" => k # Chunk \/ total + k = args.size
  BY <1>1, <1>2, <1>3
<1>5. memory = Brought /\ (~Valid(h) => total = 0)
      /\ (Valid(h) => fil[h].pos = from + total)
  BY <1>1 DEF TInv, Transferring, Reading
<1>6. Valid(h)' <=> Valid(h)
  BY <1>1 DEF Valid
<1>7. CASE ~Valid(h)
  <2>1. k = 0 /\ fil' = fil /\ total' = 0 /\ total = 0
    BY <1>2, <1>3, <1>4, <1>5, <1>7 DEF FileRead
  <2>2. memory' = memory
    <3>1. at..(at + 0 - 1) = {} /\ DOMAIN memory = args.addr..(args.addr + 0 - 1)
      BY <1>2, <1>5, <2>1 DEF Brought
    <3>2. memory = [a \in DOMAIN memory |-> memory[a]]
      BY <1>5 DEF Brought
    <3> QED BY <1>3, <2>1, <3>1, <3>2 DEF Written
  <2>3. Brought' = Brought
    BY <1>1, <2>1 DEF Brought
  <2> QED
    BY <1>1, <1>4, <1>5, <1>6, <1>7, <2>1, <2>2, <2>3
    DEF Transferring, Reading, Writing
<1>8. CASE Valid(h)
  <2>1. h \in Handles /\ active[h]
    BY <1>8 DEF Valid
  <2>2. /\ fil[h].file \in Files
        /\ length[fil[h].file] \in Nat
        /\ fil[h].pos \in 0..length[fil[h].file]
    BY <2>1, ActiveObject DEF TInv, IInv
  <2>3. /\ fil'[h].file = fil[h].file
        /\ fil'[h].pos = fil[h].pos + k
        /\ k < Least(Chunk, Remaining(h)) => fault'
    <3>1. CASE fil[h].state = "open"
      BY <1>3, <1>8, <2>1, <3>1
      DEF FileRead, FRead, TInv, IInv, TypeOK, FIL
    <3>2. CASE fil[h].state # "open"
      <4>1. k = 0 /\ fault' /\ fil' = fil
        BY <1>3, <1>8, <3>2 DEF FileRead, FRead
      <4> QED BY <2>2, <4>1
    <3> QED BY <3>1, <3>2
  <2>4. memory' = Brought'
    <3>1. DOMAIN memory = args.addr..(at - 1)
      <4>1. DOMAIN memory = args.addr..(args.addr + total - 1)
        BY <1>5 DEF Brought
      <4>2. args.addr + total - 1 = at - 1
        BY <1>2
      <4> QED BY <4>1, <4>2
    <3>2. DOMAIN memory \cup at..(at + k - 1) = args.addr..(args.addr + total' - 1)
      BY <1>2, <1>4, <3>1
    <3>3. \A a \in DOMAIN memory :
            memory[a] = [file |-> fil[h].file, pos |-> from + (a - args.addr)]
      BY <1>5 DEF Brought
    <3>4. ASSUME NEW a \in args.addr..(args.addr + total' - 1)
          PROVE  Written(k)[a] =
                   [file |-> fil[h].file, pos |-> from + (a - args.addr)]
      <4>1. a \in Int /\ (a \in at..(at + k - 1) \/ a \in DOMAIN memory)
        BY <3>2
      <4>2. CASE a \in at..(at + k - 1)
        <5>1. fil[h].pos + (a - at) = from + (a - args.addr)
          BY <1>2, <1>5, <1>8, <4>1
        <5> QED BY <3>2, <4>2, <5>1 DEF Written
      <4>3. CASE a \notin at..(at + k - 1)
        BY <3>2, <3>3, <4>1, <4>3 DEF Written
      <4> QED BY <4>2, <4>3
    <3>5. Written(k) = [a \in args.addr..(args.addr + total' - 1) |-> Written(k)[a]]
      BY <3>2 DEF Written
    <3> QED BY <1>1, <1>3, <2>3, <3>4, <3>5 DEF Brought
  <2>5. fil'[h].pos = from + total'
    BY <1>2, <1>4, <1>5, <1>8, <2>2, <2>3
  <2>6. ASSUME pc' = "reply", total' < args.size,
               from + total' < length[fil[h].file]
        PROVE  fault'
    BY <1>2, <1>4, <1>5, <1>8, <2>2, <2>3, <2>6 DEF Least, Remaining
  <2>7. Reading'
    BY <1>1, <1>4, <1>6, <1>8, <2>3, <2>4, <2>5, <2>6 DEF Reading
  <2> QED BY <1>1, <1>4, <2>7 DEF Transferring, Writing
<1> QED BY <1>7, <1>8

LEMMA WriteChunkKeeps ==
  ASSUME TInv, WriteChunk
  PROVE  Transferring'
<1> DEFINE h == args.handle
<1>1. /\ pc = "write" /\ total < args.size /\ args.op = "write"
      /\ pc' \in {"write", "reply"}
      /\ UNCHANGED <<length, active, args, from, memory>>
  BY DEF TInv, Transferring, WriteChunk
<1>2. PICK k \in 0..Chunk : FileRead(h, Chunk, k)
  BY DEF WriteChunk
<1>3. k \in Nat /\ from \in Nat
  BY <1>1, ChunkBounds DEF TInv
<1>4. memory = Nothing /\ (Valid(h) => from <= fil[h].pos)
  BY <1>1 DEF TInv, Transferring, Writing
<1>5. ASSUME Valid(h) PROVE from <= fil'[h].pos
  <2>1. h \in Handles /\ fil[h].pos \in Nat
    BY <1>5 DEF Valid, TInv, IInv, TypeOK, FIL
  <2>2. fil'[h].pos = fil[h].pos \/ fil'[h].pos = fil[h].pos + k
    BY <1>2, <1>5, <2>1 DEF FileRead, FRead, TInv, IInv, TypeOK, FIL
  <2> QED BY <1>3, <1>4, <1>5, <2>1, <2>2
<1>6. Valid(h)' <=> Valid(h)
  BY <1>1 DEF Valid
<1>7. Writing'
  BY <1>1, <1>4, <1>5, <1>6 DEF Writing
<1> QED BY <1>1, <1>7 DEF Transferring, Reading

LEMMA NextTransferring ==
  ASSUME TInv, [Next]_vars
  PROVE  Transferring'
<1>1. ASSUME NEW r \in Requests, Ask(r) PROVE Transferring'
  BY <1>1, AskBegins
<1>2. CASE ReadChunk
  BY <1>2, ReadChunkKeeps
<1>3. CASE WriteChunk
  BY <1>3, WriteChunkKeeps
<1>4. CASE Reply
  BY <1>4 DEF Reply, Transferring
<1>5. ASSUME pc = "idle", pc' = "idle", args' = args PROVE Transferring'
  BY <1>5 DEF TInv, Transferring
<1>6. CASE UNCHANGED vars
  BY <1>6 DEF vars, TInv, Transferring, Reading, Writing, Brought, Valid
<1>7. ASSUME NEW f \in Files, Open(f) PROVE Transferring'
  BY <1>5, <1>7 DEF Open, transfer
<1>8. CASE OpenFull \/ OpenFails
  BY <1>5, <1>8 DEF OpenFull, OpenFails, transfer
<1>9. ASSUME NEW h \in Passed, Close(h) \/ Size(h) PROVE Transferring'
  BY <1>5, <1>9 DEF Close, Size, transfer
<1>10. ASSUME NEW h \in Passed, NEW offset \in Offsets, Seek(h, offset)
       PROVE  Transferring'
  BY <1>5, <1>10 DEF Seek, transfer
<1> QED
  BY <1>1, <1>2, <1>3, <1>4, <1>6, <1>7, <1>8, <1>9, <1>10 DEF Next, Loop

(***************************************************************************)
(* The copy loops implement the file service.                              *)
(***************************************************************************)

\* The open handles as a sketch knows them: one that is read or written
\* stands, until the answer, where it stood before.
Opened ==
  [h \in {x \in Handles : active[x]} |->
     [file |-> fil[h].file,
      pos |-> IF pc # "idle" /\ h = args.handle THEN from ELSE fil[h].pos]]

LEMMA OpenedIs ==
  /\ DOMAIN Opened = {x \in Handles : active[x]}
  /\ \A h \in Handles :
       active[h] =>
         Opened[h] = [file |-> fil[h].file,
                      pos |-> IF pc # "idle" /\ h = args.handle
                                THEN from ELSE fil[h].pos]
  /\ Opened = [h \in DOMAIN Opened |-> Opened[h]]
BY DEF Opened

LEMMA FileOpened ==
  ASSUME NEW h \in Handles, active[h]
  PROVE  Opened[h].file = fil[h].file
<1>1. PICK q : Opened[h] = [file |-> fil[h].file, pos |-> q]
  BY OpenedIs
<1> QED BY <1>1

LEMMA InitRefines == Init => Abstract!Init
<1> SUFFICES ASSUME Init PROVE Abstract!Init
  OBVIOUS
<1>1. {x \in Handles : active[x]} = {}
  BY DEF Init
<1>2. Opened = [h \in {} |-> NIL]
  BY <1>1 DEF Opened
<1>3. length \in [Files -> Nat]
  BY RpcFileAssumption DEF Init
<1>4. pc = "idle" /\ args = NIL /\ memory = Nothing /\ out = NULL /\ fault = FALSE
  BY DEF Init
<1> QED
  BY <1>2, <1>3, <1>4 DEF Abstract!Init, Abstract!Nothing, Nothing, Opened

\* Between the transfers nothing is under way.
LEMMA Between ==
  ASSUME TInv, pc = "idle", pc' = "idle", UNCHANGED <<args, fault>>
  PROVE  /\ args = NIL /\ args' = NIL
         /\ (IF pc' = "idle" THEN fault' ELSE FALSE)
              = (IF pc = "idle" THEN fault ELSE FALSE)
BY DEF TInv, Transferring

\* No step but one on the table or the objects changes what is open.
LEMMA OpenedStays ==
  ASSUME pc = "idle", pc' = "idle", UNCHANGED <<active, fil>>
  PROVE  Opened' = Opened
BY DEF Opened

LEMMA OpenRefines ==
  ASSUME TInv, NEW f \in Files, Open(f)
  PROVE  Abstract!Next
<1>1. PICK h \in Handles :
        /\ ~active[h]
        /\ fil' = [fil EXCEPT ![h] = [state |-> "open", file |-> f, pos |-> 0]]
        /\ active' = [active EXCEPT ![h] = TRUE]
        /\ out' = h
  BY DEF Open, FirstFree
<1>2. /\ pc = "idle" /\ pc' = "idle" /\ memory' = Nothing
      /\ UNCHANGED <<length, args, fault>>
  BY DEF Open, transfer
<1>3. args = NIL /\ args' = NIL
  BY <1>2, Between
<1>4. {x \in Handles : active'[x]} = {x \in Handles : active[x]} \cup {h}
  BY <1>1 DEF TInv, IInv, TypeOK
<1>5. h \notin DOMAIN Opened
  BY <1>1, OpenedIs
<1>6. Opened' = [x \in DOMAIN Opened \cup {h} |->
                   IF x = h THEN [file |-> f, pos |-> 0] ELSE Opened[x]]
  <2>1. ASSUME NEW x \in Handles, active'[x]
        PROVE  [file |-> fil'[x].file, pos |-> fil'[x].pos]
                 = IF x = h THEN [file |-> f, pos |-> 0] ELSE Opened[x]
    BY <1>1, <1>2, <1>4, <2>1, OpenedIs DEF TInv, IInv, TypeOK, FIL
  <2>2. Opened' = [x \in {y \in Handles : active'[y]} |->
                     [file |-> fil'[x].file, pos |-> fil'[x].pos]]
    BY <1>2 DEF Opened
  <2> QED BY <1>4, <2>1, <2>2, OpenedIs
<1>7. Abstract!Open(h, f)
  BY <1>1, <1>2, <1>3, <1>5, <1>6
  DEF Abstract!Open, Abstract!Nothing, Nothing, Opened
<1> QED BY <1>1, <1>7 DEF Abstract!Next

LEMMA RefuseRefines ==
  ASSUME TInv, OpenFull \/ OpenFails
  PROVE  Abstract!Next
<1>1. /\ pc = "idle" /\ pc' = "idle" /\ memory' = Nothing /\ out' = NULL
      /\ UNCHANGED <<length, active, args, fault>>
  BY DEF OpenFull, OpenFails, transfer
<1>2. fil' = fil
  BY ActiveObject DEF OpenFull, OpenFails, FirstFree, TInv, IInv, TypeOK, FIL
<1>3. Opened' = Opened
  BY <1>1, <1>2, OpenedStays
<1>4. args = NIL /\ args' = NIL
  BY <1>1, Between
<1>5. Abstract!Refuse
  BY <1>1, <1>3, <1>4 DEF Abstract!Refuse, Abstract!Nothing, Nothing, Opened
<1> QED BY <1>5 DEF Abstract!Next

\* A step that leaves everything but |delivered| is the close of a handle
\* that was not open.
LEMMA CloseOfNone ==
  ASSUME TInv, NEW h \in Passed, ~Valid(h), pc = "idle", pc' = "idle",
         memory' = Nothing, UNCHANGED <<length, active, fil, args, out, fault>>
  PROVE  Abstract!Close(h)
<1>1. h \notin DOMAIN Opened
  BY OpenedIs DEF Valid
<1>2. Opened' = [x \in DOMAIN Opened \ {h} |-> Opened[x]]
  <2>1. DOMAIN Opened \ {h} = DOMAIN Opened
    BY <1>1
  <2> QED BY <2>1, OpenedIs, OpenedStays
<1>3. args = NIL /\ args' = NIL
  BY Between
<1> QED
  BY <1>2, <1>3 DEF Abstract!Close, Abstract!Nothing, Nothing, Opened

LEMMA CloseRefines ==
  ASSUME TInv, NEW h \in Passed, Close(h)
  PROVE  Abstract!Close(h)
<1>1. /\ pc = "idle" /\ pc' = "idle" /\ memory' = Nothing
      /\ UNCHANGED <<length, args, out, fault>>
  BY DEF Close, transfer
<1>2. CASE Valid(h)
  <2>1. /\ h \in Handles
        /\ fil' = [fil EXCEPT ![h].state = "none"]
        /\ active' = [active EXCEPT ![h] = FALSE]
    BY <1>2 DEF Close, Valid, FClose
  <2>2. {x \in Handles : active'[x]} = {x \in Handles : active[x]} \ {h}
    BY <2>1 DEF TInv, IInv, TypeOK
  <2>3. ASSUME NEW x \in Handles, active[x], x # h
        PROVE  [file |-> fil'[x].file, pos |-> fil'[x].pos] = Opened[x]
    BY <1>1, <2>1, <2>3, OpenedIs DEF TInv, IInv, TypeOK, FIL
  <2>4. Opened' = [x \in {y \in Handles : active'[y]} |->
                     [file |-> fil'[x].file, pos |-> fil'[x].pos]]
    BY <1>1 DEF Opened
  <2>5. Opened' = [x \in DOMAIN Opened \ {h} |-> Opened[x]]
    BY <2>2, <2>3, <2>4, OpenedIs
  <2>6. args = NIL /\ args' = NIL
    BY <1>1, Between
  <2> QED
    BY <1>1, <2>5, <2>6 DEF Abstract!Close, Abstract!Nothing, Nothing, Opened
<1>3. CASE ~Valid(h)
  <2>1. UNCHANGED <<fil, active>>
    BY <1>3 DEF Close
  <2> QED BY <1>1, <1>3, <2>1, CloseOfNone
<1> QED BY <1>2, <1>3

LEMMA SizeRefines ==
  ASSUME TInv, NEW h \in Passed, Size(h)
  PROVE  Abstract!Size(h)
<1>1. /\ pc = "idle" /\ pc' = "idle" /\ memory' = Nothing
      /\ UNCHANGED <<length, active, fil, args, fault>>
  BY DEF Size, transfer
<1>2. out' \in Nat
  BY SizeIInv DEF TInv, IInv, TypeOK
<1>3. h \in DOMAIN Opened => out' = length[Opened[h].file]
  <2>1. ASSUME h \in DOMAIN Opened
        PROVE  out' = length[Opened[h].file]
    <3>1. h \in Handles /\ active[h] /\ h # NULL
      BY <2>1, OpenedIs DEF Handles, NULL
    <3>2. fil[h].file \in Files /\ fil[h].file # NIL
      BY <3>1, ActiveObject, Bounds DEF TInv, IInv
    <3>3. Opened[h].file = fil[h].file
      BY <3>1, FileOpened
    <3> QED BY <3>1, <3>2, <3>3 DEF Size
  <2> QED BY <2>1
<1>4. Opened' = Opened
  BY <1>1, OpenedStays
<1>5. args = NIL /\ args' = NIL
  BY <1>1, Between
<1> QED
  BY <1>1, <1>2, <1>3, <1>4, <1>5
  DEF Abstract!Size, Abstract!Nothing, Nothing, Opened

\* A position moved between two transfers.
LEMMA MovedIs ==
  ASSUME TInv, NEW h \in Handles, active[h], NEW p, pc' = "idle",
         UNCHANGED active, fil' \in [Handles -> FIL],
         fil'[h].file = fil[h].file, fil'[h].pos = p,
         \A x \in Handles \ {h} : fil'[x] = fil[x],
         pc # "idle" => args.handle = h
  PROVE  Opened' = [x \in DOMAIN Opened |->
                      IF x = h THEN [Opened[h] EXCEPT !.pos = p] ELSE Opened[x]]
<1>1. ASSUME NEW x \in Handles, active[x]
      PROVE  [file |-> fil'[x].file, pos |-> fil'[x].pos]
               = IF x = h THEN [Opened[h] EXCEPT !.pos = p] ELSE Opened[x]
  <2>1. CASE x = h
    <3>1. PICK q : Opened[h] = [file |-> fil[h].file, pos |-> q]
      BY OpenedIs
    <3>2. [Opened[h] EXCEPT !.pos = p] = [file |-> fil[h].file, pos |-> p]
      BY <3>1
    <3> QED BY <2>1, <3>2
  <2>2. CASE x # h
    <3>1. Opened[x] = [file |-> fil[x].file, pos |-> fil[x].pos]
      BY <1>1, <2>2, OpenedIs
    <3> QED BY <2>2, <3>1
  <2> QED BY <2>1, <2>2
<1>2. Opened' = [x \in {y \in Handles : active[y]} |->
                   [file |-> fil'[x].file, pos |-> fil'[x].pos]]
  BY DEF Opened
<1> QED BY <1>1, <1>2, OpenedIs

LEMMA SeekRefines ==
  ASSUME TInv, NEW h \in Passed, NEW offset \in Offsets, Seek(h, offset)
  PROVE  Abstract!Next
<1>1. /\ pc = "idle" /\ pc' = "idle" /\ memory' = Nothing
      /\ UNCHANGED <<length, active, args, out>>
  BY DEF Seek, transfer
<1>2. CASE ~Valid(h)
  <2>1. UNCHANGED <<fil, fault>>
    BY <1>2, ActiveObject
    DEF Seek, FSeek, Valid, Passed, TInv, IInv
  <2>2. Abstract!Close(h)
    BY <1>1, <1>2, <2>1, CloseOfNone
  <2> QED BY <2>2 DEF Abstract!Next, Passed
<1>3. CASE Valid(h)
  <2> DEFINE end == length[fil[h].file]
             goal == Least(offset, end)
  <2>1. h \in Handles /\ active[h] /\ h # NULL
    BY <1>3 DEF Valid, Handles, NULL
  <2>2. /\ fil[h] \in FIL /\ fil[h].state # "none"
        /\ end \in Nat /\ fil[h].pos \in 0..end /\ offset \in Nat
    BY <2>1, ActiveObject, Bounds DEF TInv, IInv
  <2>3. goal \in 0..end
    BY <2>2 DEF Least
  <2>4. PICK p \in 0..end :
          /\ fil'[h].file = fil[h].file /\ fil'[h].pos = p
          /\ \A x \in Handles \ {h} : fil'[x] = fil[x]
          /\ p # goal => fault' = TRUE
    <3>1. FSeek(h, offset)
      BY <2>1 DEF Seek
    <3>2. CASE fil[h].state = "aborted"
      <4>1. UNCHANGED fil /\ fault' = TRUE
        BY <3>1, <3>2 DEF FSeek
      <4> QED BY <2>2, <4>1
    <3>3. CASE fil[h].state = "open"
      <4>1. CASE fil' = [fil EXCEPT ![h].pos = goal]
        BY <2>1, <2>2, <2>3, <4>1 DEF TInv, IInv, TypeOK, FIL
      <4>2. CASE \E p \in 0..goal :
                   /\ fil' = [fil EXCEPT ![h].pos = p, ![h].state = "aborted"]
                   /\ fault' = TRUE
        <5>1. PICK p \in 0..goal :
                /\ fil' = [fil EXCEPT ![h].pos = p, ![h].state = "aborted"]
                /\ fault' = TRUE
          BY <4>2
        <5>2. p \in 0..end
          BY <2>2, <2>3
        <5>3. /\ fil'[h].file = fil[h].file /\ fil'[h].pos = p
              /\ \A x \in Handles \ {h} : fil'[x] = fil[x]
          BY <2>1, <5>1 DEF TInv, IInv, TypeOK, FIL
        <5> QED BY <5>1, <5>2, <5>3
      <4> QED BY <3>1, <3>3, <4>1, <4>2 DEF FSeek
    <3> QED BY <2>2, <3>2, <3>3 DEF FIL
  <2>5. /\ h \in DOMAIN Opened
        /\ length[Opened[h].file] = end
    BY <2>1, OpenedIs, FileOpened
  <2>6. fil' \in [Handles -> FIL] /\ fault' \in BOOLEAN
    BY SeekIInv DEF TInv, IInv, TypeOK
  <2>7. Opened' = Abstract!Moved(h, p)
    BY <1>1, <2>1, <2>4, <2>6, MovedIs DEF Abstract!Moved, Opened
  <2>8. args = NIL /\ args' = NIL
    BY <1>1 DEF TInv, Transferring
  <2>9. Abstract!Seek(h, offset)
    <3>1. p # Abstract!Least(offset, end) => fault' = TRUE
      BY <2>4 DEF Abstract!Least, Least
    <3> HIDE DEF end
    <3> QED
      BY <1>1, <2>4, <2>5, <2>6, <2>7, <2>8, <3>1
      DEF Abstract!Seek, Abstract!Nothing, Nothing, Opened
  <2> QED BY <2>1, <2>9 DEF Abstract!Next
<1> QED BY <1>2, <1>3

LEMMA AskRefines ==
  ASSUME TInv, NEW r \in Requests, Ask(r)
  PROVE  Abstract!Ask(r)
<1>1. /\ pc = "idle" /\ pc' # "idle" /\ args = NIL /\ args' = r
      /\ fault' = FALSE /\ UNCHANGED <<length, active, fil, out>>
      /\ from' = IF r.handle = NULL THEN 0 ELSE fil[r.handle].pos
  BY RequestBounds DEF Ask, TInv, Transferring
<1>2. Opened' = Opened
  BY <1>1 DEF Opened, Handles, NULL
<1> QED
  BY <1>1, <1>2 DEF Abstract!Ask, Abstract!Nothing, Nothing, Opened

\* A chunk is no step of the file service.
LEMMA ChunkStutters ==
  ASSUME TInv, ReadChunk \/ WriteChunk
  PROVE  UNCHANGED Abstract!vars
<1> DEFINE h == args.handle
<1>1. /\ pc # "idle" /\ pc' # "idle"
      /\ UNCHANGED <<length, active, args, from, out>>
  BY DEF ReadChunk, WriteChunk
<1>2. PICK k \in 0..Chunk : FileRead(h, Chunk, k)
  BY DEF ReadChunk, WriteChunk
<1>3. \A x \in Handles : /\ fil'[x].file = fil[x].file
                         /\ x # h => fil'[x].pos = fil[x].pos
  BY <1>2 DEF FileRead, FRead, TInv, IInv, TypeOK, FIL
<1>4. Opened' = Opened
  <2>1. Opened' = [x \in {y \in Handles : active[y]} |->
                     [file |-> fil'[x].file,
                      pos |-> IF x = h THEN from ELSE fil'[x].pos]]
    BY <1>1 DEF Opened
  <2>2. Opened = [x \in {y \in Handles : active[y]} |->
                    [file |-> fil[x].file,
                     pos |-> IF x = h THEN from ELSE fil[x].pos]]
    BY <1>1 DEF Opened
  <2>3. \A x \in Handles :
          [file |-> fil'[x].file, pos |-> IF x = h THEN from ELSE fil'[x].pos]
            = [file |-> fil[x].file, pos |-> IF x = h THEN from ELSE fil[x].pos]
    BY <1>3
  <2> QED BY <2>1, <2>2, <2>3
<1> QED BY <1>1, <1>4 DEF Abstract!vars, Opened

\* What the answer says of the transfer: |total| bytes from where it began.
LEMMA ReplyMoves ==
  ASSUME TInv, Reply, Valid(args.handle)
  PROVE  Opened' = Abstract!Moved(args.handle, fil[args.handle].pos)
<1>1. /\ pc # "idle" /\ pc' = "idle" /\ UNCHANGED <<active, fil>>
  BY DEF Reply
<1> QED
  BY <1>1, MovedIs DEF Abstract!Moved, Opened, Valid, TInv, IInv, TypeOK

LEMMA ReadReplyRefines ==
  ASSUME TInv, Reply, args.op = "read"
  PROVE  total \in 0..args.size /\ Abstract!ReadReturns(total)
<1> DEFINE h == args.handle
<1>1. /\ pc # "idle" /\ pc' = "idle" /\ args' = NIL /\ out' = total
      /\ pc # "reply" => total >= args.size
      /\ UNCHANGED <<length, active, fil, memory, fault>>
  BY DEF Reply
<1>2. /\ args \in Requests /\ args.addr \in Nat /\ args.size \in Nat
      /\ total \in Nat /\ from \in Nat /\ fault \in BOOLEAN
  BY <1>1, RequestBounds, Bounds DEF TInv, IInv, TypeOK
<1>3. /\ total <= args.size
      /\ memory = Brought
      /\ ~Valid(h) => total = 0
      /\ Valid(h) => /\ fil[h].pos = from + total
                     /\ pc = "reply" /\ total < args.size
                          /\ from + total < length[fil[h].file] => fault
  BY <1>1 DEF TInv, Transferring, Reading
<1>4. CASE Valid(h)
  <2>1. /\ h \in DOMAIN Opened
        /\ Opened[h] = [file |-> fil[h].file, pos |-> from]
    BY <1>1, <1>4, OpenedIs DEF Valid
  <2>2. /\ length[fil[h].file] \in Nat
        /\ from + total <= length[fil[h].file]
    BY <1>3, <1>4, ActiveObject DEF Valid, TInv, IInv
  <2>3. Opened' = Abstract!Moved(h, from + total)
    BY <1>3, <1>4, ReplyMoves
  <2> DEFINE left == length[fil[h].file] - from
  <2>4. Abstract!Remaining(h) = left
    BY <2>1 DEF Abstract!Remaining, Opened
  <2>5. Abstract!Least(args.size, left) \in {args.size, left}
    BY DEF Abstract!Least
  <2>6. total <= args.size /\ total <= left
    BY <1>2, <1>3, <2>2
  <2>7. total < args.size /\ total < left => fault
    BY <1>1, <1>2, <1>3, <1>4, <2>2
  <2>8. /\ total <= Abstract!Least(args.size, Abstract!Remaining(h))
        /\ total < Abstract!Least(args.size, Abstract!Remaining(h)) => fault
    <3>1. left \in Int
      BY <1>2, <2>2
    <3> HIDE DEF left
    <3> QED BY <1>2, <2>4, <2>6, <2>7, <3>1 DEF Abstract!Least
  <2>9. memory = Abstract!Bytes(h, args.addr, total)
    BY <1>3, <2>1 DEF Abstract!Bytes, Brought, Opened
  <2> HIDE DEF h
  <2>10. Abstract!ReadReturns(total)
    BY <1>1, <1>2, <2>1, <2>3, <2>8, <2>9 DEF Abstract!ReadReturns, Opened, h
  <2> QED BY <1>2, <1>3, <2>10
<1>5. CASE ~Valid(h)
  <2>1. total = 0 /\ h \notin DOMAIN Opened
    BY <1>3, <1>5, OpenedIs DEF Valid
  <2>2. Opened' = Opened
    BY <1>1, <1>5 DEF Opened, Valid
  <2>3. Abstract!Remaining(h) = 0
    BY <2>1 DEF Abstract!Remaining, Opened
  <2>4. Abstract!Least(args.size, Abstract!Remaining(h)) = 0
    BY <1>2, <2>3 DEF Abstract!Least
  <2>5. memory = Abstract!Bytes(h, args.addr, total)
    <3>1. args.addr..(args.addr + total - 1) = {}
      BY <1>2, <2>1
    <3> QED BY <1>3, <3>1 DEF Abstract!Bytes, Brought
  <2>6. Abstract!ReadReturns(total)
    BY <1>1, <1>2, <2>1, <2>2, <2>4, <2>5 DEF Abstract!ReadReturns, Opened
  <2> QED BY <1>2, <2>1, <2>6
<1> QED BY <1>4, <1>5

LEMMA WriteReplyRefines ==
  ASSUME TInv, Reply, args.op = "write"
  PROVE  Abstract!WriteReturns
<1> DEFINE h == args.handle
<1>1. /\ pc # "idle" /\ pc' = "idle" /\ args' = NIL /\ out' = total
      /\ UNCHANGED <<length, active, fil, memory, fault>>
  BY DEF Reply
<1>2. total \in Nat /\ fault \in BOOLEAN
  BY Bounds DEF TInv, IInv, TypeOK
<1>3. memory = Nothing /\ (Valid(h) => from <= fil[h].pos)
  BY <1>1 DEF TInv, Transferring, Writing
<1>4. h \in DOMAIN Opened <=> Valid(h)
  BY OpenedIs DEF Valid
<1>5. CASE Valid(h)
  <2>1. Opened[h] = [file |-> fil[h].file, pos |-> from]
    BY <1>1, <1>5, OpenedIs DEF Valid
  <2>2. fil[h].pos \in Opened[h].pos..length[Opened[h].file]
    <3>1. fil[h].pos \in 0..length[fil[h].file] /\ from \in Nat
      BY <1>5, ActiveObject DEF Valid, TInv, IInv, TypeOK
    <3> QED BY <1>3, <1>5, <2>1, <3>1
  <2>3. Opened' = Abstract!Moved(h, fil[h].pos)
    BY <1>5, ReplyMoves
  <2> QED
    BY <1>1, <1>2, <1>3, <1>4, <1>5, <2>2, <2>3
    DEF Abstract!WriteReturns, Nothing, Opened
<1>6. CASE ~Valid(h)
  <2>1. Opened' = Opened
    BY <1>1, <1>6 DEF Opened, Valid
  <2> QED
    BY <1>1, <1>2, <1>3, <1>4, <1>6, <2>1
    DEF Abstract!WriteReturns, Nothing, Opened
<1> QED BY <1>5, <1>6

LEMMA NextRefines == TInv /\ [Next]_vars => [Abstract!Next]_(Abstract!vars)
<1> SUFFICES ASSUME TInv, [Next]_vars
             PROVE  Abstract!Next \/ UNCHANGED Abstract!vars
  OBVIOUS
<1>1. CASE \E f \in Files : Open(f)
  BY <1>1, OpenRefines
<1>2. CASE OpenFull \/ OpenFails
  BY <1>2, RefuseRefines
<1>3. ASSUME NEW h \in Passed, Close(h) \/ Size(h)
      PROVE  Abstract!Next
  <2>1. Abstract!Close(h) \/ Abstract!Size(h)
    BY <1>3, CloseRefines, SizeRefines
  <2> QED BY <2>1 DEF Abstract!Next, Passed
<1>4. CASE \E h \in Passed, offset \in Offsets : Seek(h, offset)
  BY <1>4, SeekRefines
<1>5. CASE \E r \in Requests : Ask(r)
  BY <1>5, AskRefines DEF Abstract!Next
<1>6. CASE ReadChunk \/ WriteChunk
  BY <1>6, ChunkStutters
<1>7. CASE Reply
  <2>1. args \in Requests /\ args # NIL
    BY <1>7, NilAssumption DEF Reply, TInv, IInv, TypeOK
  <2>2. CASE args.op = "read"
    <3>1. \E k \in 0..args.size : Abstract!ReadReturns(k)
      <4>1. total \in 0..args.size /\ Abstract!ReadReturns(total)
        BY <1>7, <2>2, ReadReplyRefines
      <4> QED BY <4>1, Zenon DEF Abstract!ReadReturns
    <3> QED BY <2>1, <3>1 DEF Abstract!Next
  <2>3. CASE args.op = "write"
    <3>1. Abstract!WriteReturns
      BY <1>7, <2>3, WriteReplyRefines
    <3> QED BY <2>1, <3>1 DEF Abstract!Next
  <2> QED BY <2>1, <2>2, <2>3, RequestBounds
<1>8. CASE UNCHANGED vars
  BY <1>8 DEF vars, Abstract!vars
<1> QED BY <1>1, <1>2, <1>3, <1>4, <1>5, <1>6, <1>7, <1>8 DEF Next, Loop

\* What a sketch observes of open, close, size, seek, read and write is as if
\* each were one step, in spite of the chunks, of reads that come up short and
\* of handles used after they were closed: a read puts the next bytes of its
\* file, in order and nothing else, where it was told, says how many they are,
\* and delivers less than it was asked for only at the end of the file or when
\* the card has failed.
THEOREM CopyLoopsImplementFileStore == Spec => ImplementsFileStore
<1>1. Init => Abstract!Init
  BY InitRefines
<1>2. Init => TInv
  BY InitIInv DEF Init, TInv, Transferring
<1>3. TInv /\ [Next]_vars => TInv'
  BY NextIInv, NextTransferring DEF TInv
<1>4. TInv /\ [Next]_vars => [Abstract!Next]_(Abstract!vars)
  BY NextRefines
<1> QED
  BY <1>1, <1>2, <1>3, <1>4, PTL DEF Spec, ImplementsFileStore, Abstract!Spec
============================================================================
