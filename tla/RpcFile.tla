------------------------------ MODULE RpcFile ------------------------------
(***************************************************************************)
(* The file service of the coprocessor: firmware/rpc_file.cpp, which       *)
(* copies between files and shared memory through a small buffer, and      *)
(* firmware/file.cpp, which keeps a table of file handles.                 *)
(*                                                                         *)
(* FatFs (vendored) and the SD card are modelled by what these two use of  *)
(* them.  The card can fail in any transfer (the driver, mmc.cpp, has no   *)
(* card detect: a card that was pulled is one that fails from then on).    *)
(*                                                                         *)
(* Files are opened for reading, the only mode DuinoCube/file.h defines.   *)
(* A byte is represented by the file and position it comes from.           *)
(***************************************************************************)
EXTENDS Integers

CONSTANTS
  NumHandles,   \* MAX_NUM_FILE_HANDLES
  BufferSize,   \* FILE_BUFFER_SIZE
  Word,         \* 2^16, the range of uint16_t
  Files,        \* the files on the card
  Lengths,      \* bound: the lengths they may have
  Offsets,      \* bound: the positions sketches seek
  Sizes,        \* bound: the sizes they read and write
  Addrs,        \* bound: the shared memory addresses of their buffers
  NIL           \* no file, no request

\* Requests lie in the address space, as those of a sketch do that passes the
\* size of its own buffer.
ASSUME RpcFileAssumption ==
  /\ NumHandles \in Nat \ {0}
  /\ BufferSize \in Nat \ {0}
  /\ Word \in Nat \ {0}
  /\ Lengths \subseteq Nat
  /\ Offsets \subseteq Nat
  /\ Sizes \subseteq 0..(Word - 1)
  /\ Addrs \subseteq Nat
  /\ \A a \in Addrs, n \in Sizes : a + n <= Word
  /\ NIL \notin Files

NULL == 0
Handles == 1..NumHandles      \* the address of a FIL stands for its index

\* What a sketch passes for a handle: one it was given, now or earlier, or
\* the NULL of a failed open.
Passed == Handles \cup {NULL}

\* Arguments of File::read (also through readToCore) and File::write.
Requests == [op : {"read", "write"}, handle : Passed, addr : Addrs, size : Sizes]

ASSUME NilAssumption == NIL \notin Requests

VARIABLES
  length,       \* the lengths of the files
  active,       \* file_handle_active
  fil,          \* file_handles
  pc,           \* "idle", or the loop that runs: "read", "write"; "reply" behind it
  args,         \* args.in of that request
  total,        \* |total_size_read|, |total_size_written|
  from,         \* history: the position of its file when it began
  memory,       \* history: what the last request put into shared memory
  out,          \* the answer to the last request
  fault,        \* history: the card failed during the last request
  held          \* history: the handles sketches were given and have not closed

vars == <<length, active, fil, pc, args, total, from, memory, out, fault, held>>

FIL == [state : {"none", "open", "aborted"},
        file : Files \cup {NIL}, pos : Nat]

Nothing == [a \in {} |-> NIL]
Least(m, n) == IF m < n THEN m ELSE n

TypeOK ==
  /\ length \in [Files -> Lengths]
  /\ active \in [Handles -> BOOLEAN]
  /\ fil \in [Handles -> FIL]
  /\ pc \in {"idle", "read", "write", "reply"}
  /\ args \in Requests \cup {NIL}
  /\ pc # "idle" => args \in Requests
  /\ total \in 0..(Word - 1)
  /\ from \in Nat
  /\ out \in Nat
  /\ fault \in BOOLEAN
  /\ held \in SUBSET Handles

Init ==
  /\ length \in [Files -> Lengths]
  /\ active = [h \in Handles |-> FALSE]
  /\ fil = [h \in Handles |-> [state |-> "none", file |-> NIL, pos |-> 0]]
  /\ pc = "idle"
  /\ args = NIL
  /\ total = 0
  /\ from = 0
  /\ memory = Nothing
  /\ out = NULL
  /\ fault = FALSE
  /\ held = {}

----------------------------------------------------------------------------
(* FatFs and the card.                                                     *)

Remaining(h) == length[fil[h].file] - fil[h].pos

\* f_read of n bytes brings k.  It comes up short at the end of the file, and
\* when the card fails on the way: then the object is aborted, and brings
\* nothing more.
FRead(h, n, k) ==
  IF fil[h].state = "open"
    THEN LET due == Least(n, Remaining(h))
         IN  /\ k <= due
             /\ fil' = [fil EXCEPT ![h].pos = @ + k,
                                   ![h].state = IF k < due THEN "aborted" ELSE @]
             /\ fault' = (fault \/ k < due)
    ELSE /\ k = 0
         /\ fault' = TRUE
         /\ UNCHANGED fil

\* f_close discards the object; one that was not written to needs no card.
FClose(h) == fil' = [fil EXCEPT ![h].state = "none"]

\* f_lseek stops at the end of a file open for reading; an error on the way
\* aborts the object.  It refuses an object that is not open.
FSeek(h, offset) ==
  LET goal == Least(offset, length[fil[h].file])
  IN  CASE fil[h].state = "none" -> UNCHANGED <<fil, fault>>
        [] fil[h].state = "aborted" -> UNCHANGED fil /\ fault' = TRUE
        [] fil[h].state = "open" ->
             \/ /\ fil' = [fil EXCEPT ![h].pos = goal]
                /\ fault' = FALSE
             \/ \E p \in 0..goal :
                  /\ fil' = [fil EXCEPT ![h].pos = p, ![h].state = "aborted"]
                  /\ fault' = TRUE

----------------------------------------------------------------------------
(* Opening and closing.                                                    *)

\* get_handle_index finds an active handle.
Valid(h) == h \in Handles /\ active[h]

FirstFree(h) == ~active[h] /\ \A x \in 1..(h - 1) : active[x]

transfer == <<pc, args, total, from>>

OpenFull ==
  /\ pc = "idle"
  /\ \A h \in Handles : active[h]
  /\ out' = NULL
  /\ memory' = Nothing
  /\ UNCHANGED <<length, active, fil, transfer, fault, held>>

\* f_open succeeds.
Open(f) ==
  /\ pc = "idle"
  /\ \E h \in Handles :
       /\ FirstFree(h)
       /\ fil' = [fil EXCEPT ![h] = [state |-> "open", file |-> f, pos |-> 0]]
       /\ active' = [active EXCEPT ![h] = TRUE]
       /\ held' = held \cup {h}
       /\ out' = h
  /\ memory' = Nothing
  /\ UNCHANGED <<length, transfer, fault>>

\* A handle that is marked active before f_open has succeeded.
OpenFailsActive ==
  /\ pc = "idle"
  /\ \E h \in Handles : FirstFree(h) /\ active' = [active EXCEPT ![h] = TRUE]
  /\ out' = NULL
  /\ memory' = Nothing
  /\ UNCHANGED <<length, fil, transfer, fault, held>>

\* f_open fails: no such file, a card error, no card.  It has cleared the
\* object, which was not in use.
OpenFails ==
  /\ pc = "idle"
  /\ \E h \in Handles :
       FirstFree(h) /\ fil' = [fil EXCEPT ![h].state = "none"]
  /\ out' = NULL
  /\ memory' = Nothing
  /\ UNCHANGED <<length, active, transfer, fault, held>>

Close(h) ==
  /\ pc = "idle"
  /\ IF Valid(h)
       THEN FClose(h) /\ active' = [active EXCEPT ![h] = FALSE]
       ELSE UNCHANGED <<fil, active>>
  /\ held' = held \ {h}
  /\ memory' = Nothing
  /\ UNCHANGED <<length, transfer, out, fault>>

----------------------------------------------------------------------------
(* Size and position: the handle is not checked.                           *)

\* f_size of an object that was closed still is the size of its last file;
\* that of NULL is whatever the registers hold.
Size(h) ==
  /\ pc = "idle"
  /\ IF h = NULL THEN out' \in Lengths
     ELSE out' = IF fil[h].file = NIL THEN 0 ELSE length[fil[h].file]
  /\ memory' = Nothing
  /\ UNCHANGED <<length, active, fil, transfer, fault, held>>

Seek(h, offset) ==
  /\ pc = "idle"
  /\ IF h # NULL THEN FSeek(h, offset) ELSE UNCHANGED <<fil, fault>>
  /\ memory' = Nothing
  /\ UNCHANGED <<length, active, transfer, out, held>>

----------------------------------------------------------------------------
(* Reading and writing.                                                    *)

Ask(r) ==
  /\ pc = "idle"
  /\ pc' = r.op
  /\ args' = r
  /\ total' = 0
  /\ from' = IF r.handle = NULL THEN 0 ELSE fil[r.handle].pos
  /\ memory' = Nothing
  /\ fault' = FALSE
  /\ UNCHANGED <<length, active, fil, out, held>>

\* file_read: nothing from a handle that is not active.
FileRead(h, n, k) ==
  IF Valid(h) THEN FRead(h, n, k)
              ELSE k = 0 /\ UNCHANGED <<fil, fault>>

Chunk == Least(args.size - total, BufferSize)

\* The k bytes a chunk brought, written where the chunk belongs.
Written(k) ==
  LET at == args.addr + total
  IN  [a \in DOMAIN memory \cup at..(at + k - 1) |->
         IF a \in at..(at + k - 1)
           THEN [file |-> fil[args.handle].file,
                 pos |-> fil[args.handle].pos + (a - at)]
           ELSE memory[a]]

\* A read loop that only stops at a chunk that comes up short.
ReadChunkShortOnly ==
  /\ pc = "read" /\ total < args.size
  /\ \E k \in 0..Chunk :
       /\ FileRead(args.handle, Chunk, k)
       /\ memory' = Written(k)
       /\ IF k # Chunk
            THEN pc' = "reply" /\ total' = (total + k) % Word
            ELSE total' = (total + BufferSize) % Word /\ UNCHANGED pc
  /\ UNCHANGED <<length, active, args, from, out, held>>

ReadChunk ==
  /\ pc = "read" /\ total < args.size
  /\ \E k \in 0..Chunk :
       /\ FileRead(args.handle, Chunk, k)
       /\ memory' = Written(k)
       /\ IF k # Chunk \/ k < BufferSize
            THEN pc' = "reply" /\ total' = (total + k) % Word
            ELSE total' = (total + BufferSize) % Word /\ UNCHANGED pc
  /\ UNCHANGED <<length, active, args, from, out, held>>

\* A count that is not a 16-bit word.
WriteChunkWide ==
  /\ pc = "write" /\ total < args.size
  /\ \E k \in 0..Chunk :
       /\ FileRead(args.handle, Chunk, k)
       /\ IF k # Chunk THEN pc' = "reply" /\ total' = total + k
                       ELSE total' = total + BufferSize /\ UNCHANGED pc
  /\ UNCHANGED <<length, active, args, from, memory, out, held>>

\* A write loop that ignores how much was written.
WriteChunkBlind ==
  /\ pc = "write" /\ total < args.size
  /\ \E k \in 0..Chunk : FileRead(args.handle, Chunk, k)
  /\ total' = (total + BufferSize) % Word
  /\ UNCHANGED <<length, active, pc, args, from, memory, out, held>>

\* The chunk is fetched from shared memory, and then read over from the file:
\* the code calls file_read.  The count moves by the whole buffer, also for a
\* last chunk that is smaller.
WriteChunk ==
  /\ pc = "write" /\ total < args.size
  /\ \E k \in 0..Chunk :
       /\ FileRead(args.handle, Chunk, k)
       /\ IF k # Chunk THEN pc' = "reply" /\ total' = (total + k) % Word
                       ELSE total' = (total + BufferSize) % Word /\ UNCHANGED pc
  /\ UNCHANGED <<length, active, args, from, memory, out, held>>

\* The loop is over: the count is the answer.
Reply ==
  /\ pc = "reply" \/ (pc \in {"read", "write"} /\ total >= args.size)
  /\ out' = total
  /\ pc' = "idle" /\ args' = NIL /\ total' = 0 /\ from' = 0
  /\ UNCHANGED <<length, active, fil, memory, fault, held>>

----------------------------------------------------------------------------
Loop == ReadChunk \/ WriteChunk \/ Reply

Next ==
  \/ \E f \in Files : Open(f)
  \/ OpenFull \/ OpenFails
  \/ \E h \in Passed : Close(h) \/ Size(h)
  \/ \E h \in Passed, offset \in Offsets : Seek(h, offset)
  \/ \E r \in Requests : Ask(r)
  \/ Loop

Spec == Init /\ [][Next]_vars

\* The coprocessor keeps running: a loop that was entered goes on.
FairSpec == Spec /\ WF_vars(Loop)

----------------------------------------------------------------------------
(* Properties.                                                             *)

\* The table of active handles and FatFs agree on which files are open, and
\* no position is past the end of its file.
TableAgrees ==
  \A h \in Handles :
    /\ active[h] <=> fil[h].state # "none"
    /\ active[h] => /\ fil[h].file \in Files
                    /\ fil[h].pos <= length[fil[h].file]

\* No handle is lost: the active ones are those that sketches were given and
\* have not closed.
NoneLost == \A h \in Handles : active[h] <=> h \in held

HandleInv == TableAgrees /\ NoneLost

\* The copy loops implement the file service: what a sketch observes of open,
\* close, size, seek, read and write is as if each were one step, in spite of
\* chunks, short reads and handles used after they were closed.
Abstract == INSTANCE FileStore WITH
  open <- [h \in {x \in Handles : active[x]} |->
             [file |-> fil[h].file,
              pos |-> IF pc # "idle" /\ h = args.handle THEN from
                      ELSE fil[h].pos]],
  request <- args,
  delivered <- IF pc = "idle" THEN memory ELSE Nothing,
  reply <- out,
  fault <- IF pc = "idle" THEN fault ELSE FALSE

ImplementsFileStore == Abstract!Spec

\* A transfer comes to its end, whatever its size and however the card fails.
TransfersEnd == pc # "idle" ~> pc = "idle"

\* What RPC_FileWriteArgs says of size_written: the number of bytes written,
\* never more than there were to write.
WriteBounded ==
  [][pc # "idle" /\ pc' = "idle" /\ args.op = "write"
       => out' <= args.size]_vars
============================================================================
