----------------------------- MODULE FileStore -----------------------------
(***************************************************************************)
(* What the coprocessor's file service promises a sketch: a handle it is   *)
(* given is its own until it closes it; a read delivers the next bytes of  *)
(* that file, in order and nothing else, says how many they are, and comes *)
(* up short only at the end of the file or when the card fails.            *)
(*                                                                         *)
(* RpcFile.tla shows that firmware/rpc_file.cpp and file.cpp, which copy   *)
(* through a small buffer, implement it.                                   *)
(***************************************************************************)
EXTENDS Integers

CONSTANTS
  Handles,     \* the handles there are
  Files,       \* the files on the card
  Requests,    \* the reads and writes a sketch asks for
  Offsets,     \* the positions it seeks
  NULL,        \* no handle
  NIL          \* no request

VARIABLES
  length,      \* the length of each file
  open,        \* the open handles, with file and position
  request,     \* the read or write in progress
  delivered,   \* what the last request put into memory: address -> byte
  reply,       \* the answer to the last request
  fault        \* the card failed during the last request

vars == <<length, open, request, delivered, reply, fault>>

Nothing == [a \in {} |-> NIL]
Least(m, n) == IF m < n THEN m ELSE n

\* What can still be read from a handle.
Remaining(h) ==
  IF h \in DOMAIN open THEN length[open[h].file] - open[h].pos ELSE 0

\* The next k bytes of a handle, put at address a.
Bytes(h, a, k) ==
  [x \in a..(a + k - 1) |->
     [file |-> open[h].file, pos |-> open[h].pos + (x - a)]]

\* The position of a handle becomes p.
Moved(h, p) ==
  [x \in DOMAIN open |-> IF x = h THEN [open[h] EXCEPT !.pos = p] ELSE open[x]]

Init ==
  /\ length \in [Files -> Nat]
  /\ open = [h \in {} |-> NIL]
  /\ request = NIL
  /\ delivered = Nothing
  /\ reply = NULL
  /\ fault = FALSE

Open(h, f) ==
  /\ request = NIL
  /\ h \notin DOMAIN open
  /\ open' = [x \in DOMAIN open \cup {h} |->
                IF x = h THEN [file |-> f, pos |-> 0] ELSE open[x]]
  /\ reply' = h
  /\ delivered' = Nothing
  /\ UNCHANGED <<length, request, fault>>

Refuse ==
  /\ request = NIL
  /\ reply' = NULL
  /\ delivered' = Nothing
  /\ UNCHANGED <<length, open, request, fault>>

\* A close the card refuses leaves the handle open.
Close(h) ==
  /\ request = NIL
  /\ open' = [x \in DOMAIN open \ {h} |-> open[x]]
  /\ delivered' = Nothing
  /\ UNCHANGED <<length, request, reply, fault>>

\* The size of a file that is not open is anything.
Size(h) ==
  /\ request = NIL
  /\ reply' \in Nat
  /\ h \in DOMAIN open => reply' = length[open[h].file]
  /\ delivered' = Nothing
  /\ UNCHANGED <<length, open, request, fault>>

Seek(h, offset) ==
  /\ request = NIL
  /\ h \in DOMAIN open
  /\ LET end == length[open[h].file]
     IN  \E p \in 0..end :
           /\ open' = Moved(h, p)
           /\ p # Least(offset, end) => fault' = TRUE
  /\ fault' \in BOOLEAN
  /\ delivered' = Nothing
  /\ UNCHANGED <<length, request, reply>>

Ask(r) ==
  /\ request = NIL
  /\ request' = r
  /\ delivered' = Nothing
  /\ fault' = FALSE
  /\ UNCHANGED <<length, open, reply>>

ReadReturns(k) ==
  LET h   == request.handle
      due == Least(request.size, Remaining(h))
  IN  /\ request.op = "read"
      /\ k <= due
      /\ k < due => fault' = TRUE
      /\ fault' \in BOOLEAN
      /\ delivered' = Bytes(h, request.addr, k)
      /\ open' = IF h \in DOMAIN open THEN Moved(h, open[h].pos + k) ELSE open
      /\ reply' = k
      /\ request' = NIL
      /\ UNCHANGED length

\* About a write nothing is promised, except that it harms no other handle
\* and puts nothing into memory.
WriteReturns ==
  /\ request.op = "write"
  /\ LET h == request.handle
     IN  IF h \in DOMAIN open
           THEN \E p \in open[h].pos..length[open[h].file] : open' = Moved(h, p)
           ELSE UNCHANGED open
  /\ reply' \in Nat
  /\ fault' \in BOOLEAN
  /\ request' = NIL
  /\ UNCHANGED <<length, delivered>>

Next ==
  \/ \E h \in Handles, f \in Files : Open(h, f)
  \/ Refuse
  \/ \E h \in Handles \cup {NULL} : Close(h) \/ Size(h)
  \/ \E h \in Handles, p \in Offsets : Seek(h, p)
  \/ \E r \in Requests : Ask(r)
  \/ /\ request # NIL
     /\ (\E k \in 0..request.size : ReadReturns(k)) \/ WriteReturns

Spec == Init /\ [][Next]_vars
============================================================================
