-------------------------------- MODULE Isp --------------------------------
(***************************************************************************)
(* Programming the Arduino's flash from a file on the card:                *)
(* firmware/isp.cpp.                                                       *)
(*                                                                         *)
(* The target (external) is a microcontroller held in reset: a command     *)
(* keeps it busy for some time, an erase sets every bit of its flash, a    *)
(* page write can only clear bits.  A page write may spoil one byte of the *)
(* page.  The card, which shares the SPI bus, may fail in any read.        *)
(*                                                                         *)
(* A byte is represented by one of its bits: erasing, programming and the  *)
(* XOR of the checksum act on each bit by itself.                          *)
(***************************************************************************)
EXTENDS Integers, FiniteSets

CONSTANTS
  PageSize,     \* PROGRAM_MEMORY_PAGE_SIZE
  MemorySize,   \* PROGRAM_MEMORY_SIZE
  Lanes,        \* sizeof(uint32_t), the bytes of a checksum
  MaxFile,      \* bound: the longest file
  MaxFlaws      \* bound: page writes that spoil a byte

\* Bytes are programmed in words of two.
ASSUME IspAssumption ==
  /\ PageSize \in Nat \ {0} /\ PageSize % 2 = 0
  /\ MemorySize \in Nat /\ MemorySize % PageSize = 0
  /\ Lanes \in Nat \ {0}
  /\ MaxFile \in Nat
  /\ MaxFlaws \in Nat

Bit == {0, 1}
UNINITIALIZED == 1      \* UNINITIALIZED_MEMORY_VALUE, 0xff
Cells == 0..(MemorySize - 1)
InPage == 0..(PageSize - 1)

VARIABLES
  size,         \* |data_size|: the length of the file
  data,         \* the file
  expected,     \* the target has EXPECTED_DEVICE_ID and answers
  flash,        \* the target's program memory
  busy,         \* the target works on an erase or a page write
  reset,        \* the reset line is pulled
  selected,     \* the target is selected on the SPI bus, at its slow clock
  pc,           \* where isp_program is; "idle" outside
  offset,       \* |offset|
  buf,          \* |file_buf|
  count,        \* |size_read|
  checksum,     \* |checksum|
  result,       \* what isp_program returned; "none" until it does
  flaws         \* bounded by MaxFlaws

target == <<expected, flash, busy>>
lines == <<reset, selected>>
vars == <<size, data, target, lines, pc, offset, buf, count, checksum, result,
          flaws>>

Steps == {"id", "erase", "poll_erase", "page", "read", "program", "poll_write",
          "verify"}
Results == {"SUCCESS", "ID_MISMATCH", "FILE_READ_ERROR", "WRITE_VERIFY_ERROR"}
Checksums == [0..(Lanes - 1) -> Bit]

TypeOK ==
  /\ size \in 0..MaxFile
  /\ data \in [0..(size - 1) -> Bit]
  /\ expected \in BOOLEAN
  /\ flash \in [Cells -> Bit]
  /\ busy \in BOOLEAN
  /\ reset \in BOOLEAN
  /\ selected \in BOOLEAN
  /\ pc \in Steps \cup {"idle"}
  /\ offset \in Nat /\ offset % PageSize = 0
  /\ buf \in [InPage -> Bit]
  /\ count \in 0..PageSize
  /\ checksum \in Checksums
  /\ result \in Results \cup {"none"}
  /\ flaws \in 0..MaxFlaws

\* isp_init has run; the flash holds some program, here one of equal bits; the
\* buffer is what was on the stack, here one of equal bits.
Init ==
  /\ size \in 0..MaxFile
  /\ data \in [0..(size - 1) -> Bit]
  /\ expected \in BOOLEAN
  /\ \E b \in Bit : flash = [a \in Cells |-> b]
  /\ busy = FALSE
  /\ reset = FALSE
  /\ selected = FALSE
  /\ pc = "idle"
  /\ offset = 0
  /\ \E b \in Bit : buf = [x \in InPage |-> b]
  /\ count = 0
  /\ checksum = [l \in 0..(Lanes - 1) |-> 0]
  /\ result = "none"
  /\ flaws = 0

----------------------------------------------------------------------------
(* Helpers.                                                                *)

Least(m, n) == IF m < n THEN m ELSE n

\* A checksum that leaves the remainder out.
ChecksumWords(b, n) ==
  [l \in 0..(Lanes - 1) |->
     Cardinality({x \in 0..(n - 1) :
                    x < n - (n % Lanes) /\ x % Lanes = l /\ b[x] = 1}) % 2]

\* get_checksum: the XOR of the words, the last one padded with zeros.
Checksum(b, n) ==
  [l \in 0..(Lanes - 1) |->
     Cardinality({x \in 0..(n - 1) : x % Lanes = l /\ b[x] = 1}) % 2]

\* The bytes the page buffer of the target is loaded with: words, so an odd
\* last byte is followed by whatever comes next in the buffer.
Loaded == 0..(count + (count % 2) - 1)

\* The target writes the page; bits are only cleared.
PageWritten(b) ==
  [a \in Cells |->
     IF a - offset \in Loaded /\ b[a - offset] = 0 THEN 0 ELSE flash[a]]

\* isp_program returns; the lines are as isp_init left them.
Returns(r) ==
  /\ result' = r
  /\ pc' = "idle"
  /\ reset' = FALSE
  /\ selected' = FALSE

----------------------------------------------------------------------------
(* isp_program.                                                            *)

\* isp_select and isp_enable, whose result is ignored.
Start ==
  /\ pc = "idle"
  /\ result' = "none"
  /\ offset' = 0
  /\ selected' = TRUE
  /\ reset' = TRUE
  /\ pc' = "id"
  /\ UNCHANGED <<size, data, target, buf, count, checksum, flaws>>

\* Programming whatever answers.
CheckIdBlind ==
  /\ pc = "id"
  /\ pc' = "erase"
  /\ UNCHANGED <<lines, result>>
  /\ UNCHANGED <<size, data, target, offset, buf, count, checksum, flaws>>

CheckId ==
  /\ pc = "id"
  /\ IF expected
       THEN pc' = "erase" /\ UNCHANGED <<lines, result>>
       ELSE Returns("ID_MISMATCH")
  /\ UNCHANGED <<size, data, target, offset, buf, count, checksum, flaws>>

ChipErase ==
  /\ pc = "erase"
  /\ flash' = [a \in Cells |-> UNINITIALIZED]
  /\ busy' = TRUE
  /\ pc' = "poll_erase"
  /\ UNCHANGED <<size, data, expected, lines, offset, buf, count, checksum,
                 result, flaws>>

PollErase ==
  /\ pc = "poll_erase"
  /\ ~busy
  /\ pc' = "page"
  /\ UNCHANGED <<size, data, target, lines, offset, buf, count, checksum,
                 result, flaws>>

\* A page loop that leaves the target selected while it reads the card.
NextPageSelected ==
  /\ pc = "page"
  /\ IF offset < size /\ offset < MemorySize
       THEN pc' = "read" /\ UNCHANGED <<reset, selected, result>>
       ELSE Returns("SUCCESS")
  /\ UNCHANGED <<size, data, target, offset, buf, count, checksum, flaws>>

\* The head of the page loop: the bus is given to the card.
NextPage ==
  /\ pc = "page"
  /\ IF offset < size /\ offset < MemorySize
       THEN pc' = "read" /\ selected' = FALSE /\ UNCHANGED <<reset, result>>
       ELSE Returns("SUCCESS")
  /\ UNCHANGED <<size, data, target, offset, buf, count, checksum, flaws>>

\* file_read of a page brings k bytes: fewer than there are if the card fails.
ReadPage ==
  /\ pc = "read"
  /\ \E k \in 0..Least(PageSize, size - offset) :
       /\ buf' = [x \in InPage |-> IF x < k THEN data[offset + x] ELSE buf[x]]
       /\ count' = k
       /\ IF k < PageSize /\ k # size - offset
            THEN Returns("FILE_READ_ERROR")
            ELSE /\ selected' = TRUE
                 /\ pc' = "program"
                 /\ UNCHANGED <<reset, result>>
  /\ UNCHANGED <<size, data, target, offset, checksum, flaws>>

\* Skipping an empty page without moving on.
SkipEmptyStays ==
  /\ pc = "program"
  /\ \A x \in 0..(count - 1) : buf[x] = UNINITIALIZED
  /\ pc' = "page"
  /\ UNCHANGED <<size, data, target, lines, offset, buf, count, checksum,
                 result, flaws>>

\* An empty page is already what it should be.
SkipEmpty ==
  /\ pc = "program"
  /\ \A x \in 0..(count - 1) : buf[x] = UNINITIALIZED
  /\ pc' = "page"
  /\ offset' = offset + PageSize
  /\ UNCHANGED <<size, data, target, lines, buf, count, checksum, result, flaws>>

\* write_program_memory_page.  A page whose represented bits are all set may
\* have others that are not.
WritePage ==
  /\ pc = "program"
  /\ checksum' = Checksum(buf, count)
  /\ \/ flash' = PageWritten(buf) /\ UNCHANGED flaws
     \/ /\ flaws < MaxFlaws
        /\ flaws' = flaws + 1
        /\ \E x \in 0..(count - 1) :
             flash' = [PageWritten(buf) EXCEPT ![offset + x] = 1 - @]
  /\ busy' = TRUE
  /\ pc' = "poll_write"
  /\ UNCHANGED <<size, data, expected, lines, offset, buf, count, result>>

\* A writer that does not wait for the page.
PollWriteNoWait ==
  /\ pc = "poll_write"
  /\ pc' = "verify"
  /\ UNCHANGED <<size, data, target, lines, offset, buf, count, checksum,
                 result, flaws>>

PollWrite ==
  /\ pc = "poll_write"
  /\ ~busy
  /\ pc' = "verify"
  /\ UNCHANGED <<size, data, target, lines, offset, buf, count, checksum,
                 result, flaws>>

\* Going on behind the bytes of the page instead of at the next page.
VerifyByCount ==
  /\ pc = "verify"
  /\ buf' = [x \in InPage |-> IF x < count THEN flash[offset + x] ELSE buf[x]]
  /\ IF Checksum(buf', count) = checksum
       THEN /\ pc' = "page"
            /\ offset' = offset + count
            /\ UNCHANGED <<lines, result>>
       ELSE Returns("WRITE_VERIFY_ERROR") /\ UNCHANGED offset
  /\ UNCHANGED <<size, data, target, count, checksum, flaws>>

\* The page is read back into the buffer and its checksum compared.
Verify ==
  /\ pc = "verify"
  /\ buf' = [x \in InPage |-> IF x < count THEN flash[offset + x] ELSE buf[x]]
  /\ IF Checksum(buf', count) = checksum
       THEN /\ pc' = "page"
            /\ offset' = offset + PageSize
            /\ UNCHANGED <<lines, result>>
       ELSE Returns("WRITE_VERIFY_ERROR") /\ UNCHANGED offset
  /\ UNCHANGED <<size, data, target, count, checksum, flaws>>

\* The target is done (external).
TargetReady ==
  /\ busy
  /\ busy' = FALSE
  /\ UNCHANGED <<size, data, expected, flash, lines, pc, offset, buf, count,
                 checksum, result, flaws>>

----------------------------------------------------------------------------
Program ==
  \/ CheckId \/ ChipErase \/ PollErase \/ NextPage \/ ReadPage
  \/ SkipEmpty \/ WritePage \/ PollWrite \/ Verify

Next == Start \/ Program \/ TargetReady

Spec == Init /\ [][Next]_vars

\* The coprocessor keeps running, and a target that was programmed is done at
\* some time: isp_program has no timeout of its own.
FairSpec == Spec /\ WF_vars(Program) /\ WF_vars(TargetReady)

----------------------------------------------------------------------------
(* Properties.                                                             *)

\* Card and target take turns on the SPI bus, and the Arduino is in reset from
\* the first command to the last, on every way out as well.
BusShared ==
  /\ reset <=> pc # "idle"
  /\ selected <=> pc \notin {"idle", "read"}

\* What success means: the flash holds the file, as much of it as fits, and
\* the pages behind it are empty.  This is so although pages are verified by
\* a checksum only, a flawed write spoils a byte, and the card may fail.
Holds(a) == flash[a] = data[a]
Empty(a) == flash[a] = UNINITIALIZED

Programmed ==
  result = "SUCCESS" =>
    \A a \in Cells : /\ a < size => Holds(a)
                     /\ a > size => Empty(a)
                     /\ a = size /\ size % 2 = 0 => Empty(a)

\* The target is given no command, and not read, while it is busy: it would
\* ignore the one and answer the other with anything.
NotWhileBusy == busy => pc \in {"poll_erase", "poll_write"}

\* A target that does not answer with the right signature is left as it is.
WrongDeviceUntouched == [][flash' # flash => expected]_vars

\* isp_program returns.
ProgramReturns == pc # "idle" ~> pc = "idle"
============================================================================
