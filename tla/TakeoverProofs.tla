--------------------------- MODULE TakeoverProofs ---------------------------
(***************************************************************************)
(* The two ways the coprocessor takes the Arduino over.  The boot menu     *)
(* keeps it in reset, its cursor on the list and its files closed, whatever*)
(* the player, the card and the sketch do; isp_program writes its memory,  *)
(* of any size, from files of any length: who has the bus, the reset line  *)
(* and the target's attention.                                             *)
(***************************************************************************)
EXTENDS Boot, Isp, FiniteSetTheorems, TLAPS

----------------------------------------------------------------------------
(* The boot menu.                                                          *)

(***************************************************************************)
(* What the properties rest on, beyond what they say themselves.           *)
(***************************************************************************)

\* The states in which run_file_operation is active.
Listing == {"files", "confirm", "open", "isp", "reset", "close"}

\* A file is open only while it is programmed.
OpenWhileProgramming == open => place \in {"isp", "reset", "close"}

\* Outside of run_file_operation its variables are as it starts.
NoList == place \notin Listing => num_files = 0 /\ file_index = 0

\* Once the reader awaits a press, the pad has been released.
Released == phase = "press" \/ pad = "none" => fresh

BootInv ==
  /\ BootTypeOK
  /\ HoldsArduino
  /\ OpenWhileProgramming
  /\ NoList
  /\ OnList
  /\ Released

(***************************************************************************)
(* The cursor.                                                             *)
(***************************************************************************)

LEMMA SmallRemainder ==
  ASSUME NEW x \in 0..(Byte - 1)
  PROVE  x % Byte = x
BY BootAssumption

LEMMA RemainderIsByte ==
  ASSUME NEW x \in Int
  PROVE  x % Byte \in 0..(Byte - 1)
BY BootAssumption

\* On a list with lines, of either menu, the cursor stays on the list.
LEMMA MovedOnList ==
  ASSUME NEW n \in 1..Byte, NEW i \in 0..(n - 1)
  PROVE  Moved(i, n) \in 0..(n - 1)
<1>0. Byte \in Nat
  BY BootAssumption
<1>1. i # 0 => (i - 1) % Byte = i - 1
  BY <1>0, SmallRemainder
<1>2. (n - 1) % Byte = n - 1
  BY <1>0, SmallRemainder
<1>3. i # n - 1 => (i + 1) % Byte = i + 1
  BY <1>0, SmallRemainder
<1>4. Up(i, n) \in 0..(n - 1)
  <2>1. CASE i = 0  BY <2>1, <1>2 DEF Up
  <2>2. CASE i # 0  BY <2>2, <1>1 DEF Up
  <2> QED  BY <2>1, <2>2
<1>5. Down(i, n) \in 0..(n - 1)
  <2>1. CASE i = n - 1  BY <2>1 DEF Down
  <2>2. CASE i # n - 1  BY <2>2, <1>3 DEF Down
  <2> QED  BY <2>1, <2>2
<1> QED  BY <1>4, <1>5 DEF Moved

\* With nothing on it, its number is still a byte.
LEMMA MovedIsByte ==
  ASSUME NEW n \in 0..MaxFiles, NEW i \in 0..(Byte - 1)
  PROVE  Moved(i, n) \in 0..(Byte - 1)
<1>0. Byte \in Nat /\ Byte > 0 /\ n \in Nat
  BY BootAssumption
<1>1. Up(i, n) \in 0..(Byte - 1)
  BY <1>0, RemainderIsByte DEF Up
<1>2. Down(i, n) \in 0..(Byte - 1)
  <2>1. CASE i = n - 1  BY <1>0, <2>1 DEF Down
  <2>2. CASE i # n - 1  BY <1>0, <2>2, RemainderIsByte DEF Down
  <2> QED  BY <2>1, <2>2
<1> QED  BY <1>1, <1>2 DEF Moved

(***************************************************************************)
(* The invariant.                                                          *)
(***************************************************************************)

LEMMA Bounds ==
  /\ 0 \in 0..MaxFiles
  /\ 0 \in 0..(Byte - 1)
  /\ -1 \in -1..(Byte - 1)
  /\ 0 \in 0..MaxResets
  /\ 1 \in 1..4
BY BootAssumption

LEMMA BootInitInv == BootInit => BootInv
<1> SUFFICES ASSUME BootInit PROVE BootInv
  OBVIOUS
<1>1. fresh \in BOOLEAN /\ (pad = "none" => fresh)
  BY Zenon DEF BootInit
<1>2. BootTypeOK
  BY <1>1, Bounds, BootAssumption DEF BootInit, BootTypeOK, Menu, Readers, Pads, Inputs
<1>3. HoldsArduino /\ OpenWhileProgramming /\ NoList /\ OnList /\ Released
  BY <1>1 DEF BootInit, HoldsArduino, OpenWhileProgramming, NoList, OnList,
              Released, Menu, Readers, Listing
<1> QED  BY <1>2, <1>3 DEF BootInv

\* One step per action of BootNext.
LEMMA BootNextInv == BootInv /\ [BootNext]_bootVars => BootInv'
<1> SUFFICES ASSUME BootInv, [BootNext]_bootVars PROVE BootInv'
  OBVIOUS
<1> USE BootAssumption, Bounds
    DEF BootInv, BootTypeOK, HoldsArduino, OpenWhileProgramming, NoList, OnList,
            Released, Menu, Readers, Listing, Pads, Inputs, filevars, padvars
<1>1. CASE Main
  BY <1>1 DEF Main
<1>2. CASE LoadBackground
  BY <1>2 DEF LoadBackground, ReadAt
<1>3. CASE AwaitRelease
  BY <1>3 DEF AwaitRelease
<1>4. CASE AwaitPress
  BY <1>4 DEF AwaitPress
<1>5. CASE MenuMove
  <2>1. Moved(option - 1, 4) \in 0..3
    BY MovedOnList
  <2> QED  BY <1>5, <2>1 DEF MenuMove, InMenu, ReadAt
<1>6. CASE MenuIgnore
  BY <1>6 DEF MenuIgnore, InMenu, ReadAt
<1>7. CASE MenuRun
  BY <1>7 DEF MenuRun, InMenu
<1>8. CASE MenuFiles
  BY <1>8 DEF MenuFiles, InMenu, ReadAt
<1>9. CASE Release
  BY <1>9 DEF Release
<1>10. CASE ClearDisplay
  BY <1>10 DEF ClearDisplay
<1>11. CASE FilesMove
  <2>1. file_index' \in 0..(Byte - 1)
    BY <1>11, MovedIsByte DEF FilesMove
  <2>2. OnList'
    BY <1>11, MovedOnList DEF FilesMove
  <2> QED  BY <1>11, <2>1, <2>2 DEF FilesMove, InFiles, ReadAt
<1>12. CASE FilesAsk
  BY <1>12 DEF FilesAsk, InFiles, ReadAt
<1>13. CASE FilesCancel
  BY <1>13 DEF FilesCancel, InFiles, BackToMenu, ReadAt
<1>14. CASE FilesIgnore
  BY <1>14 DEF FilesIgnore, InFiles, ReadAt
<1>15. CASE Refuse
  BY <1>15 DEF Refuse, InConfirm, BackToMenu, ReadAt
<1>16. CASE Confirm
  BY <1>16 DEF Confirm, InConfirm, BackToMenu, ReadAt
<1>17. CASE FileOpen
  <2>1. CASE BackToMenu /\ UNCHANGED open
    BY <1>17, <2>1 DEF FileOpen, BackToMenu, ReadAt
  <2>2. CASE place' = "isp" /\ open' = TRUE /\ UNCHANGED <<phase, filevars>>
    BY <1>17, <2>2 DEF FileOpen
  <2> QED  BY <1>17, <2>1, <2>2 DEF FileOpen
<1>18. CASE IspProgram
  BY <1>18 DEF IspProgram
<1>19. CASE IspReset
  BY <1>19 DEF IspReset
<1>20. CASE FileClose
  BY <1>20 DEF FileClose, BackToMenu, ReadAt
<1>21. CASE ArduinoBegin
  <2>1. BootTypeOK'
    BY <1>21 DEF ArduinoBegin
  <2>2. (HoldsArduino /\ OpenWhileProgramming /\ NoList /\ OnList /\ Released)'
    BY <1>21 DEF ArduinoBegin
  <2> QED  BY <2>1, <2>2
<1>22. CASE ArduinoReset
  BY <1>22 DEF ArduinoReset
<1>23. CASE Play
  <2>1. fresh' \in BOOLEAN /\ (fresh \/ pad' = "none" => fresh')
    BY <1>23, Zenon DEF Play
  <2>2. pad' \in Pads
    BY <1>23 DEF Play
  <2>3. UNCHANGED <<bootSwitch, arduino, place, phase, input, option, num_files,
                    file_index, file_selected, done, picked, open, resets>>
    BY <1>23 DEF Play
  <2> QED  BY <2>1, <2>2, <2>3
<1>24. CASE FlipSwitch
  BY <1>24 DEF FlipSwitch
<1>25. CASE UNCHANGED bootVars
  BY <1>25 DEF bootVars
<1> QED
  BY <1>1, <1>2, <1>3, <1>4, <1>5, <1>6, <1>7, <1>8, <1>9, <1>10, <1>11,
     <1>12, <1>13, <1>14, <1>15, <1>16, <1>17, <1>18, <1>19, <1>20, <1>21,
     <1>22, <1>23, <1>24, <1>25
  DEF BootNext, Coprocessor

LEMMA BootInvariant == BootSpec => []BootInv
<1> QED  BY BootInitInv, BootNextInv, PTL DEF BootSpec

(***************************************************************************)
(* Theorems.                                                               *)
(***************************************************************************)

\* For directories of any size and any number of resets: in the menu the
\* Arduino is in reset, files are closed, and the cursor is on the list
\* (firmware/boot.cpp, boot_run and run_file_operation).
THEOREM MenuIsSafe == BootSpec => [](BootTypeOK /\ HoldsArduino /\ FileClosed /\ OnList)
<1>1. BootInv => BootTypeOK /\ HoldsArduino /\ FileClosed /\ OnList
  BY DEF BootInv, FileClosed, OpenWhileProgramming, Readers
<1> QED  BY <1>1, BootInvariant, PTL

\* For any keys pressed, with any directory: a file that isp_program reads
\* from is closed again before the menu goes on, and if the menu lists files,
\* its cursor is on one of them (program_file and run_file_operation of
\* firmware/boot.cpp).
THEOREM ListStaysSound == BootSpec => []ListSound
<1>1. BootInv => ListSound
  BY DEF BootInv, ListSound, FileClosed, OpenWhileProgramming, Readers
<1> QED  BY <1>1, BootInvariant, PTL

\* The reader takes a press only after a release (read_usb_gamepad of
\* firmware/boot.cpp).
THEOREM HeldButtonCountsOnce == BootSpec => PressOnce
<1>1. BootInv /\ [BootNext]_bootVars => [phase = "press" /\ phase' = "act" => fresh]_bootVars
  BY DEF BootInv, Released
<1> QED  BY <1>1, BootInvariant, PTL DEF BootSpec, PressOnce

----------------------------------------------------------------------------
(* Programming the target.                                                 *)

LEMMA Sizes ==
  /\ PageSize \in Nat /\ PageSize \in Nat \ {0} /\ PageSize > 0
  /\ 0 \in 0..PageSize /\ 0 \in 0..MaxFlaws
  /\ MemorySize \in Nat /\ MemorySize % PageSize = 0
  /\ Lanes \in Nat /\ MaxFile \in Nat /\ MaxFlaws \in Nat
BY IspAssumption

LEMMA Quotient ==
  ASSUME NEW m \in Nat, NEW p \in Nat \ {0}, m % p = 0
  PROVE  \E i \in Int : m = p * i
<1>1. m \div p \in Int
  OBVIOUS
<1>2. m = p * (m \div p) + (m % p)
  OBVIOUS
<1>3. m = p * (m \div p)
  BY <1>1, <1>2
<1> QED  BY <1>1, <1>3

LEMMA NextMultiple ==
  ASSUME NEW m \in Nat, NEW p \in Nat \ {0}, m % p = 0
  PROVE  (m + p) % p = 0
<1>1. PICK i \in Int : m = p * i
  BY Quotient
<1> DEFINE d == (m + p) \div p
           r == (m + p) % p
<1>2. d \in Int /\ r \in Int /\ 0 <= r /\ r < p
  OBVIOUS
<1>3. m + p = p * d + r
  OBVIOUS
<1> HIDE DEF d, r
<1>4. r = p * (i + 1 - d)
  BY <1>1, <1>2, <1>3
<1>5. i + 1 - d < 1
  <2>1. SUFFICES ASSUME i + 1 - d >= 1 PROVE FALSE
    BY <1>2
  <2>2. p * (i + 1 - d) >= p * 1
    BY <1>2, <2>1
  <2> QED  BY <1>2, <1>4, <2>2
<1>6. i + 1 - d > -1
  <2>1. SUFFICES ASSUME i + 1 - d <= -1 PROVE FALSE
    BY <1>2
  <2>2. p * (i + 1 - d) <= p * (-1)
    BY <1>2, <2>1
  <2> QED  BY <1>2, <1>4, <2>2
<1>7. i + 1 - d = 0
  BY <1>2, <1>5, <1>6
<1>8. r = 0
  BY <1>4, <1>7
<1> QED  BY <1>8 DEF r

\* Two multiples are a page apart.
LEMMA MultiplesApart ==
  ASSUME NEW m \in Nat, NEW n \in Nat, NEW p \in Nat \ {0},
         m % p = 0, n % p = 0, m < n
  PROVE  m + p <= n
<1>1. PICK i \in Int : m = p * i
  BY Quotient
<1>2. PICK j \in Int : n = p * j
  BY Quotient
<1>3. i < j
  <2>1. SUFFICES ASSUME j <= i PROVE FALSE
    OBVIOUS
  <2>2. p * j <= p * i
    BY <2>1
  <2> QED  BY <1>1, <1>2, <2>2
<1>4. p * (i + 1) <= p * j
  BY <1>3
<1>5. p * (i + 1) = p * i + p
  OBVIOUS
<1> QED  BY <1>1, <1>2, <1>4, <1>5

\* A page that starts inside of the memory is inside of it.
LEMMA PageFits ==
  ASSUME NEW o \in Nat, o % PageSize = 0, o < MemorySize, NEW x \in InPage
  PROVE  o + x \in Cells
<1>1. o + PageSize <= MemorySize
  BY Sizes, MultiplesApart
<1> QED  BY <1>1, Sizes DEF Cells, InPage

LEMMA ChecksumType ==
  ASSUME NEW b, NEW n \in Nat
  PROVE  Checksum(b, n) \in Checksums
<1> SUFFICES ASSUME NEW l \in 0..(Lanes - 1)
             PROVE  Cardinality({x \in 0..(n - 1) : x % Lanes = l /\ b[x] = 1}) % 2
                      \in Bit
  BY DEF Checksum, Checksums
<1> DEFINE S == {x \in 0..(n - 1) : x % Lanes = l /\ b[x] = 1}
<1>1. IsFiniteSet(0..(n - 1))
  BY FS_Interval
<1>2. IsFiniteSet(S)
  BY <1>1, FS_Subset
<1>3. Cardinality(S) \in Nat
  BY <1>2, FS_CardinalityType
<1> HIDE DEF S
<1>4. Cardinality(S) % 2 \in Bit
  BY <1>3 DEF Bit
<1> QED  BY <1>4 DEF S

(***************************************************************************)
(* The invariant.                                                          *)
(***************************************************************************)

\* A page that is being read or written starts in the file and in the memory.
InRange ==
  pc \in {"read", "program", "poll_write", "verify"} =>
    offset < size /\ offset < MemorySize

\* Past the signature the target is the one expected.
Identified == pc \notin {"idle", "id"} => expected

IInv == TypeOK /\ BusShared /\ NotWhileBusy /\ InRange /\ Identified

LEMMA InitIInv == Init => IInv
<1> SUFFICES ASSUME Init PROVE IInv
  OBVIOUS
<1>1. flash \in [Cells -> Bit] /\ buf \in [InPage -> Bit]
  BY DEF Init
<1>2. checksum \in Checksums
  BY DEF Init, Checksums, Bit
<1>3. offset \in Nat /\ offset % PageSize = 0
  BY Sizes DEF Init
<1>4. TypeOK
  BY <1>1, <1>2, <1>3, Sizes DEF Init, TypeOK, Steps, Results
<1> QED
  BY <1>4 DEF Init, IInv, BusShared, NotWhileBusy, InRange, Identified

\* Going on to the next page, or to none.
LEMMA OffsetMoves == TypeOK => offset + PageSize \in Nat
                               /\ (offset + PageSize) % PageSize = 0
<1> SUFFICES ASSUME TypeOK
             PROVE  offset + PageSize \in Nat /\ (offset + PageSize) % PageSize = 0
  OBVIOUS
<1>1. offset \in Nat /\ offset % PageSize = 0 /\ PageSize \in Nat \ {0}
  BY Sizes DEF TypeOK
<1>2. (offset + PageSize) % PageSize = 0
  BY <1>1, NextMultiple
<1> QED  BY <1>1, <1>2

\* One step per action of Next.
LEMMA NextIInv == IInv /\ [Next]_vars => IInv'
<1> SUFFICES ASSUME IInv, [Next]_vars PROVE IInv'
  OBVIOUS
<1> USE DEF IInv, BusShared, NotWhileBusy, InRange, Identified, Returns, target,
            lines
<1>1. CASE Start
  BY <1>1, Sizes DEF Start, TypeOK, Steps
<1>2. CASE CheckId
  BY <1>2 DEF CheckId, TypeOK, Steps, Results
<1>3. CASE ChipErase
  <2>1. flash' \in [Cells -> Bit]
    BY <1>3 DEF ChipErase, Bit, UNINITIALIZED
  <2> QED  BY <1>3, <2>1 DEF ChipErase, TypeOK, Steps
<1>4. CASE PollErase
  BY <1>4 DEF PollErase, TypeOK, Steps
<1>5. CASE NextPage
  BY <1>5 DEF NextPage, TypeOK, Steps, Results
<1>6. CASE ReadPage
  <2>1. PICK k \in 0..Least(PageSize, size - offset) :
          /\ buf' = [x \in InPage |-> IF x < k THEN data[offset + x] ELSE buf[x]]
          /\ count' = k
          /\ IF k < PageSize /\ k # size - offset
               THEN Returns("FILE_READ_ERROR")
               ELSE /\ selected' = TRUE
                    /\ pc' = "program"
                    /\ UNCHANGED <<reset, result>>
    BY <1>6 DEF ReadPage
  <2>2. k \in 0..PageSize /\ k <= size - offset
    BY <2>1, <1>6, Sizes DEF ReadPage, Least, TypeOK
  <2>3. \A x \in InPage : x < k => data[offset + x] \in Bit
    BY <2>2, Sizes DEF TypeOK, InPage
  <2>4. buf' \in [InPage -> Bit]
    BY <2>1, <2>3 DEF TypeOK
  <2>5. /\ pc = "read"
        /\ UNCHANGED <<size, data, target, offset, checksum, flaws>>
    BY <1>6 DEF ReadPage
  <2> QED  BY <2>1, <2>2, <2>4, <2>5 DEF TypeOK, Steps, Results
<1>7. CASE SkipEmpty
  BY <1>7, OffsetMoves DEF SkipEmpty, TypeOK, Steps
<1>8. CASE WritePage
  <2>1. checksum' \in Checksums
    BY <1>8, ChecksumType, Sizes DEF WritePage, TypeOK
  <2>2. PageWritten(buf) \in [Cells -> Bit]
    BY DEF PageWritten, TypeOK, Bit
  <2>3. flash' \in [Cells -> Bit] /\ flaws' \in 0..MaxFlaws
    <3>1. CASE flash' = PageWritten(buf) /\ UNCHANGED flaws
      BY <2>2, <3>1 DEF TypeOK
    <3>2. CASE /\ flaws < MaxFlaws
               /\ flaws' = flaws + 1
               /\ \E x \in 0..(count - 1) :
                    flash' = [PageWritten(buf) EXCEPT ![offset + x] = 1 - @]
      <4>1. PICK x \in 0..(count - 1) :
              flash' = [PageWritten(buf) EXCEPT ![offset + x] = 1 - @]
        BY <3>2
      <4>2. offset + x \in Cells
        <5>1. x \in InPage /\ offset \in Nat /\ offset % PageSize = 0
          BY Sizes DEF TypeOK, InPage
        <5>2. offset < MemorySize
          BY <1>8 DEF WritePage
        <5> QED  BY <5>1, <5>2, PageFits
      <4>3. 1 - PageWritten(buf)[offset + x] \in Bit
        BY <2>2, <4>2 DEF Bit
      <4>4. flash' \in [Cells -> Bit]
        BY <2>2, <4>1, <4>3
      <4> QED  BY <3>2, <4>4, Sizes DEF TypeOK
    <3> QED  BY <1>8, <3>1, <3>2 DEF WritePage
  <2> QED  BY <1>8, <2>1, <2>3 DEF WritePage, TypeOK, Steps
<1>9. CASE PollWrite
  BY <1>9 DEF PollWrite, TypeOK, Steps
<1>10. CASE Verify
  <2>1. \A x \in InPage : x < count => flash[offset + x] \in Bit
    BY <1>10, PageFits DEF Verify, TypeOK
  <2>2. buf' \in [InPage -> Bit]
    BY <1>10, <2>1 DEF Verify, TypeOK
  <2> QED  BY <1>10, <2>2, OffsetMoves DEF Verify, TypeOK, Steps, Results
<1>11. CASE TargetReady
  BY <1>11 DEF TargetReady, TypeOK
<1>12. CASE UNCHANGED vars
  BY <1>12 DEF vars, TypeOK
<1> QED
  BY <1>1, <1>2, <1>3, <1>4, <1>5, <1>6, <1>7, <1>8, <1>9, <1>10, <1>11, <1>12
  DEF Next, Program

LEMMA Invariant == Spec => []IInv
<1> QED  BY InitIInv, NextIInv, PTL DEF Spec

(***************************************************************************)
(* What success means.  Pages in front of the offset are as they should    *)
(* be, those behind it are empty; on the page just written at most one     *)
(* byte is not as in the buffer, and then the checksums differ.            *)
(***************************************************************************)

\* What Programmed says of one cell.
Good(a) ==
  /\ a < size => Holds(a)
  /\ a > size => Empty(a)
  /\ a = size /\ size % 2 = 0 => Empty(a)

Writing == {"poll_write", "verify"}
Erased == pc \notin {"idle", "id", "erase"}

AtFirstPage == pc \in {"id", "erase"} => offset = 0
NoResultYet == pc # "idle" => result = "none"
Behind == Erased => \A a \in Cells : a < offset => Good(a)
Ahead ==
  Erased => \A a \in Cells :
              a >= offset + (IF pc \in Writing THEN PageSize ELSE 0) => Empty(a)

BufferHolds ==
  pc \in {"program", "poll_write", "verify"} =>
    /\ count = Least(PageSize, size - offset)
    /\ \A x \in 0..(count - 1) : buf[x] = data[offset + x]

\* The cells of the page that no byte of the file belongs in.
RestEmpty ==
  \A x \in InPage : x > count \/ (x = count /\ count % 2 = 0) => Empty(offset + x)

AllHold == \A x \in 0..(count - 1) : Holds(offset + x)

OneFlawed ==
  \E f \in 0..(count - 1) :
    /\ ~Holds(offset + f)
    /\ \A x \in 0..(count - 1) : x # f => Holds(offset + x)

PageIsWritten ==
  pc \in Writing => /\ checksum = Checksum(buf, count)
                    /\ RestEmpty
                    /\ AllHold \/ OneFlawed

PInv ==
  /\ AtFirstPage /\ NoResultYet /\ Behind /\ Ahead /\ BufferHolds
  /\ PageIsWritten /\ Programmed

\* A set of bytes with one more, or one less, has another parity.
LEMMA ParityChanges ==
  ASSUME NEW S, IsFiniteSet(S), NEW e, e \notin S
  PROVE  Cardinality(S) % 2 # Cardinality(S \cup {e}) % 2
<1>1. Cardinality(S \cup {e}) = Cardinality(S) + 1 /\ Cardinality(S) \in Nat
  BY FS_AddElement, FS_CardinalityType
<1> QED  BY <1>1

\* One byte that differs is in one lane.
LEMMA FlawChangesChecksum ==
  ASSUME NEW n \in Nat, NEW b \in [InPage -> Bit], NEW c \in [InPage -> Bit],
         n <= PageSize,
         NEW f \in 0..(n - 1), b[f] = 1, c[f] = 0,
         \A x \in 0..(n - 1) : x # f => b[x] = c[x]
  PROVE  Checksum(b, n) # Checksum(c, n)
<1> DEFINE l == f % Lanes
           S(g) == {x \in 0..(n - 1) : x % Lanes = l /\ g[x] = 1}
<1>1. l \in 0..(Lanes - 1)
  BY IspAssumption
<1>2. IsFiniteSet(S(c))
  <2>1. IsFiniteSet(0..(n - 1))
    BY FS_Interval
  <2> QED  BY <2>1, FS_Subset
<1>3. S(b) = S(c) \cup {f} /\ f \notin S(c)
  OBVIOUS
<1>4. Checksum(b, n)[l] = Cardinality(S(b)) % 2
  BY <1>1 DEF Checksum
<1>5. Checksum(c, n)[l] = Cardinality(S(c)) % 2
  BY <1>1 DEF Checksum
<1> HIDE DEF l, S
<1>6. Checksum(b, n)[l] # Checksum(c, n)[l]
  BY <1>2, <1>3, <1>4, <1>5, ParityChanges
<1> QED  BY <1>6

\* Pages start at even addresses.
LEMMA SameParity ==
  ASSUME TypeOK, NEW n \in Nat, n % 2 = 0, n >= offset
  PROVE  (n - offset) % 2 = 0
<1>1. /\ PageSize \in Nat \ {0} /\ PageSize % 2 = 0
      /\ offset \in Nat /\ offset % PageSize = 0
  BY IspAssumption DEF TypeOK
<1>2. PICK i \in Int : offset = PageSize * i
  BY <1>1, Quotient
<1>3. PICK j \in Int : PageSize = 2 * j
  BY <1>1
<1>4. PICK k \in Int : n = 2 * k
  OBVIOUS
<1> DEFINE t == j * i
<1>5. offset = 2 * t /\ t \in Int
  BY <1>2, <1>3
<1> HIDE DEF t
<1>6. n - offset = 2 * (k - t)
  BY <1>4, <1>5
<1> QED  BY <1>5, <1>6

LEMMA InitPInv == Init => PInv
BY DEF Init, PInv, AtFirstPage, NoResultYet, Behind, Ahead, Erased, BufferHolds,
       PageIsWritten, Writing, Programmed

\* When a page is done, every cell in front of the next one is good.
LEMMA PageDone ==
  ASSUME IInv, PInv, pc \in {"program", "verify"},
         RestEmpty, AllHold
  PROVE  \A a \in Cells : a < offset + PageSize => Good(a)
<1> USE DEF IInv, PInv
<1> SUFFICES ASSUME NEW a \in Cells, a < offset + PageSize, a >= offset
             PROVE  Good(a)
  BY DEF Behind, Erased, TypeOK, Cells
<1> DEFINE x == a - offset
<1>1. /\ offset \in Nat /\ size \in Nat /\ a \in Nat /\ count \in Nat
      /\ offset < size /\ PageSize \in Nat
  BY Sizes DEF TypeOK, Cells, InRange
<1>2. x \in InPage /\ a = offset + x /\ x \in Nat
  BY <1>1 DEF InPage
<1>3. count = Least(PageSize, size - offset)
  BY DEF BufferHolds
<1>4. CASE a < size
  <2>1. x \in 0..(count - 1)
    BY <1>1, <1>2, <1>3, <1>4 DEF Least, InPage
  <2>2. Holds(offset + x)
    BY <2>1 DEF AllHold
  <2> QED  BY <1>1, <1>2, <1>4, <2>2 DEF Good
<1>5. CASE a >= size
  <2>1. count = size - offset /\ x >= count
    BY <1>1, <1>2, <1>3, <1>5 DEF Least, InPage
  <2>2. x > count => Empty(offset + x)
    BY <1>2 DEF RestEmpty
  <2>3. x = count /\ size % 2 = 0 => Empty(offset + x)
    BY <1>1, <1>2, <2>1, SameParity DEF RestEmpty
  <2> QED  BY <1>1, <1>2, <1>5, <2>1, <2>2, <2>3 DEF Good
<1> QED  BY <1>1, <1>4, <1>5

\* A page that is written holds what the buffer holds, but for one byte.
LEMMA PageGetsWritten ==
  ASSUME IInv, PInv, WritePage
  PROVE  PageIsWritten'
<1> USE DEF IInv, PInv
<1>1. /\ pc = "program" /\ checksum' = Checksum(buf, count)
      /\ UNCHANGED <<size, data, offset, buf, count>>
  BY DEF WritePage
<1>2. /\ offset \in Nat /\ size \in Nat /\ count \in Nat /\ count <= PageSize
      /\ PageSize \in Nat /\ offset < size
  BY <1>1, Sizes DEF TypeOK, InRange
<1>3. \A x \in InPage : offset + x \in Cells /\ Empty(offset + x)
  <2> SUFFICES ASSUME NEW x \in InPage
               PROVE  offset + x \in Cells /\ Empty(offset + x)
    OBVIOUS
  <2>1. offset + x \in Cells
    BY <1>1, PageFits DEF InRange, TypeOK
  <2>2. offset + x >= offset
    BY <1>2 DEF InPage
  <2> QED  BY <1>1, <1>2, <2>1, <2>2 DEF Ahead, Erased, Writing
<1>4. \A x \in 0..(count - 1) :
        /\ x \in InPage
        /\ offset + x \in 0..(size - 1)
        /\ buf[x] = data[offset + x] /\ data[offset + x] \in Bit
  <2>1. count = Least(PageSize, size - offset)
    BY <1>1 DEF BufferHolds
  <2>2. \A x \in 0..(count - 1) : x \in InPage /\ offset + x \in 0..(size - 1)
    BY <1>2, <2>1 DEF Least, InPage
  <2> QED  BY <1>1, <2>2 DEF BufferHolds, TypeOK
<1> DEFINE w == PageWritten(buf)
<1>5. w \in [Cells -> Bit]
  BY DEF PageWritten, TypeOK, Bit
<1>6. \A x \in 0..(count - 1) : w[offset + x] = data[offset + x]
  <2> SUFFICES ASSUME NEW x \in 0..(count - 1)
               PROVE  w[offset + x] = data[offset + x]
    OBVIOUS
  <2>1. offset + x \in Cells /\ flash[offset + x] = 1
    BY <1>3, <1>4 DEF Empty, UNINITIALIZED
  <2>2. (offset + x) - offset = x /\ x \in Loaded
    BY <1>2 DEF Loaded
  <2>3. w[offset + x] = IF buf[x] = 0 THEN 0 ELSE 1
    BY <2>1, <2>2 DEF PageWritten
  <2> QED  BY <2>3, <1>4 DEF Bit
<1>7. \A x \in InPage :
        x > count \/ (x = count /\ count % 2 = 0) => w[offset + x] = UNINITIALIZED
  <2> SUFFICES ASSUME NEW x \in InPage,
                      x > count \/ (x = count /\ count % 2 = 0)
               PROVE  w[offset + x] = UNINITIALIZED
    OBVIOUS
  <2>1. (offset + x) - offset = x /\ x \notin Loaded
    BY <1>2 DEF Loaded, InPage
  <2>2. w[offset + x] = flash[offset + x]
    BY <1>3, <2>1 DEF PageWritten
  <2> QED  BY <1>3, <2>2 DEF Empty
<1> HIDE DEF w
<1>8. CASE flash' = w
  <2>1. AllHold'
    BY <1>1, <1>6, <1>8 DEF AllHold, Holds
  <2>2. RestEmpty'
    BY <1>1, <1>7, <1>8 DEF RestEmpty, Empty
  <2> QED  BY <1>1, <2>1, <2>2 DEF PageIsWritten
<1>9. CASE \E x \in 0..(count - 1) : flash' = [w EXCEPT ![offset + x] = 1 - @]
  <2>1. PICK f \in 0..(count - 1) : flash' = [w EXCEPT ![offset + f] = 1 - @]
    BY <1>9
  <2>2. /\ flash'[offset + f] = 1 - data[offset + f]
        /\ \A x \in InPage : x # f => flash'[offset + x] = w[offset + x]
    BY <1>2, <1>3, <1>4, <1>5, <1>6, <2>1 DEF InPage
  <2>3. flash'[offset + f] # data[offset + f]
    BY <1>4, <2>2 DEF Bit
  <2>4. OneFlawed'
    BY <1>1, <1>4, <1>6, <2>2, <2>3 DEF OneFlawed, Holds
  <2>5. RestEmpty'
    BY <1>1, <1>2, <1>7, <2>2 DEF RestEmpty, Empty
  <2> QED  BY <1>1, <2>4, <2>5 DEF PageIsWritten
<1> QED
  BY <1>8, <1>9 DEF WritePage, w

\* A page with one flawed byte does not pass the verification.
LEMMA FlawIsFound ==
  ASSUME IInv, PInv, Verify, OneFlawed
  PROVE  Checksum(buf', count) # checksum
<1> USE DEF IInv, PInv
<1>1. /\ pc = "verify"
      /\ buf' = [x \in InPage |->
                   IF x < count THEN flash[offset + x] ELSE buf[x]]
  BY DEF Verify
<1>2. count \in Nat /\ count <= PageSize
  BY Sizes DEF TypeOK
<1>3. checksum = Checksum(buf, count)
  BY <1>1 DEF PageIsWritten, Writing
<1>4. buf \in [InPage -> Bit] /\ buf' \in [InPage -> Bit]
  <2>1. \A x \in InPage : x < count => flash[offset + x] \in Bit
    BY <1>1, PageFits DEF TypeOK, InRange
  <2> QED  BY <1>1, <2>1 DEF TypeOK
<1>5. \A x \in 0..(count - 1) :
        x \in InPage /\ buf[x] = data[offset + x] /\ buf'[x] = flash[offset + x]
  <2>1. \A x \in 0..(count - 1) : x \in InPage /\ x < count
    BY <1>2, Sizes DEF InPage
  <2> QED  BY <1>1, <2>1 DEF BufferHolds
<1>6. PICK f \in 0..(count - 1) :
        /\ ~Holds(offset + f)
        /\ \A x \in 0..(count - 1) : x # f => Holds(offset + x)
  BY DEF OneFlawed
<1>7. buf[f] # buf'[f] /\ \A x \in 0..(count - 1) : x # f => buf[x] = buf'[x]
  BY <1>5, <1>6 DEF Holds
<1>8. CASE buf[f] = 1
  <2>1. buf'[f] = 0
    BY <1>4, <1>5, <1>7, <1>8 DEF Bit
  <2> QED  BY <1>2, <1>3, <1>4, <1>7, <1>8, <2>1, FlawChangesChecksum
<1>9. CASE buf[f] = 0
  <2>1. buf'[f] = 1
    BY <1>4, <1>5, <1>7, <1>9 DEF Bit
  <2> QED  BY <1>2, <1>3, <1>4, <1>7, <1>9, <2>1, FlawChangesChecksum
<1> QED  BY <1>4, <1>5, <1>8, <1>9 DEF Bit

\* One step per action of Next.
LEMMA NextPInv == IInv /\ PInv /\ [Next]_vars => PInv'
<1> SUFFICES ASSUME IInv, PInv, [Next]_vars PROVE PInv'
  OBVIOUS
<1> USE DEF PInv, AtFirstPage, NoResultYet, Behind, Ahead, Erased, BufferHolds,
            Writing, Programmed, Good, Holds, Empty, Returns, target, lines
<1>0. offset \in Nat /\ PageSize \in Nat /\ \A a \in Cells : a \in Nat
  BY Sizes DEF IInv, TypeOK, Cells
<1>1. CASE Start
  BY <1>1 DEF Start, PageIsWritten
<1>2. CASE CheckId
  BY <1>2 DEF CheckId, PageIsWritten
<1>3. CASE ChipErase
  BY <1>0, <1>3 DEF ChipErase, PageIsWritten
<1>4. CASE PollErase
  BY <1>4 DEF PollErase, PageIsWritten
<1>5. CASE NextPage
  <2>1. CASE offset < size /\ offset < MemorySize
    BY <1>5, <2>1 DEF NextPage, PageIsWritten
  <2>2. CASE ~(offset < size /\ offset < MemorySize)
    <3>1. \A a \in Cells : Good(a)
      <4> SUFFICES ASSUME NEW a \in Cells PROVE Good(a)
        OBVIOUS
      <4>1. CASE a < offset
        BY <1>5, <4>1 DEF NextPage
      <4>2. CASE a >= offset
        <5>1. Empty(a)
          BY <1>0, <1>5, <4>2 DEF NextPage
        <5>2. a >= size
          BY <1>0, <2>2, <4>2, Sizes DEF IInv, TypeOK, Cells
        <5> QED  BY <1>0, <5>1, <5>2 DEF IInv, TypeOK
      <4> QED  BY <1>0, <4>1, <4>2
    <3> QED  BY <1>5, <2>2, <3>1 DEF NextPage, PageIsWritten
  <2> QED  BY <2>1, <2>2
<1>6. CASE ReadPage
  <2>1. PICK k \in 0..Least(PageSize, size - offset) :
          /\ buf' = [x \in InPage |-> IF x < k THEN data[offset + x] ELSE buf[x]]
          /\ count' = k
          /\ IF k < PageSize /\ k # size - offset
               THEN Returns("FILE_READ_ERROR")
               ELSE /\ selected' = TRUE
                    /\ pc' = "program"
                    /\ UNCHANGED <<reset, result>>
    BY <1>6 DEF ReadPage
  <2>2. /\ pc = "read"
        /\ UNCHANGED <<size, data, target, offset, checksum, flaws>>
    BY <1>6 DEF ReadPage
  <2>3. CASE k < PageSize /\ k # size - offset
    BY <2>1, <2>2, <2>3 DEF PageIsWritten
  <2>4. CASE ~(k < PageSize /\ k # size - offset)
    <3>1. k = Least(PageSize, size - offset)
      BY <1>0, <2>1, <2>2, <2>4 DEF Least, IInv, TypeOK, InRange
    <3>2. \A x \in 0..(k - 1) : x \in InPage /\ x < k
      BY <1>0, <2>2, <3>1 DEF Least, InPage, IInv, TypeOK, InRange
    <3>3. \A x \in 0..(k - 1) : buf'[x] = data[offset + x]
      BY <2>1, <3>2
    <3> QED  BY <2>1, <2>2, <2>4, <3>1, <3>3 DEF PageIsWritten
  <2> QED  BY <2>3, <2>4
<1>7. CASE SkipEmpty
  <2>1. /\ pc = "program" /\ pc' = "page" /\ offset' = offset + PageSize
        /\ UNCHANGED <<size, data, flash, result>>
        /\ \A x \in 0..(count - 1) : buf[x] = UNINITIALIZED
    BY <1>7 DEF SkipEmpty
  <2>2. \A x \in InPage : Empty(offset + x)
    <3> SUFFICES ASSUME NEW x \in InPage PROVE Empty(offset + x)
      OBVIOUS
    <3>1. offset + x \in Cells
      BY <2>1, PageFits DEF IInv, InRange, TypeOK
    <3> QED  BY <1>0, <2>1, <3>1 DEF InPage
  <2>3. RestEmpty
    BY <2>2 DEF RestEmpty
  <2>4. AllHold
    <3> SUFFICES ASSUME NEW x \in 0..(count - 1) PROVE Holds(offset + x)
      BY DEF AllHold
    <3>1. x \in InPage
      BY Sizes DEF IInv, TypeOK, InPage
    <3> QED  BY <2>1, <2>2, <3>1
  <2>5. \A a \in Cells : a < offset + PageSize => Good(a)
    BY <2>1, <2>3, <2>4, PageDone
  <2> QED  BY <1>0, <2>1, <2>5 DEF PageIsWritten
<1>8. CASE WritePage
  <2>1. /\ pc = "program" /\ pc' = "poll_write"
        /\ UNCHANGED <<size, data, offset, buf, count, result>>
    BY <1>8 DEF WritePage
  <2>2. \A a \in Cells :
          a < offset \/ a >= offset + PageSize => flash'[a] = flash[a]
    <3>1. /\ count \in Nat /\ count <= PageSize
          /\ PageWritten(buf) \in [Cells -> Bit]
          /\ PageSize % 2 = 0
      BY Sizes, IspAssumption DEF IInv, TypeOK, PageWritten, Bit
    <3> SUFFICES ASSUME NEW a \in Cells, a < offset \/ a >= offset + PageSize
                 PROVE  flash'[a] = flash[a]
      OBVIOUS
    <3>2. a - offset \notin Loaded
      BY <1>0, <3>1 DEF Loaded
    <3>3. PageWritten(buf)[a] = flash[a]
      BY <3>2 DEF PageWritten
    <3>4. \A x \in 0..(count - 1) : offset + x # a
      BY <1>0, <3>1
    <3> QED  BY <1>8, <3>1, <3>3, <3>4 DEF WritePage
  <2>3. \A a \in Cells : a < offset => Good(a)
    BY <2>1
  <2>4. \A a \in Cells : a >= offset + PageSize => Empty(a)
    BY <1>0, <2>1
  <2>5. PageIsWritten'
    BY <1>8, PageGetsWritten
  <2> QED  BY <2>1, <2>2, <2>3, <2>4, <2>5
<1>9. CASE PollWrite
  BY <1>9 DEF PollWrite, PageIsWritten, RestEmpty, AllHold, OneFlawed
<1>10. CASE Verify
  <2>1. /\ pc = "verify"
        /\ UNCHANGED <<size, data, flash, count>>
    BY <1>10 DEF Verify
  <2>2. CASE Checksum(buf', count) = checksum
    <3>1. pc' = "page" /\ offset' = offset + PageSize /\ UNCHANGED result
      BY <1>10, <2>2 DEF Verify
    <3>2. RestEmpty /\ AllHold
      BY <1>10, <2>1, <2>2, FlawIsFound DEF PageIsWritten
    <3>3. \A a \in Cells : a < offset + PageSize => Good(a)
      BY <2>1, <3>2, PageDone
    <3> QED  BY <1>0, <2>1, <3>1, <3>3 DEF PageIsWritten
  <2>3. CASE Checksum(buf', count) # checksum
    BY <1>10, <2>1, <2>3 DEF Verify, PageIsWritten
  <2> QED  BY <2>2, <2>3
<1>11. CASE TargetReady
  BY <1>11 DEF TargetReady, PageIsWritten, RestEmpty, AllHold, OneFlawed
<1>12. CASE UNCHANGED vars
  BY <1>12 DEF vars, PageIsWritten, RestEmpty, AllHold, OneFlawed
<1> QED
  BY <1>1, <1>2, <1>3, <1>4, <1>5, <1>6, <1>7, <1>8, <1>9, <1>10, <1>11, <1>12
  DEF Next, Program

(***************************************************************************)
(* Theorems.                                                               *)
(***************************************************************************)

\* For any sizes of memory, page and file, any failures of the card and any
\* target: the bus is the card's only while a page is read, the reset line is
\* pulled exactly while isp_program runs, and the target is left alone while
\* it is busy (isp_program of firmware/isp.cpp).
THEOREM ProgrammingIsOrderly == Spec => [](TypeOK /\ BusShared /\ NotWhileBusy)
<1>1. IInv => TypeOK /\ BusShared /\ NotWhileBusy
  BY DEF IInv
<1> QED  BY <1>1, Invariant, PTL

\* Nothing is sent to the target while it erases the chip or writes a page
\* (isp_program of firmware/isp.cpp).
THEOREM NeverSpokenToWhileBusy == Spec => []NotWhileBusy
BY ProgrammingIsOrderly, PTL

\* If isp_program returns success, the flash holds as much of the file as fits
\* and is empty behind it, although a page is only verified by its checksum
\* (isp_program of firmware/isp.cpp).
THEOREM SuccessMeansProgrammed == Spec => []Programmed
<1>1. Spec => []PInv
  BY InitPInv, NextPInv, Invariant, PTL DEF Spec
<1> QED  BY <1>1, PTL DEF PInv

\* Only a target with the right signature is erased or written
\* (isp_program of firmware/isp.cpp).
THEOREM OnlyTheExpectedDevice == Spec => WrongDeviceUntouched
<1>1. IInv /\ [Next]_vars => [flash' # flash => expected]_vars
  <2> SUFFICES ASSUME IInv, Next, flash' # flash PROVE expected
    OBVIOUS
  <2>1. ChipErase \/ WritePage
    BY DEF Next, Program, Start, CheckId, PollErase, NextPage, ReadPage,
           SkipEmpty, PollWrite, Verify, TargetReady, target
  <2> QED  BY <2>1 DEF IInv, Identified, ChipErase, WritePage
<1> QED  BY <1>1, Invariant, PTL DEF Spec, WrongDeviceUntouched
=============================================================================
