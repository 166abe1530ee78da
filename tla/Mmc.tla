--------------------------------- MODULE Mmc ---------------------------------
(***************************************************************************)
(* The driver of the SD card (src/firmware/fatfs/mmc.cpp) at its commands  *)
(* and data blocks, with the timer interrupt that limits its waits, over a *)
(* card of any of the four kinds that may be slow, lose a command or its   *)
(* answer, refuse a block, or be pulled out and put back.  While no call   *)
(* runs, the program may read or reset the millisecond counter.            *)
(***************************************************************************)
EXTENDS Timer, Sequences, FiniteSets

CONSTANTS Kinds,       \* the cards: a subset of {"MMC", "SD1", "SD2", "SDHC"}
          NSectors,    \* sectors of the card
          Block,       \* bytes in a sector, 512
          InitTime, ReadyTime, TokenTime,   \* 100, 50 and 20 ticks of 10 ms
          Counts, MaxFaults, MaxCalls
ASSUME SizeAssumption ==
  NSectors \in Nat \ {0} /\ Block \in Nat \ {0, 1} /\ Counts \subseteq Nat \ {0}

VARIABLES Stat, Timer1, Timer2, CardType,
          selected, fast,    \* the select line of the card, the clock of the bus
          run,               \* the call under way
          answer,            \* of the last call, with the call and its buffer
          card, store,       \* the card and its sectors
          healthy,           \* history: disk_initialize has succeeded, and never failed since
          calls, faults
mmcVars == <<Stat, Timer1, Timer2, CardType, selected, fast, run, answer,
             card, store, healthy, calls, faults>>
vars == <<timerVars, mmcVars>>

Sectors == 0..NSectors-1
Nobody  == -1                \* no sector
NoReply == 255
ACMDs   == {"ACMD41", "ACMD13", "ACMD23"}
Ioctls  == {"CTRL_SYNC", "GET_SECTOR_COUNT", "GET_BLOCK_SIZE", "MMC_GET_TYPE",
            "MMC_GET_CSD", "MMC_GET_CID", "MMC_GET_OCR", "MMC_GET_SDSTAT"}
Resting == [op |-> "none", sector |-> 0, count |-> 0, pc |-> "idle", k |-> "", cmd |-> "",
            arg |-> 0, app |-> FALSE, res |-> 0, ty |-> "none", left |-> 0, buf |-> <<>>]
Silent  == [op |-> "none", res |-> "OK", sector |-> 0, count |-> 0, buf |-> <<>>]

(* The card after power on: it takes no command but CMD0.                  *)
Fresh(kind) == [kind |-> kind, state |-> "off", app |-> FALSE, busy |-> FALSE,
                sends |-> Nobody, takes |-> Nobody]
MmcInit ==
  /\ Stat = {"NOINIT"} /\ Timer1 = 0 /\ Timer2 = 0 /\ CardType = "none"
  /\ selected = FALSE /\ fast = TRUE /\ run = Resting /\ answer = Silent
  /\ \E kind \in Kinds, b \in BOOLEAN : card = [Fresh(kind) EXCEPT !.busy = b]
  /\ store = [s \in Sectors |-> s]
  /\ healthy = FALSE /\ calls = 0 /\ faults = 0

-----------------------------------------------------------------------------
(* What the card does with a command: the card afterwards and its answer.  *)
R1(c) == IF c.state = "idle" THEN 1 ELSE 0
Illegal(c) == {<<c, R1(c) + 4>>}
Sdc(c) == c.kind # "MMC"
(* Leaving the idle state takes a while; a large card needs the HCS bit.   *)
Leaves(c, can) == {<<[c EXCEPT !.app = FALSE], R1(c)>>} \cup
  IF can THEN {<<[c EXCEPT !.app = FALSE, !.state = "ready"], 0>>} ELSE {}
SectorOf(c, a) == IF c.kind = "SDHC" THEN a
                  ELSE IF a % Block = 0 THEN a \div Block ELSE Nobody
Transfer(c, a, with(_)) ==
  IF c.state # "ready" THEN Illegal(c)
  ELSE IF SectorOf(c, a) \in Sectors THEN {<<with(SectorOf(c, a)), 0>>} ELSE {<<c, 64>>}
React(c, cmd, a) ==
  IF cmd = "CMD0" THEN {<<[Fresh(c.kind) EXCEPT !.state = "idle"], 1>>}
  ELSE IF c.state = "off" THEN {<<c, NoReply>>} ELSE
  CASE cmd = "CMD8"   -> IF c.kind \in {"SD2", "SDHC"} THEN {<<c, R1(c)>>} ELSE Illegal(c)
    [] cmd = "CMD55"  -> IF Sdc(c) THEN {<<[c EXCEPT !.app = TRUE], R1(c)>>} ELSE Illegal(c)
    [] cmd = "ACMD41" -> IF c.app THEN Leaves(c, c.kind # "SDHC" \/ a = 1) ELSE Illegal(c)
    [] cmd = "CMD1"   -> IF c.kind \in {"MMC", "SD1"} THEN Leaves(c, TRUE) ELSE Illegal(c)
    [] cmd \in {"CMD9", "CMD10", "ACMD13"} ->
         IF c.state = "ready" /\ (cmd = "ACMD13") = c.app
         THEN {<<[c EXCEPT !.sends = 0, !.app = FALSE], 0>>} ELSE Illegal(c)
    [] cmd = "ACMD23" -> {<<[c EXCEPT !.app = FALSE], R1(c)>>}
    [] cmd \in {"CMD17", "CMD18"} -> Transfer(c, a, LAMBDA s : [c EXCEPT !.sends = s])
    [] cmd \in {"CMD24", "CMD25"} -> Transfer(c, a, LAMBDA s : [c EXCEPT !.takes = s])
    [] cmd = "CMD12"  -> {<<[c EXCEPT !.sends = Nobody], R1(c)>>}
    [] OTHER          -> {<<c, R1(c)>>}          \* CMD16, CMD58
MayFail == faults < MaxFaults
(* ... or the command or its answer is lost.                               *)
Outcomes(c, cmd, a) ==
  {<<o[1], o[2], 0>> : o \in React(c, cmd, a)} \cup
  IF MayFail THEN {<<c, NoReply, 1>>} \cup {<<o[1], NoReply, 1>> : o \in React(c, cmd, a)}
  ELSE {}
CardReady == /\ card.busy /\ card' = [card EXCEPT !.busy = FALSE]
             /\ UNCHANGED <<timerVars, Stat, Timer1, Timer2, CardType, selected, fast, run,
                            answer, store, healthy, calls, faults>>
(* The player pulls the card out and puts it back between two calls.       *)
Replug == /\ run.pc = "idle" /\ MayFail /\ faults' = faults + 1
          /\ card' = Fresh(card.kind)
          /\ UNCHANGED <<timerVars, Stat, Timer1, Timer2, CardType, selected, fast, run,
                         answer, store, healthy, calls>>

-----------------------------------------------------------------------------
(* The waits and send_cmd, which goes on at k with its result.             *)
Is(pc) == run.pc = pc
To(pc) == run' = [run EXCEPT !.pc = pc]
Rest == UNCHANGED <<timerVars, Stat, CardType, fast, answer, store, healthy, calls>>
send_cmd(r, cmd, arg, k) ==
  [r EXCEPT !.pc = "select", !.cmd = cmd, !.arg = arg, !.app = cmd \in ACMDs, !.k = k]
Replied(r) == [run EXCEPT !.pc = run.k, !.res = r]

(* select: the line, then wait_ready.                                      *)
Select == /\ Is("select")
          /\ selected' = TRUE /\ Timer2' = ReadyTime /\ To("ready")
          /\ UNCHANGED <<Timer1, card, faults>> /\ Rest
Ready == /\ Is("ready") /\ ~card.busy
         /\ To("command") /\ UNCHANGED <<Timer1, Timer2, selected, card, faults>> /\ Rest
NotReady == /\ Is("ready") /\ card.busy /\ Timer2 = 0
            /\ selected' = FALSE /\ run' = Replied(NoReply)
            /\ UNCHANGED <<Timer1, Timer2, card, faults>> /\ Rest
(* For an ACMD first CMD55, whose refusal is the answer.                   *)
Heard(r) == IF run.app
            THEN IF r > 1 THEN Replied(r) ELSE [run EXCEPT !.app = FALSE, !.pc = "select"]
            ELSE Replied(r)
Command == /\ Is("command") /\ run.cmd # "CTRL_SYNC"
           /\ \E o \in Outcomes(card, IF run.app THEN "CMD55" ELSE run.cmd, run.arg) :
                card' = o[1] /\ run' = Heard(o[2]) /\ faults' = faults + o[3]
           /\ UNCHANGED <<Timer1, Timer2, selected>> /\ Rest
(* CTRL_SYNC: select() without a command.                                  *)
Synced == /\ Is("command") /\ run.cmd = "CTRL_SYNC" /\ run' = Replied(0)
          /\ UNCHANGED <<Timer1, Timer2, selected, card, faults>> /\ Rest

(* rcvr_datablock: the data token, in time; a block of other data than     *)
(* sectors (CSD, CID, SD status) is delivered as sector 0.                 *)
Await(r, k) == [r EXCEPT !.pc = "await", !.k = k]
AwaitToken == /\ Is("await") /\ Timer1' = TokenTime /\ To("token")
              /\ UNCHANGED <<Timer2, selected, card, faults>> /\ Rest
Received == /\ Is("token") /\ card.sends # Nobody
            /\ run' = [Replied(1) EXCEPT !.buf = Append(@, store[card.sends])]
            /\ card' = [card EXCEPT !.sends = IF run.cmd = "CMD18" /\ @ + 1 \in Sectors
                                              THEN @ + 1 ELSE Nobody]
            /\ UNCHANGED <<Timer1, Timer2, selected, faults>> /\ Rest
(* A fault: the error token, or no token at all.                           *)
ErrorToken == /\ Is("token") /\ MayFail /\ faults' = faults + 1 /\ run' \in {run, Replied(0)}
              /\ card' = [card EXCEPT !.sends = Nobody]
              /\ UNCHANGED <<Timer1, Timer2, selected>> /\ Rest
\* A wait for the token without a limit.
TokenForever == FALSE /\ UNCHANGED vars
TokenLate == /\ Is("token") /\ Timer1 = 0 /\ run' = Replied(0)
             /\ UNCHANGED <<Timer1, Timer2, selected, card, faults>> /\ Rest

(* xmit_datablock: wait_ready, then a block, which is accepted or not, or  *)
(* the token that stops a multiple write.                                  *)
Offer(r, stop, k) == [r EXCEPT !.pc = "offer", !.app = stop, !.k = k]
WaitFree == /\ Is("offer") /\ Timer2' = ReadyTime /\ To("send")
            /\ UNCHANGED <<Timer1, selected, card, faults>> /\ Rest
Value(s) == NSectors + s      \* what a write puts into the sector s
Accepted == /\ Is("send") /\ ~card.busy /\ ~run.app /\ card.takes \in Sectors
            /\ run' = Replied(1)
            /\ store' = [store EXCEPT ![card.takes] = Value(run.sector + run.count - run.left)]
            /\ card' = [card EXCEPT !.busy = TRUE,
                          !.takes = IF run.cmd = "CMD25" THEN @ + 1 ELSE Nobody]
            /\ UNCHANGED <<timerVars, Stat, Timer1, Timer2, CardType, selected, fast, answer,
                           healthy, calls, faults>>
Refused == /\ Is("send") /\ ~card.busy /\ ~run.app /\ run' = Replied(0)
           /\ IF card.takes \in Sectors THEN MayFail /\ faults' = faults + 1
              ELSE UNCHANGED faults
           /\ card' = [card EXCEPT !.takes = IF run.cmd = "CMD25" THEN @ ELSE Nobody]
           /\ UNCHANGED <<Timer1, Timer2, selected>> /\ Rest
Stopped == /\ Is("send") /\ ~card.busy /\ run.app /\ run' = Replied(1)
           /\ card' = [card EXCEPT !.takes = Nobody, !.busy = TRUE]
           /\ UNCHANGED <<Timer1, Timer2, selected, faults>> /\ Rest
SendLate == /\ Is("send") /\ card.busy /\ Timer2 = 0 /\ run' = Replied(0)
            /\ UNCHANGED <<Timer1, Timer2, selected, card, faults>> /\ Rest

-----------------------------------------------------------------------------
(* The functions.  A call starts, goes on where a command or a block has   *)
(* come back (its k), and finishes with the card deselected.               *)
Ended(r, ok) == [r EXCEPT !.pc = "finish", !.res = IF ok THEN 1 ELSE 0]
Idle == Is("idle") /\ At("idle") /\ calls < MaxCalls /\ calls' = calls + 1
Started(op, sector, count) ==
  [Resting EXCEPT !.op = op, !.sector = sector, !.count = count, !.left = count]
disk_initialize ==
  /\ Idle /\ fast' = FALSE /\ answer' = Silent
  /\ run' = send_cmd(Started("init", 0, 0), "CMD0", 0, "cmd0")
  /\ UNCHANGED <<timerVars, Stat, Timer1, Timer2, CardType, selected, card, store, healthy,
                 faults>>
\* Sectors and bytes confused for one kind of card.
AlwaysBytes(sector) == sector * Block
Address(sector) == IF CardType = "SDHC" THEN sector ELSE sector * Block
(* The other functions refuse to run before an initialization.             *)
Begin(r) ==
  /\ Idle
  /\ IF "NOINIT" \in Stat
     THEN answer' = [Silent EXCEPT !.op = r.op, !.res = "NOTRDY"] /\ UNCHANGED run
     ELSE run' = r /\ answer' = Silent
  /\ UNCHANGED <<timerVars, Stat, Timer1, Timer2, CardType, selected, fast, card, store,
                 healthy, faults>>
disk_read(s, n) ==
  Begin(IF n = 1 THEN send_cmd(Started("read", s, n), "CMD17", Address(s), "cmd17")
        ELSE send_cmd(Started("read", s, n), "CMD18", Address(s), "cmd18"))
disk_write(s, n) ==
  Begin(IF n = 1 THEN send_cmd(Started("write", s, n), "CMD24", Address(s), "cmd24")
        ELSE IF CardType \in {"SD1", "SD2", "SDHC"}
        THEN send_cmd(Started("write", s, n), "ACMD23", n, "acmd23")
        ELSE send_cmd(Started("write", s, n), "CMD25", Address(s), "cmd25"))
Register(op) ==
  CASE op \in {"GET_SECTOR_COUNT", "MMC_GET_CSD"} -> "CMD9"
    [] op = "MMC_GET_CID"    -> "CMD10"
    [] op = "MMC_GET_OCR"    -> "CMD58"
    [] op = "MMC_GET_SDSTAT" -> "ACMD13"
    [] op = "GET_BLOCK_SIZE" -> IF CardType \in {"SD2", "SDHC"} THEN "ACMD13" ELSE "CMD9"
    [] OTHER -> op
disk_ioctl(op) ==
  Begin(IF op = "MMC_GET_TYPE" THEN Ended(Started(op, 0, 0), TRUE)
        ELSE send_cmd(Started(op, 0, 0), Register(op), 0,
                      IF op \in {"CTRL_SYNC", "MMC_GET_OCR"} THEN "answered" ELSE "register"))

(* disk_initialize, where Timer1 counts the second it may take.            *)
Found(ty) == Ended([run EXCEPT !.ty = ty], FALSE)
Again(cmd, arg, k) == IF Timer1 = 0 THEN Found("none") ELSE send_cmd(run, cmd, arg, k)
Initializing ==
  CASE run.pc = "cmd8"  -> IF run.res = 1 THEN [run EXCEPT !.pc = "loop"]
                           ELSE send_cmd(run, "ACMD41", 0, "probe")
    [] run.pc = "loop"  -> Again("ACMD41", 1, "acmd41")
    [] run.pc = "acmd41" -> IF run.res # 0 THEN [run EXCEPT !.pc = "loop"]
                            ELSE Again("CMD58", 0, "cmd58")
    [] run.pc = "cmd58" -> Found(IF run.res # 0 THEN "none"
                                 ELSE IF card.kind = "SDHC" THEN "SDHC" ELSE "SD2")
    [] run.pc = "probe" -> [run EXCEPT !.ty = IF run.res <= 1 THEN "SD1" ELSE "MMC",
                                       !.pc = "loop1"]
    [] run.pc = "loop1" -> Again(IF run.ty = "SD1" THEN "ACMD41" ELSE "CMD1", 0, "old")
    [] run.pc = "old"   -> IF run.res # 0 THEN [run EXCEPT !.pc = "loop1"]
                           ELSE Again("CMD16", 0, "cmd16")
    [] run.pc = "cmd16" -> Found(IF run.res # 0 THEN "none" ELSE run.ty)
ContinueInit ==
  /\ run.pc \in {"cmd8", "loop", "acmd41", "cmd58", "probe", "loop1", "old", "cmd16"}
  /\ run' = Initializing
  /\ UNCHANGED <<Timer1, Timer2, selected, card, faults>> /\ Rest
EnterIdle == /\ Is("cmd0")
             /\ IF run.res = 1
                THEN Timer1' = InitTime /\ run' = send_cmd(run, "CMD8", 0, "cmd8")
                ELSE UNCHANGED Timer1 /\ run' = Found("none")
             /\ UNCHANGED <<Timer2, selected, card, faults>> /\ Rest

(* disk_read, disk_write, disk_ioctl; run.left counts the blocks to go.    *)
Counted == [run EXCEPT !.left = @ - 1]
Transferring ==
  CASE run.pc = "cmd17" -> IF run.res = 0 THEN Await(run, "done") ELSE Ended(run, FALSE)
    [] run.pc = "cmd24" -> IF run.res = 0 THEN Offer(run, FALSE, "done") ELSE Ended(run, FALSE)
    [] run.pc = "cmd18" -> IF run.res = 0 THEN Await(run, "block") ELSE Ended(run, FALSE)
    [] run.pc = "block" -> IF run.res = 0 THEN send_cmd(run, "CMD12", 0, "stopped")
                           ELSE IF run.left > 1 THEN Await(Counted, "block")
                           ELSE send_cmd(Counted, "CMD12", 0, "stopped")
    [] run.pc = "stopped" -> Ended(run, run.left = 0)
    [] run.pc = "acmd23" -> send_cmd(run, "CMD25", Address(run.sector), "cmd25")
    [] run.pc = "cmd25" -> IF run.res = 0 THEN Offer(run, FALSE, "taken") ELSE Ended(run, FALSE)
    [] run.pc = "taken" -> IF run.res = 0 THEN Offer(run, TRUE, "ended")
                           ELSE Offer(Counted, run.left = 1, IF run.left = 1 THEN "ended" ELSE "taken")
    [] run.pc = "ended" -> Ended(run, run.res = 1 /\ run.left = 0)
    [] run.pc = "register" -> IF run.res = 0 THEN Await(run, "done") ELSE Ended(run, FALSE)
    [] run.pc = "answered" -> Ended(run, run.res = 0)
    [] run.pc = "done" -> Ended(run, run.res = 1)
Continue ==
  /\ run.pc \in {"cmd17", "cmd24", "cmd18", "block", "stopped", "acmd23", "cmd25", "taken",
                 "ended", "register", "answered", "done"}
  /\ run' = Transferring
  /\ UNCHANGED <<Timer1, Timer2, selected, card, faults>> /\ Rest

Answered(res) == [op |-> run.op, res |-> res, sector |-> run.sector, count |-> run.count,
                  buf |-> run.buf]
Finish ==
  /\ Is("finish") /\ selected' = FALSE /\ run' = Resting
  /\ IF run.op = "init"
     THEN /\ CardType' = run.ty /\ fast' = TRUE
          /\ healthy' = (run.ty # "none" /\ (healthy \/ "NOINIT" \in Stat))
          /\ Stat' = IF run.ty # "none" THEN Stat \ {"NOINIT"} ELSE Stat
          /\ answer' = Answered(IF "NOINIT" \in Stat' THEN "NOINIT" ELSE "OK")
     ELSE /\ answer' = Answered(IF run.res = 1 THEN "OK" ELSE "ERROR")
          /\ UNCHANGED <<CardType, fast, healthy, Stat>>
  /\ UNCHANGED <<timerVars, Timer1, Timer2, card, store, calls, faults>>

(* The interrupt of timer 0.  SOCKWP is 0 and SOCKINS 1.                   *)
Less(t) == IF t = 0 THEN 0 ELSE t - 1
disk_timerproc ==
  /\ ints /\ Timer1' = Less(Timer1) /\ Timer2' = Less(Timer2)
  /\ Stat' = Stat \ {"PROTECT", "NODISK"}
  /\ UNCHANGED <<timerVars, CardType, selected, fast, run, answer, card, store, healthy,
                 calls, faults>>

-----------------------------------------------------------------------------
Init == TimerInit /\ MmcInit
Calls == \/ disk_initialize \/ \E op \in Ioctls : disk_ioctl(op)
         \/ \E n \in Counts : \E s \in 0..NSectors-n : disk_read(s, n) \/ disk_write(s, n)
Host == \/ Select \/ Ready \/ NotReady \/ Command \/ Synced
        \/ AwaitToken \/ Received \/ ErrorToken \/ TokenLate
        \/ WaitFree \/ Accepted \/ Refused \/ Stopped \/ SendLate
        \/ EnterIdle \/ ContinueInit \/ Continue \/ Finish
(* Bound: the milliseconds are watched when the calls have been made.      *)
Watched == run.pc = "idle" /\ calls = MaxCalls
Timing == \/ TimerStep
          \/ Watched /\ (timer_reset \/ timer_get_ms \/ TIMER1_COMPA)
Next == \/ Calls \/ Host \/ disk_timerproc \/ CardReady \/ Replug
        \/ Timing /\ UNCHANGED mmcVars
(* The program goes on and its interrupt keeps coming; the card need not   *)
(* do anything.                                                            *)
Spec == Init /\ [][Next]_vars /\ WF_vars(Host) /\ WF_vars(disk_timerproc)
        /\ WF_vars(TimerStep /\ UNCHANGED mmcVars)

-----------------------------------------------------------------------------
(* If no initialization has failed since the first that found the card, a  *)
(* transfer that is reported as done has moved all the sectors asked for,  *)
(* and no sector has got what was meant for another one: not after a lost  *)
(* command, a refused block, a stop that was not heard, or a card put in   *)
(* again.                                                                  *)
Extent(a) == a.sector..a.sector + a.count - 1
Faithful ==
  healthy =>
    /\ \A s \in Sectors : store[s] \in {s, Value(s)}
    /\ answer.res = "OK" /\ answer.op = "read" =>
         answer.buf = [i \in 1..answer.count |-> store[answer.sector + i - 1]]
    /\ answer.res = "OK" /\ answer.op = "write" => \A s \in Extent(answer) : store[s] = Value(s)

(* Every call returns, however long the card stays silent or busy.         *)
CallsReturn == []<>(run.pc = "idle")

(* A card that is not marked as uninitialized has a known kind, which the  *)
(* addresses of its sectors depend on.  It fails: a second initialization  *)
(* that does not succeed clears CardType and leaves Stat as it was.        *)
KindKnown == run.pc = "idle" /\ "NOINIT" \notin Stat => CardType # "none"
=============================================================================
