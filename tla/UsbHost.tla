------------------------------ MODULE UsbHost ------------------------------
(***************************************************************************)
(* The coprocessor's USB host: the enumeration of USB::Task, the transfers *)
(* of Usb.cpp, the gamepad of USBJoystick.cpp and the state it leaves for  *)
(* usb_read_joystick.                                                      *)
(*                                                                         *)
(* usb_update runs to its end before anything else of the coprocessor      *)
(* does, but a transfer takes time: one step below is one token on the bus *)
(* and its outcome.  Between two tokens the clock goes on, the gamepad may *)
(* be unplugged, and the answer to a token, or the acknowledgment of that  *)
(* answer, may be lost.                                                    *)
(*                                                                         *)
(* The time stamps are kept as the time since they were taken, in          *)
(* millis(), and counted up to the deadline they are compared with.  The   *)
(* toggle of endpoint 0 is forced at every use (ctrlData) and left out.    *)
(***************************************************************************)
EXTENDS Integers, FiniteSets

CONSTANTS
  Sticks,         \* raw positions of the stick that occur in reports
  Buttons,        \* the buttons
  NakLimit,       \* USB_NAK_LIMIT
  SettleDelay,    \* USB_SETTLE_DELAY
  SofDelay,       \* |delay| between the bus reset and the first request
  PollInterval,   \* USBJOYSTICK_POLL_INTERVAL
  XferTimeout     \* USB_XFER_TIMEOUT

ASSUME UsbAssumption ==
  /\ Sticks \subseteq 0..255
  /\ NakLimit \in Nat \ {0}
  /\ SettleDelay \in Nat
  /\ SofDelay \in Nat
  /\ PollInterval \in Nat \ {0}
  /\ XferTimeout \in Nat \ {0}

NO_WAIT == 1            \* USB_NAK_NOWAIT
RETRY_LIMIT == 3        \* USB_RETRY_LIMIT
CENTRE == 128           \* _stick_value of a joystick that has sent nothing
AXIS_OFFSET == -127     \* X_AXIS_OFFSET, -UINT8_MAX / 2
INITIAL_X == 127        \* joystick_state.x of usb_init, UINT8_MAX / 2

\* What a poll of the gamepad reads, and how usb.cpp shows it.
Reports == [stick : Sticks, buttons : SUBSET Buttons]
Axis(stick) == stick + AXIS_OFFSET

VARIABLES
  enabled,        \* |usb_enabled|
  vbusState,      \* the bus as busprobe saw it
  state,          \* |usb_task_state|
  usbError,       \* |usb_error|; the state in which enumeration failed
  epinfo,         \* |devtable[1].epinfo|
  busReset,       \* bmBUSRST of rHCTL
  frame,          \* bmFRAMEIRQ of rHIRQ
  peraddr,        \* rPERADDR
  rcvToggle,      \* |ep_record[1].rcvToggle|
  request,        \* the request that usb_update is in; "none" outside
  stage,          \* its stage, the call of dispatchPkt
  naks,           \* |nak_count|
  retries,        \* |retry_count|
  sinceStart,     \* millis_since(initial) in dispatchPkt
  sinceInitial,   \* millis_since(initial) in Task
  sinceRun,       \* millis_since(current_t) in run
  value,          \* |_stick_value|, |_button_value|
  joystick,       \* |joystick_state|
  polled,         \* history: a report has been taken
  device,         \* the gamepad
  genuine,        \* history: it has stayed plugged in since the bus reset
  ahead           \* history: reports taken, less reports it knows were taken

chip == <<vbusState, busReset, frame, peraddr>>
transfer == <<request, stage, naks, retries, sinceStart>>
pad == <<value, joystick, polled>>
link == <<device, genuine, ahead>>
hostVars == <<enabled, chip, state, usbError, epinfo, rcvToggle, transfer,
          sinceInitial, sinceRun, pad, link>>

Hosts == {"FSHOST", "LSHOST"}
Detached == {"INITIALIZE", "WAIT_FOR_DEVICE", "ILLEGAL"}
Enumerating == {"SETTLE", "RESET_DEVICE", "WAIT_RESET_COMPLETE", "WAIT_SOF",
                "GET_DEVICE_DESCRIPTOR_SIZE", "ADDRESSING"}
States == Detached \cup Enumerating \cup {"CONFIGURING", "RUNNING", "ERROR"}
Requests == {"descriptor", "address", "configuration", "protocol", "report"}

\* A gamepad that was just plugged in or reset over the bus.
NewDevice == [plugged |-> TRUE, addr |-> 0, configured |-> FALSE, boot |-> FALSE,
          toggle |-> 0]
Devices == [plugged : BOOLEAN, addr : {0, 1}, configured : BOOLEAN,
            boot : BOOLEAN, toggle : {0, 1}]

HostTypeOK ==
  /\ enabled \in BOOLEAN
  /\ vbusState \in Hosts \cup {"SE0", "SE1"}
  /\ state \in States
  /\ usbError \in {"none", "GET_DEVICE_DESCRIPTOR_SIZE", "ADDRESSING", "NO_ENTRY"}
  /\ epinfo \in {"NULL", "dev0ep", "ep_record"}
  /\ busReset \in BOOLEAN
  /\ frame \in BOOLEAN
  /\ peraddr \in {0, 1}
  /\ rcvToggle \in {0, 1}
  /\ request \in Requests \cup {"none"}
  /\ stage \in {"none", "setup", "data", "status"}
  /\ naks \in 0..(NakLimit - 1)
  /\ retries \in 0..(RETRY_LIMIT - 1)
  /\ sinceStart \in 0..XferTimeout
  /\ sinceInitial \in Nat
  /\ sinceRun \in 0..PollInterval
  /\ value \in [stick : Sticks \cup {CENTRE}, buttons : SUBSET Buttons]
  /\ joystick \in [x : Int, buttons : SUBSET Buttons]
  /\ polled \in BOOLEAN
  /\ device \in Devices
  /\ genuine \in BOOLEAN
  /\ ahead \in Int

\* What busprobe finds; SE0 also stays if the chip's reset failed.
Probed(plugged) == {"SE0", "SE1"} \cup (IF plugged THEN Hosts ELSE {})

(***************************************************************************)
(* Power-on: the constructors, usb_init and MAX3421E::powerOn.  The        *)
(* coprocessor may have been reset alone, so a gamepad that is plugged in  *)
(* may be in any state.                                                    *)
(***************************************************************************)
HostInit ==
  /\ enabled \in BOOLEAN
  /\ device \in Devices
  /\ vbusState \in Probed(device.plugged)
  /\ ~enabled => vbusState = "SE0"
  /\ state = "INITIALIZE"
  /\ usbError = "none"
  /\ epinfo = "NULL"
  /\ busReset = FALSE
  /\ frame = FALSE
  /\ peraddr = 0
  /\ rcvToggle = 0
  /\ request = "none" /\ stage = "none"
  /\ naks = 0 /\ retries = 0 /\ sinceStart = 0
  /\ sinceInitial = 0
  /\ sinceRun = PollInterval
  /\ value = [stick |-> CENTRE, buttons |-> {}]
  /\ joystick = [x |-> IF enabled THEN INITIAL_X ELSE 0, buttons |-> {}]
  /\ polled = FALSE
  /\ genuine = FALSE
  /\ ahead = 0

-----------------------------------------------------------------------------
\* One call of USBJoystick::run: between two of them PollInterval passes.

RunDue ==
  /\ enabled
  /\ request = "none"
  /\ sinceRun = PollInterval

\* The end of run.
RunDone ==
  /\ request' = "none" /\ stage' = "none"
  /\ naks' = 0 /\ retries' = 0 /\ sinceStart' = 0
  /\ sinceRun' = 0

\* The end of a run in which no request was made.
RanOnly == /\ sinceRun' = 0
           /\ UNCHANGED <<transfer, pad, link, enabled, vbusState, peraddr,
                          rcvToggle>>

\* dispatchPkt is called: it counts NAKs and timeouts, and the time, anew.
Dispatch(s) == /\ stage' = s
               /\ naks' = 0 /\ retries' = 0 /\ sinceStart' = 0

Ask(r, addr) == /\ request' = r
                /\ peraddr' = addr
                /\ Dispatch("setup")

\* The first switch of Task: the bus decides about being detached.
Noticed ==
  CASE vbusState = "SE1" -> "ILLEGAL"
    [] vbusState = "SE0" -> IF state \in Detached THEN state ELSE "INITIALIZE"
    [] vbusState \in Hosts -> IF state \in Detached THEN "SETTLE" ELSE state

Attach ==
  /\ RunDue
  /\ vbusState \in Hosts /\ state \in Detached
  /\ state' = Noticed
  /\ sinceInitial' = 0
  /\ RanOnly
  /\ UNCHANGED <<usbError, epinfo, busReset, frame>>

InitializeTables ==
  /\ RunDue
  /\ Noticed = "INITIALIZE"
  /\ epinfo' = "NULL"
  /\ state' = "WAIT_FOR_DEVICE"
  /\ RanOnly
  /\ UNCHANGED <<usbError, busReset, frame, sinceInitial>>

\* "just sit here"
Sit ==
  /\ RunDue
  /\ Noticed \in {"WAIT_FOR_DEVICE", "ILLEGAL", "ERROR"}
  /\ state' = Noticed
  /\ RanOnly
  /\ UNCHANGED <<usbError, epinfo, busReset, frame, sinceInitial>>

\* A Task that takes the deadline anew in every run.
SettleRestarts ==
  /\ RunDue
  /\ state = "SETTLE"
  /\ state' = IF sinceInitial > SettleDelay THEN "RESET_DEVICE" ELSE state
  /\ sinceInitial' = 0
  /\ RanOnly
  /\ UNCHANGED <<usbError, epinfo, busReset, frame>>

Settle ==
  /\ RunDue
  /\ state = "SETTLE"
  /\ state' = IF sinceInitial > SettleDelay THEN "RESET_DEVICE" ELSE state
  /\ RanOnly
  /\ UNCHANGED <<usbError, epinfo, busReset, frame, sinceInitial>>

ResetDevice ==
  /\ RunDue
  /\ state = "RESET_DEVICE"
  /\ busReset' = TRUE
  /\ state' = "WAIT_RESET_COMPLETE"
  /\ RanOnly
  /\ UNCHANGED <<usbError, epinfo, frame, sinceInitial>>

AwaitReset ==
  /\ RunDue
  /\ state = "WAIT_RESET_COMPLETE"
  /\ IF busReset
     THEN UNCHANGED <<state, sinceInitial>>
     ELSE state' = "WAIT_SOF" /\ sinceInitial' = 0
  /\ RanOnly
  /\ UNCHANGED <<usbError, epinfo, busReset, frame>>

\* Nothing clears bmFRAMEIRQ: a frame from before the reset will do.
AwaitSof ==
  /\ RunDue
  /\ state = "WAIT_SOF"
  /\ state' = IF frame /\ sinceInitial > SofDelay
              THEN "GET_DEVICE_DESCRIPTOR_SIZE" ELSE state
  /\ RanOnly
  /\ UNCHANGED <<usbError, epinfo, busReset, frame, sinceInitial>>

AskDescriptor ==
  /\ RunDue
  /\ state = "GET_DEVICE_DESCRIPTOR_SIZE"
  /\ Ask("descriptor", 0)
  /\ UNCHANGED <<enabled, vbusState, busReset, frame, state, usbError, epinfo,
                 rcvToggle, sinceInitial, sinceRun, pad, link>>

\* With USB_NUMDEVICES = 2 there is one address to give away.
AskAddress ==
  /\ RunDue
  /\ state = "ADDRESSING"
  /\ IF epinfo = "NULL"
     THEN /\ epinfo' = "dev0ep"
          /\ Ask("address", 0)
          /\ UNCHANGED <<state, usbError, sinceRun>>
     ELSE /\ usbError' = "NO_ENTRY"
          /\ state' = "ERROR"
          /\ sinceRun' = 0
          /\ UNCHANGED <<epinfo, peraddr, transfer>>
  /\ UNCHANGED <<enabled, vbusState, busReset, frame, rcvToggle, sinceInitial,
                 pad, link>>

\* device_init up to its first request.
DeviceInit ==
  /\ epinfo' = "ep_record"
  /\ rcvToggle' = 0
  /\ Ask("configuration", 1)

\* A run in CONFIGURING: device_init is tried again until it succeeds.
Configure ==
  /\ RunDue
  /\ state = "CONFIGURING"
  /\ DeviceInit
  /\ UNCHANGED <<enabled, vbusState, busReset, frame, state, usbError,
                 sinceInitial, sinceRun, pad, link>>

\* poll takes the address from whatever request came last.
Poll ==
  /\ RunDue
  /\ state = "RUNNING"
  /\ request' = "report"
  /\ Dispatch("data")
  /\ UNCHANGED <<enabled, chip, state, usbError, epinfo, rcvToggle,
                 sinceInitial, sinceRun, pad, link>>

-----------------------------------------------------------------------------
\* The tokens that dispatchPkt sends, and how they end.

\* The device hears the token: tokens go to the address in rPERADDR.
Hears == device.plugged /\ device.addr = peraddr

InTime == sinceStart < XferTimeout

\* A device_init that does not look at the result of setProto.
FailedRuns ==
  /\ state' = IF request \in {"descriptor", "address"} THEN "ERROR"
              ELSE IF request = "protocol" THEN "RUNNING" ELSE state
  /\ RunDone
  /\ UNCHANGED <<usbError, epinfo, peraddr, rcvToggle, pad>>

\* A request failed.  Only the enumeration remembers it; device_init is tried
\* again in the next run, and a report that did not come is not missed.
Failed ==
  /\ IF request \in {"descriptor", "address"}
     THEN /\ state' = "ERROR"
          /\ usbError' = IF request = "descriptor"
                         THEN "GET_DEVICE_DESCRIPTOR_SIZE" ELSE "ADDRESSING"
     ELSE UNCHANGED <<state, usbError>>
  /\ RunDone
  /\ UNCHANGED <<epinfo, peraddr, rcvToggle, pad>>

\* Sent again.
TryAgain(nak, silence) ==
  /\ naks' = naks + nak
  /\ retries' = retries + silence
  /\ UNCHANGED <<request, stage, sinceStart, sinceRun, state, usbError, epinfo,
                 peraddr, rcvToggle, pad>>

\* A dispatchPkt that looks at the limit before it counts.
NakLate ==
  /\ request # "none" /\ stage # "setup"
  /\ Hears /\ InTime
  /\ IF naks = (IF request = "report" THEN NO_WAIT ELSE NakLimit)
     THEN Failed ELSE TryAgain(1, 0)
  /\ UNCHANGED <<enabled, vbusState, busReset, frame, sinceInitial, link>>

\* A device never answers a setup packet with NAK.
Nak ==
  /\ request # "none" /\ stage # "setup"
  /\ Hears /\ InTime
  /\ IF naks + 1 = (IF request = "report" THEN NO_WAIT ELSE NakLimit)
     THEN Failed ELSE TryAgain(1, 0)
  /\ UNCHANGED <<enabled, vbusState, busReset, frame, sinceInitial, link>>

\* What a request does to the device when its setup packet, or for an address
\* the handshake of its status stage, has arrived.
Effect(r) ==
  CASE r = "address"       -> [device EXCEPT !.addr = 1]
    [] r = "configuration" -> [device EXCEPT !.configured = TRUE, !.toggle = 0]
    [] r = "protocol"      -> [device EXCEPT !.boot = TRUE]
    [] OTHER               -> device

Obeys(arrived) ==
  /\ device' = IF arrived /\ stage = (IF request = "address" THEN "status" ELSE "setup")
               THEN Effect(request) ELSE device
  /\ ahead' = IF arrived /\ stage = "setup" /\ request = "configuration"
              THEN 0 ELSE ahead
  /\ UNCHANGED genuine

\* hrTIMEOUT: nothing came back, although a setup packet may have arrived.
Silence ==
  /\ request # "none" /\ InTime
  /\ IF retries + 1 = RETRY_LIMIT THEN Failed ELSE TryAgain(0, 1)
  /\ \E arrived \in BOOLEAN : /\ arrived => Hears /\ stage = "setup"
                              /\ Obeys(arrived)
  /\ UNCHANGED <<enabled, vbusState, busReset, frame, sinceInitial>>

\* Any other result is passed on at once: a stall, a bus error.
OtherResult ==
  /\ request # "none" /\ InTime
  /\ Failed
  /\ UNCHANGED <<enabled, vbusState, busReset, frame, sinceInitial, link>>

\* A dispatchPkt that waits for the completion without a deadline.
ExpireOnlyBetween ==
  /\ request # "none" /\ naks + retries > 0
  /\ ~InTime
  /\ Failed
  /\ UNCHANGED <<enabled, vbusState, busReset, frame, sinceInitial, link>>

\* The time is up, be it for a completion that does not come or for one more
\* token after NAKs and timeouts.
Expire ==
  /\ request # "none"
  /\ ~InTime
  /\ Failed
  /\ UNCHANGED <<enabled, vbusState, busReset, frame, sinceInitial, link>>

\* A setup packet or the data of the descriptor is acknowledged: the next stage.
NextStage ==
  /\ request \in Requests \ {"report"} /\ stage # "status"
  /\ Hears /\ InTime
  /\ Dispatch(IF stage = "setup" /\ request = "descriptor" THEN "data" ELSE "status")
  /\ Obeys(TRUE)
  /\ UNCHANGED <<enabled, chip, state, usbError, epinfo, rcvToggle, request,
                 sinceInitial, sinceRun, pad>>

\* The status stage of a request ends well; the device of a new address has
\* taken it only if it gets the acknowledgment.  device_init goes on from
\* setAddr in the same run, and from setConf to setProto.
StatusDone ==
  \/ /\ request = "descriptor"
     /\ state' = "ADDRESSING"
     /\ RunDone
     /\ UNCHANGED <<epinfo, peraddr, rcvToggle>>
  \/ /\ request = "address"
     /\ state' = "CONFIGURING"
     /\ DeviceInit
     /\ UNCHANGED sinceRun
  \/ /\ request = "configuration"
     /\ Ask("protocol", 1)
     /\ UNCHANGED <<state, epinfo, rcvToggle, sinceRun>>
  \/ /\ request = "protocol"
     /\ state' = "RUNNING"
     /\ RunDone
     /\ UNCHANGED <<epinfo, peraddr, rcvToggle>>

Complete ==
  /\ stage = "status"
  /\ Hears /\ InTime
  /\ StatusDone
  /\ \E arrived \in BOOLEAN : Obeys(arrived)
  /\ UNCHANGED <<enabled, vbusState, busReset, frame, usbError, sinceInitial, pad>>

\* A callback that only sets bits.
ShownPressed(buttons, changed, now) == buttons \cup (changed \cap now)

\* joystick_update_button for every button that changed.
Shown(buttons, changed, now) == (buttons \ changed) \cup (changed \cap now)

\* The callbacks of poll: only what differs from the last report is passed on.
NewValues(report) ==
  LET changed == (value.buttons \ report.buttons) \cup (report.buttons \ value.buttons)
  IN /\ joystick' =
          [x |-> IF report.stick # value.stick THEN Axis(report.stick) ELSE joystick.x,
           buttons |-> Shown(joystick.buttons, changed, report.buttons)]
     /\ value' = report
     /\ polled' = TRUE

\* An inTransfer that does not keep the toggle.
SaveToggleNot == rcvToggle' = rcvToggle

\* The end of inTransfer: the toggle that the chip has reached is kept.
SaveToggle == rcvToggle' = 1 - rcvToggle

\* A report arrives with the toggle that is expected: it is taken.  The device
\* goes on to its next report if the chip's acknowledgment gets through.
TakeReport ==
  /\ request = "report"
  /\ Hears /\ device.configured /\ InTime
  /\ device.toggle = rcvToggle
  /\ SaveToggle
  /\ \E report \in Reports : NewValues(report)
  /\ \E acked \in BOOLEAN :
       /\ device' = [device EXCEPT !.toggle = IF acked THEN 1 - @ ELSE @]
       /\ ahead' = IF acked THEN ahead ELSE ahead + 1
  /\ RunDone
  /\ UNCHANGED <<enabled, chip, state, usbError, epinfo, sinceInitial, genuine>>

\* A report with the other toggle is one the chip has acknowledged before.  It
\* is acknowledged again and dropped: inTransfer finds no data, or an error.
DropReport ==
  /\ request = "report"
  /\ Hears /\ device.configured /\ InTime
  /\ device.toggle # rcvToggle
  /\ Failed
  /\ \E acked \in BOOLEAN :
       /\ device' = [device EXCEPT !.toggle = IF acked THEN 1 - @ ELSE @]
       /\ ahead' = IF acked THEN ahead - 1 ELSE ahead
  /\ UNCHANGED <<enabled, vbusState, busReset, frame, sinceInitial, genuine>>

-----------------------------------------------------------------------------
\* The clock, the chip and the gamepad (external).

Tick ==
  /\ IF request = "none"
     THEN /\ sinceRun' = IF sinceRun < PollInterval THEN sinceRun + 1 ELSE sinceRun
          /\ UNCHANGED sinceStart
     ELSE /\ sinceStart' = IF InTime THEN sinceStart + 1 ELSE sinceStart
          /\ UNCHANGED sinceRun
  /\ sinceInitial' =
       IF \/ state = "SETTLE" /\ sinceInitial <= SettleDelay
          \/ state = "WAIT_SOF" /\ sinceInitial <= SofDelay
       THEN sinceInitial + 1 ELSE sinceInitial
  /\ UNCHANGED <<enabled, chip, state, usbError, epinfo, rcvToggle, request,
                 stage, naks, retries, pad, link>>

\* The chip ends the bus reset, which a gamepad that is plugged in obeys.
ResetComplete ==
  /\ busReset
  /\ busReset' = FALSE
  /\ device' = IF device.plugged THEN NewDevice ELSE device
  /\ genuine' = device.plugged
  /\ UNCHANGED <<enabled, vbusState, frame, peraddr, state, usbError, epinfo,
                 rcvToggle, transfer, sinceInitial, sinceRun, pad, ahead>>

\* Both host modes generate frames.
Frame ==
  /\ vbusState \in Hosts /\ ~busReset
  /\ frame' = TRUE
  /\ UNCHANGED <<enabled, vbusState, busReset, peraddr, state, usbError, epinfo,
                 rcvToggle, transfer, sinceInitial, sinceRun, pad, link>>

Unplug ==
  /\ device.plugged
  /\ device' = [device EXCEPT !.plugged = FALSE]
  /\ genuine' = FALSE
  /\ UNCHANGED <<enabled, chip, state, usbError, epinfo, rcvToggle, transfer,
                 sinceInitial, sinceRun, pad, ahead>>

Plug ==
  /\ ~device.plugged
  /\ device' = NewDevice
  /\ UNCHANGED <<enabled, chip, state, usbError, epinfo, rcvToggle, transfer,
                 sinceInitial, sinceRun, pad, genuine, ahead>>

Task ==
  \/ Attach \/ InitializeTables \/ Sit \/ Settle \/ ResetDevice
  \/ AwaitReset \/ AwaitSof \/ AskDescriptor \/ AskAddress
Run == Task \/ Configure \/ Poll
Token ==
  \/ Nak \/ Silence \/ OtherResult \/ Expire \/ NextStage \/ Complete
  \/ TakeReport \/ DropReport

HostNext == Run \/ Token \/ Tick \/ ResetComplete \/ Frame \/ Unplug \/ Plug

HostSpec == HostInit /\ [][HostNext]_hostVars

(***************************************************************************)
(* Fairness.  Both rpc_idle and the boot menu call usb_update over and     *)
(* over, dispatchPkt looks at the clock in both of its loops, the clock is *)
(* an interrupt, and the chip ends its bus reset and counts its frames.    *)
(* Nothing is assumed of the gamepad and the tokens: they may never end.   *)
(***************************************************************************)
FairHostSpec ==
  /\ HostSpec
  /\ WF_hostVars(Run) /\ WF_hostVars(Expire) /\ WF_hostVars(Tick)
  /\ WF_hostVars(ResetComplete) /\ WF_hostVars(Frame)

-----------------------------------------------------------------------------
(* Properties.                                                              *)

\* USB::Task and USBJoystick::device_init: a gamepad is polled only after it
\* was reset and has taken its address, its configuration and the boot
\* protocol, whichever of the tokens or acknowledgments in between were lost
\* and however often device_init was repeated; unless it was replaced, which
\* nobody notices.  The polls go to its address although poll does not set it.
PolledDeviceConfigured ==
  state = "RUNNING" =>
    /\ peraddr = 1
    /\ genuine => device.addr = 1 /\ device.configured /\ device.boot

\* USB::inTransfer: the toggles that it keeps from poll to poll make it take
\* every report of the gamepad exactly once, in order, whatever is lost: it is
\* at most one ahead, of a gamepad that has not got the acknowledgment.
InOrder == ahead \in {0, 1}

\* joystick_state, which is only told of changes, agrees with the last report:
\* all of its buttons, and its stick once it has left the centre.
JoystickFollows ==
  enabled =>
    /\ joystick.buttons = value.buttons
    /\ \/ joystick.x = Axis(value.stick)
       \/ joystick.x = INITIAL_X /\ value.stick = CENTRE

\* "Last known joystick state." (usb.cpp:40): after a report, the state is
\* that of the report.
LastKnown ==
  polled => joystick = [x |-> Axis(value.stick), buttons |-> value.buttons]

\* Every usb_update returns, in the middle of whatever request and with a
\* gamepad that answers nothing, NAKs on or is unplugged: the server gets to
\* read its client's command again.
UpdateReturns == request # "none" ~> request = "none"

\* USB::Task: the enumeration of a gamepad ends, at the latest in ERROR.
EnumerationEnds ==
  enabled /\ vbusState \in Hosts ~> state \in {"CONFIGURING", "RUNNING", "ERROR"}
=============================================================================
