---------------------------- MODULE DriverProofs ----------------------------
(***************************************************************************)
(* Of the drivers of the coprocessor.                                      *)
(*                                                                         *)
(* UsbHost, for every NAK limit, every deadline, any buttons and positions *)
(* of the stick, and any loss of tokens and acknowledgments, with gamepads *)
(* plugged in and pulled out at any time: only a configured gamepad is     *)
(* polled, its reports are taken once and in order, and the joystick shows *)
(* the last of them.                                                       *)
(*                                                                         *)
(* The card driver and the milliseconds beside it, for a card of any size, *)
(* blocks and bytes of any size, any number of calls and of faults: the    *)
(* counter of Timer is never read or cleared halfway, and a transfer of    *)
(* Mmc that is reported as done has moved what it was asked to move.       *)
(***************************************************************************)
EXTENDS UsbHost, Mmc, TLAPS

(***************************************************************************)
(* USB: the inductive invariant.  Which requests go with which state, and  *)
(* where they are addressed.                                               *)
(***************************************************************************)
RightlyAddressed ==
  /\ state \notin Detached => vbusState \in Hosts
  /\ busReset => state = "WAIT_RESET_COMPLETE"
  /\ request = "descriptor" => state = "GET_DEVICE_DESCRIPTOR_SIZE"
  /\ request = "address" => state = "ADDRESSING"
  /\ request \in {"configuration", "protocol"} =>
       state = "CONFIGURING" /\ stage \in {"setup", "status"}
  /\ request = "report" => state = "RUNNING" /\ naks = 0
  /\ state \in {"CONFIGURING", "RUNNING"} => peraddr = 1

\* What a gamepad that has not been replaced has gone through by then.
Prepared ==
  genuine =>
    /\ device.plugged
    /\ \/ request = "configuration" /\ stage = "status"
       \/ request = "protocol"
       \/ state = "RUNNING"
       => device.addr = 1 /\ device.configured
    /\ \/ request = "protocol" /\ stage = "status"
       \/ state = "RUNNING"
       => device.boot

\* The toggles of host and gamepad differ just while a report was taken whose
\* acknowledgment the gamepad has not got.
Alternating ==
  /\ ahead \in {0, 1}
  /\ state # "RUNNING" => ahead = 0 /\ rcvToggle = 0
  /\ /\ device.plugged
     /\ ~busReset
     /\ state \in {"WAIT_RESET_COMPLETE", "WAIT_SOF", "GET_DEVICE_DESCRIPTOR_SIZE",
                   "ADDRESSING", "CONFIGURING"}
     => device.toggle = 0
  /\ /\ device.plugged
     /\ state = "RUNNING"
     /\ device.addr = 1
     => device.toggle = IF ahead = 0 THEN rcvToggle ELSE 1 - rcvToggle

HostInv == HostTypeOK /\ RightlyAddressed /\ Prepared /\ Alternating /\ JoystickFollows

\* Gamepads.
LEMMA GamepadTypes ==
  ASSUME device \in Devices
  PROVE  /\ NewDevice \in Devices
         /\ \A r \in Requests : Effect(r) \in Devices
         /\ [device EXCEPT !.plugged = FALSE] \in Devices
<1>1. NewDevice \in Devices
  BY DEF NewDevice, Devices
<1>2. ASSUME NEW r \in Requests  PROVE  Effect(r) \in Devices
  BY <1>2 DEF Effect, Devices
<1>3. [device EXCEPT !.plugged = FALSE] \in Devices
  BY DEF Devices
<1> QED
  BY <1>1, <1>2, <1>3

\* What a request does to the gamepad: it stays where it is, and only what the
\* request is for may change.
LEMMA Effects ==
  ASSUME HostTypeOK, NEW r \in Requests
  PROVE  /\ Effect(r).plugged = device.plugged
         /\ Effect(r).addr = IF r = "address" THEN 1 ELSE device.addr
         /\ Effect(r).configured = (device.configured \/ r = "configuration")
         /\ Effect(r).boot = (device.boot \/ r = "protocol")
         /\ Effect(r).toggle = IF r = "configuration" THEN 0 ELSE device.toggle
BY DEF HostTypeOK, Devices, Effect, Requests

\* Types.
LEMMA TypeStep ==
  ASSUME HostTypeOK, RightlyAddressed, [HostNext]_hostVars
  PROVE  HostTypeOK'
<1> USE UsbAssumption DEF HostTypeOK, RightlyAddressed, Devices, Reports, Hosts,
        Detached, States, Enumerating, Requests, NO_WAIT, RETRY_LIMIT,
        AXIS_OFFSET, Axis, Shown
<1>1. CASE Attach
  BY <1>1 DEF Attach, RunDue, RanOnly, Noticed, hostVars, chip, transfer, pad, link
<1>2. CASE InitializeTables
  BY <1>2 DEF InitializeTables, RunDue, RanOnly, Noticed, hostVars, chip,
     transfer, pad, link
<1>3. CASE Sit
  BY <1>3 DEF Sit, RunDue, RanOnly, Noticed, hostVars, chip, transfer, pad, link
<1>4. CASE Settle
  BY <1>4 DEF Settle, RunDue, RanOnly, hostVars, chip, transfer, pad, link
<1>5. CASE ResetDevice
  BY <1>5 DEF ResetDevice, RunDue, RanOnly, hostVars, chip, transfer, pad, link
<1>6. CASE AwaitReset
  BY <1>6 DEF AwaitReset, RunDue, RanOnly, hostVars, chip, transfer, pad, link
<1>7. CASE AwaitSof
  BY <1>7 DEF AwaitSof, RunDue, RanOnly, hostVars, chip, transfer, pad, link
<1>8. CASE AskDescriptor
  BY <1>8 DEF AskDescriptor, RunDue, Ask, Dispatch, hostVars, chip, transfer, pad,
     link
<1>9. CASE AskAddress
  BY <1>9 DEF AskAddress, RunDue, Ask, Dispatch, hostVars, chip, transfer, pad, link
<1>10. CASE Configure
  BY <1>10 DEF Configure, RunDue, DeviceInit, Ask, Dispatch, hostVars, chip,
     transfer, pad, link
<1>11. CASE Poll
  BY <1>11 DEF Poll, RunDue, Dispatch, hostVars, chip, transfer, pad, link
<1>12. CASE Nak
  BY <1>12 DEF Nak, Hears, InTime, Failed, TryAgain, RunDone, hostVars, chip,
     transfer, pad, link
<1>13. CASE Silence
  <2>1. device' \in Devices /\ ahead' \in Int
    BY <1>13, GamepadTypes DEF Silence, Obeys
  <2>2. /\ naks' \in 0..(NakLimit - 1) /\ retries' \in 0..(RETRY_LIMIT - 1)
        /\ sinceStart' \in 0..XferTimeout /\ sinceRun' \in 0..PollInterval
    BY <1>13 DEF Silence, Failed, TryAgain, RunDone
  <2>3. /\ state' \in States /\ request' \in Requests \cup {"none"}
        /\ stage' \in {"none", "setup", "data", "status"}
        /\ usbError' \in {"none", "GET_DEVICE_DESCRIPTOR_SIZE", "ADDRESSING", "NO_ENTRY"}
    BY <1>13 DEF Silence, Failed, TryAgain, RunDone
  <2>4. UNCHANGED <<enabled, vbusState, busReset, frame, sinceInitial, epinfo,
                    peraddr, rcvToggle, value, joystick, polled, genuine>>
    BY <1>13 DEF Silence, Failed, TryAgain, Obeys, pad
  <2> QED
    BY <2>1, <2>2, <2>3, <2>4
<1>14. CASE OtherResult
  BY <1>14 DEF OtherResult, Failed, RunDone, InTime, hostVars, chip, transfer, pad, link
<1>15. CASE Expire
  BY <1>15 DEF Expire, Failed, RunDone, InTime, hostVars, chip, transfer, pad, link
<1>16. CASE NextStage
  <2>1. device' \in Devices /\ ahead' \in Int
    BY <1>16, GamepadTypes DEF NextStage, Obeys
  <2> QED
    BY <1>16, <2>1 DEF NextStage, Dispatch, Obeys, chip, pad
<1>17. CASE Complete
  BY <1>17 DEF Complete, Hears, InTime, StatusDone, RunDone, DeviceInit, Ask,
     Dispatch, Obeys, Effect, hostVars, chip, transfer, pad, link
<1>18. CASE TakeReport
  BY <1>18 DEF TakeReport, Hears, InTime, SaveToggle, NewValues, RunDone,
     hostVars, chip, transfer, pad, link
<1>19. CASE DropReport
  BY <1>19 DEF DropReport, Hears, InTime, Failed, RunDone, hostVars, chip,
     transfer, pad, link
<1>20. CASE Tick
  BY <1>20 DEF Tick, InTime, hostVars, chip, transfer, pad, link
<1>21. CASE ResetComplete
  <2>1. device' \in Devices /\ genuine' \in BOOLEAN
    BY <1>21, GamepadTypes DEF ResetComplete
  <2>2. /\ busReset' \in BOOLEAN
        /\ UNCHANGED <<enabled, vbusState, frame, peraddr, state, usbError,
                       epinfo, rcvToggle, request, stage, naks, retries,
                       sinceStart, sinceInitial, sinceRun, value, joystick,
                       polled, ahead>>
    BY <1>21 DEF ResetComplete, transfer, pad
  <2> QED
    BY <2>1, <2>2
<1>22. CASE Frame
  BY <1>22 DEF Frame, hostVars, chip, transfer, pad, link
<1>23. CASE Unplug
  <2>1. device' \in Devices /\ genuine' \in BOOLEAN
    BY <1>23, GamepadTypes DEF Unplug
  <2> QED
    BY <1>23, <2>1 DEF Unplug, chip, transfer, pad
<1>24. CASE Plug
  BY <1>24 DEF Plug, NewDevice, hostVars, chip, transfer, pad, link
<1>25. CASE UNCHANGED hostVars
  BY <1>25 DEF hostVars, chip, transfer, pad, link
<1> QED
  BY <1>1, <1>2, <1>3, <1>4, <1>5, <1>6, <1>7, <1>8, <1>9, <1>10, <1>11,
     <1>12, <1>13, <1>14, <1>15, <1>16, <1>17, <1>18, <1>19, <1>20, <1>21,
     <1>22, <1>23, <1>24, <1>25 DEF HostNext, Run, Task, Token

\* States and requests.
LEMMA AddressedStep ==
  ASSUME HostTypeOK, RightlyAddressed, [HostNext]_hostVars
  PROVE  RightlyAddressed'
<1> USE UsbAssumption DEF HostTypeOK, RightlyAddressed, Hosts, Detached, States,
        Enumerating, Requests, NO_WAIT
<1>1. CASE Attach
  BY <1>1 DEF Attach, RunDue, RanOnly, Noticed, hostVars, chip, transfer, pad, link
<1>2. CASE InitializeTables
  BY <1>2 DEF InitializeTables, RunDue, RanOnly, Noticed, hostVars, chip,
     transfer, pad, link
<1>3. CASE Sit
  BY <1>3 DEF Sit, RunDue, RanOnly, Noticed, hostVars, chip, transfer, pad, link
<1>4. CASE Settle
  BY <1>4 DEF Settle, RunDue, RanOnly, hostVars, chip, transfer, pad, link
<1>5. CASE ResetDevice
  BY <1>5 DEF ResetDevice, RunDue, RanOnly, hostVars, chip, transfer, pad, link
<1>6. CASE AwaitReset
  BY <1>6 DEF AwaitReset, RunDue, RanOnly, hostVars, chip, transfer, pad, link
<1>7. CASE AwaitSof
  BY <1>7 DEF AwaitSof, RunDue, RanOnly, hostVars, chip, transfer, pad, link
<1>8. CASE AskDescriptor
  BY <1>8 DEF AskDescriptor, RunDue, Ask, Dispatch, hostVars, chip, transfer, pad,
     link
<1>9. CASE AskAddress
  BY <1>9 DEF AskAddress, RunDue, Ask, Dispatch, hostVars, chip, transfer, pad, link
<1>10. CASE Configure
  BY <1>10 DEF Configure, RunDue, DeviceInit, Ask, Dispatch, hostVars, chip,
     transfer, pad, link
<1>11. CASE Poll
  BY <1>11 DEF Poll, RunDue, Dispatch, hostVars, chip, transfer, pad, link
<1>12. CASE Nak
  BY <1>12 DEF Nak, Hears, InTime, Failed, TryAgain, RunDone, hostVars, chip,
     transfer, pad, link
<1>13. CASE Silence
  BY <1>13 DEF Silence, Hears, InTime, Failed, TryAgain, RunDone, Obeys, Effect,
     hostVars, chip, transfer, pad, link
<1>14. CASE OtherResult
  BY <1>14 DEF OtherResult, Failed, RunDone, InTime, hostVars, chip, transfer, pad, link
<1>15. CASE Expire
  BY <1>15 DEF Expire, Failed, RunDone, InTime, hostVars, chip, transfer, pad, link
<1>16. CASE NextStage
  BY <1>16 DEF NextStage, Hears, InTime, Dispatch, Obeys, Effect, hostVars, chip,
     transfer, pad, link
<1>17. CASE Complete
  BY <1>17 DEF Complete, Hears, InTime, StatusDone, RunDone, DeviceInit, Ask,
     Dispatch, Obeys, Effect, hostVars, chip, transfer, pad, link
<1>18. CASE TakeReport
  BY <1>18 DEF TakeReport, Hears, InTime, SaveToggle, NewValues, RunDone,
     hostVars, chip, transfer, pad, link
<1>19. CASE DropReport
  BY <1>19 DEF DropReport, Hears, InTime, Failed, RunDone, hostVars, chip,
     transfer, pad, link
<1>20. CASE Tick
  BY <1>20 DEF Tick, InTime, hostVars, chip, transfer, pad, link
<1>21. CASE ResetComplete
  BY <1>21 DEF ResetComplete, NewDevice, hostVars, chip, transfer, pad, link
<1>22. CASE Frame
  BY <1>22 DEF Frame, hostVars, chip, transfer, pad, link
<1>23. CASE Unplug
  BY <1>23 DEF Unplug, hostVars, chip, transfer, pad, link
<1>24. CASE Plug
  BY <1>24 DEF Plug, NewDevice, hostVars, chip, transfer, pad, link
<1>25. CASE UNCHANGED hostVars
  BY <1>25 DEF hostVars, chip, transfer, pad, link
<1> QED
  BY <1>1, <1>2, <1>3, <1>4, <1>5, <1>6, <1>7, <1>8, <1>9, <1>10, <1>11,
     <1>12, <1>13, <1>14, <1>15, <1>16, <1>17, <1>18, <1>19, <1>20, <1>21,
     <1>22, <1>23, <1>24, <1>25 DEF HostNext, Run, Task, Token

\* The gamepad.
LEMMA PreparedStep ==
  ASSUME HostTypeOK, RightlyAddressed, Prepared, [HostNext]_hostVars
  PROVE  Prepared'
<1> USE UsbAssumption DEF HostTypeOK, RightlyAddressed, Prepared, Devices, Detached,
        Hosts, Requests
<1>1. CASE Attach
  BY <1>1 DEF Attach, RunDue, RanOnly, Noticed, hostVars, chip, transfer, pad, link
<1>2. CASE InitializeTables
  BY <1>2 DEF InitializeTables, RunDue, RanOnly, Noticed, hostVars, chip,
     transfer, pad, link
<1>3. CASE Sit
  BY <1>3 DEF Sit, RunDue, RanOnly, Noticed, hostVars, chip, transfer, pad, link
<1>4. CASE Settle
  BY <1>4 DEF Settle, RunDue, RanOnly, hostVars, chip, transfer, pad, link
<1>5. CASE ResetDevice
  BY <1>5 DEF ResetDevice, RunDue, RanOnly, hostVars, chip, transfer, pad, link
<1>6. CASE AwaitReset
  BY <1>6 DEF AwaitReset, RunDue, RanOnly, hostVars, chip, transfer, pad, link
<1>7. CASE AwaitSof
  BY <1>7 DEF AwaitSof, RunDue, RanOnly, hostVars, chip, transfer, pad, link
<1>8. CASE AskDescriptor
  BY <1>8 DEF AskDescriptor, RunDue, Ask, Dispatch, hostVars, chip, transfer, pad,
     link
<1>9. CASE AskAddress
  BY <1>9 DEF AskAddress, RunDue, Ask, Dispatch, hostVars, chip, transfer, pad, link
<1>10. CASE Configure
  BY <1>10 DEF Configure, RunDue, DeviceInit, Ask, Dispatch, hostVars, chip,
     transfer, pad, link
<1>11. CASE Poll
  BY <1>11 DEF Poll, RunDue, Dispatch, hostVars, chip, transfer, pad, link
<1>12. CASE Nak
  BY <1>12 DEF Nak, Hears, InTime, Failed, TryAgain, RunDone, hostVars, chip,
     transfer, pad, link
<1>13. CASE Silence
  BY <1>13 DEF Silence, Hears, InTime, Failed, TryAgain, RunDone, Obeys, Effect,
     hostVars, chip, transfer, pad, link
<1>14. CASE OtherResult
  BY <1>14 DEF OtherResult, Failed, RunDone, InTime, hostVars, chip, transfer, pad, link
<1>15. CASE Expire
  BY <1>15 DEF Expire, Failed, RunDone, InTime, hostVars, chip, transfer, pad, link
<1>16. CASE NextStage
  <2>1. /\ device' = IF stage = (IF request = "address" THEN "status" ELSE "setup")
                    THEN Effect(request) ELSE device
        /\ request \in Requests \ {"report"} /\ stage # "status"
        /\ stage' \in {"data", "status"}
        /\ device.addr = peraddr
        /\ UNCHANGED <<request, state, genuine>>
    BY <1>16 DEF NextStage, Obeys, Hears, Dispatch
  <2>2. genuine => device'.plugged
    BY <2>1, Effects
  <2>3. state # "RUNNING"
    BY <2>1 DEF Requests
  <2>4. CASE request = "configuration"
    <3>1. stage' = "status" => stage = "setup"
      BY <2>4, <1>16 DEF NextStage, Dispatch
    <3> QED  BY <2>1, <2>2, <2>3, <2>4, <3>1, Effects
  <2>5. CASE request = "protocol"
    <3>1. stage' = "status" => stage = "setup"
      BY <2>5, <1>16 DEF NextStage, Dispatch
    <3> QED  BY <2>1, <2>2, <2>3, <2>5, <3>1, Effects
  <2>6. CASE request \notin {"configuration", "protocol"}
    BY <2>1, <2>2, <2>3, <2>6
  <2> QED
    BY <2>4, <2>5, <2>6
<1>17. CASE Complete
  BY <1>17 DEF Complete, Hears, InTime, StatusDone, RunDone, DeviceInit, Ask,
     Dispatch, Obeys, Effect, hostVars, chip, transfer, pad, link
<1>18. CASE TakeReport
  BY <1>18 DEF TakeReport, Hears, InTime, SaveToggle, NewValues, RunDone,
     hostVars, chip, transfer, pad, link
<1>19. CASE DropReport
  BY <1>19 DEF DropReport, Hears, InTime, Failed, RunDone, hostVars, chip,
     transfer, pad, link
<1>20. CASE Tick
  BY <1>20 DEF Tick, InTime, hostVars, chip, transfer, pad, link
<1>21. CASE ResetComplete
  BY <1>21 DEF ResetComplete, NewDevice, hostVars, chip, transfer, pad, link
<1>22. CASE Frame
  BY <1>22 DEF Frame, hostVars, chip, transfer, pad, link
<1>23. CASE Unplug
  BY <1>23 DEF Unplug, hostVars, chip, transfer, pad, link
<1>24. CASE Plug
  BY <1>24 DEF Plug, NewDevice, hostVars, chip, transfer, pad, link
<1>25. CASE UNCHANGED hostVars
  BY <1>25 DEF hostVars, chip, transfer, pad, link
<1> QED
  BY <1>1, <1>2, <1>3, <1>4, <1>5, <1>6, <1>7, <1>8, <1>9, <1>10, <1>11,
     <1>12, <1>13, <1>14, <1>15, <1>16, <1>17, <1>18, <1>19, <1>20, <1>21,
     <1>22, <1>23, <1>24, <1>25 DEF HostNext, Run, Task, Token

\* The toggles.
LEMMA AlternatingStep ==
  ASSUME HostTypeOK, RightlyAddressed, Alternating, [HostNext]_hostVars
  PROVE  Alternating'
<1> USE UsbAssumption DEF HostTypeOK, RightlyAddressed, Alternating, Devices, Detached,
        Hosts, Requests
<1>1. CASE Attach
  BY <1>1 DEF Attach, RunDue, RanOnly, Noticed, hostVars, chip, transfer, pad, link
<1>2. CASE InitializeTables
  BY <1>2 DEF InitializeTables, RunDue, RanOnly, Noticed, hostVars, chip,
     transfer, pad, link
<1>3. CASE Sit
  BY <1>3 DEF Sit, RunDue, RanOnly, Noticed, hostVars, chip, transfer, pad, link
<1>4. CASE Settle
  BY <1>4 DEF Settle, RunDue, RanOnly, hostVars, chip, transfer, pad, link
<1>5. CASE ResetDevice
  BY <1>5 DEF ResetDevice, RunDue, RanOnly, hostVars, chip, transfer, pad, link
<1>6. CASE AwaitReset
  BY <1>6 DEF AwaitReset, RunDue, RanOnly, hostVars, chip, transfer, pad, link
<1>7. CASE AwaitSof
  BY <1>7 DEF AwaitSof, RunDue, RanOnly, hostVars, chip, transfer, pad, link
<1>8. CASE AskDescriptor
  BY <1>8 DEF AskDescriptor, RunDue, Ask, Dispatch, hostVars, chip, transfer, pad,
     link
<1>9. CASE AskAddress
  BY <1>9 DEF AskAddress, RunDue, Ask, Dispatch, hostVars, chip, transfer, pad, link
<1>10. CASE Configure
  BY <1>10 DEF Configure, RunDue, DeviceInit, Ask, Dispatch, hostVars, chip,
     transfer, pad, link
<1>11. CASE Poll
  BY <1>11 DEF Poll, RunDue, Dispatch, hostVars, chip, transfer, pad, link
<1>12. CASE Nak
  BY <1>12 DEF Nak, Hears, InTime, Failed, TryAgain, RunDone, hostVars, chip,
     transfer, pad, link
<1>13. CASE Silence
  BY <1>13 DEF Silence, Hears, InTime, Failed, TryAgain, RunDone, Obeys, Effect,
     hostVars, chip, transfer, pad, link
<1>14. CASE OtherResult
  BY <1>14 DEF OtherResult, Failed, RunDone, InTime, hostVars, chip, transfer, pad, link
<1>15. CASE Expire
  BY <1>15 DEF Expire, Failed, RunDone, InTime, hostVars, chip, transfer, pad, link
<1>16. CASE NextStage
  BY <1>16 DEF NextStage, Hears, InTime, Dispatch, Obeys, Effect, hostVars, chip,
     transfer, pad, link
<1>17. CASE Complete
  BY <1>17 DEF Complete, Hears, InTime, StatusDone, RunDone, DeviceInit, Ask,
     Dispatch, Obeys, Effect, hostVars, chip, transfer, pad, link
<1>18. CASE TakeReport
  BY <1>18 DEF TakeReport, Hears, InTime, SaveToggle, NewValues, RunDone,
     hostVars, chip, transfer, pad, link
<1>19. CASE DropReport
  BY <1>19 DEF DropReport, Hears, InTime, Failed, RunDone, hostVars, chip,
     transfer, pad, link
<1>20. CASE Tick
  BY <1>20 DEF Tick, InTime, hostVars, chip, transfer, pad, link
<1>21. CASE ResetComplete
  BY <1>21 DEF ResetComplete, NewDevice, hostVars, chip, transfer, pad, link
<1>22. CASE Frame
  BY <1>22 DEF Frame, hostVars, chip, transfer, pad, link
<1>23. CASE Unplug
  BY <1>23 DEF Unplug, hostVars, chip, transfer, pad, link
<1>24. CASE Plug
  BY <1>24 DEF Plug, NewDevice, hostVars, chip, transfer, pad, link
<1>25. CASE UNCHANGED hostVars
  BY <1>25 DEF hostVars, chip, transfer, pad, link
<1> QED
  BY <1>1, <1>2, <1>3, <1>4, <1>5, <1>6, <1>7, <1>8, <1>9, <1>10, <1>11,
     <1>12, <1>13, <1>14, <1>15, <1>16, <1>17, <1>18, <1>19, <1>20, <1>21,
     <1>22, <1>23, <1>24, <1>25 DEF HostNext, Run, Task, Token

\* The joystick: a report changes in it what has changed in the gamepad.
LEMMA NewValuesFollow ==
  ASSUME NEW report \in Reports, JoystickFollows, NewValues(report), UNCHANGED enabled
  PROVE  JoystickFollows'
<1>1. CASE ~enabled'  BY <1>1 DEF JoystickFollows
<1>2. CASE enabled' /\ enabled
  <2>1. joystick'.buttons = value'.buttons
    BY <1>2 DEF JoystickFollows, NewValues, Shown, Reports
  <2>2. \/ joystick'.x = Axis(value'.stick)
        \/ joystick'.x = INITIAL_X /\ value'.stick = CENTRE
    <3>1. /\ joystick'.x = IF report.stick # value.stick
                           THEN Axis(report.stick) ELSE joystick.x
          /\ value' = report
      BY DEF NewValues
    <3>2. \/ joystick.x = Axis(value.stick)
          \/ joystick.x = INITIAL_X /\ value.stick = CENTRE
      BY <1>2 DEF JoystickFollows
    <3> QED  BY <3>1, <3>2
  <2> QED  BY <2>1, <2>2 DEF JoystickFollows, Axis
<1> QED  BY <1>1, <1>2

LEMMA FollowsStep ==
  ASSUME HostTypeOK, JoystickFollows, [HostNext]_hostVars
  PROVE  JoystickFollows'
<1>1. CASE UNCHANGED <<enabled, pad>>
  BY <1>1 DEF JoystickFollows, pad
<1>2. CASE TakeReport
  BY <1>2, NewValuesFollow DEF TakeReport
<1>3. [HostNext]_hostVars /\ ~TakeReport => UNCHANGED <<enabled, pad>>
  BY DEF HostNext, Run, Task, Token, Attach, InitializeTables, Sit, Settle,
         ResetDevice, AwaitReset, AwaitSof, AskDescriptor, AskAddress, Configure,
         Poll, RanOnly, Nak, Silence, OtherResult, Expire, NextStage, Complete,
         DropReport, Failed, TryAgain, Tick, ResetComplete, Frame, Unplug, Plug, hostVars
<1> QED
  BY <1>1, <1>2, <1>3

(***************************************************************************)
(* The theorems.                                                           *)
(***************************************************************************)

LEMMA InitInv == HostInit => HostInv
<1> SUFFICES ASSUME HostInit  PROVE HostInv
  OBVIOUS
<1> USE UsbAssumption DEF HostInit
<1>1. HostTypeOK
  <2>1. vbusState \in Hosts \cup {"SE0", "SE1"}
    BY DEF Hosts, Probed
  <2>2. joystick \in [x : Int, buttons : SUBSET Buttons]
    <3>1. (IF enabled THEN INITIAL_X ELSE 0) \in Int
      BY DEF INITIAL_X
    <3> QED  BY <3>1
  <2>3. value \in [stick : Sticks \cup {CENTRE}, buttons : SUBSET Buttons]
    OBVIOUS
  <2>4. /\ naks \in 0..(NakLimit - 1) /\ retries \in 0..(RETRY_LIMIT - 1)
        /\ sinceStart \in 0..XferTimeout /\ sinceInitial \in Nat
        /\ sinceRun \in 0..PollInterval /\ ahead \in Int
    BY DEF RETRY_LIMIT
  <2> QED
    BY <2>1, <2>2, <2>3, <2>4 DEF HostTypeOK, States, Detached, Requests
<1>2. RightlyAddressed
  BY DEF RightlyAddressed, Detached
<1>3. Prepared /\ Alternating
  BY DEF Prepared, Alternating
<1>4. JoystickFollows
  BY DEF JoystickFollows
<1> QED
  BY <1>1, <1>2, <1>3, <1>4 DEF HostInv

\* HostInv is an invariant of the USB host: of Task, the transfers, device_init
\* and poll, for every sequence of results of the tokens.
THEOREM HostInvariant == HostSpec => []HostInv
<1>1. HostInv /\ [HostNext]_hostVars => HostInv'
  BY TypeStep, AddressedStep, PreparedStep, AlternatingStep, FollowsStep DEF
     HostInv
<1> QED
  BY InitInv, <1>1, PTL DEF HostSpec

\* USB::Task, device_init: a gamepad is polled, at the address it has been
\* given, only when it has been configured and set to the boot protocol.
THEOREM OnlyConfiguredIsPolled == HostSpec => []PolledDeviceConfigured
<1>1. HostInv => PolledDeviceConfigured
  BY DEF HostInv, RightlyAddressed, Prepared, PolledDeviceConfigured
<1> QED
  BY HostInvariant, <1>1, PTL

\* USB::inTransfer: no report of the gamepad is taken twice and none is
\* skipped, whichever reports and acknowledgments are lost.
THEOREM ReportsInOrder == HostSpec => []InOrder
<1>1. HostInv => InOrder
  BY DEF HostInv, Alternating, InOrder
<1> QED
  BY HostInvariant, <1>1, PTL

\* usb.cpp: the state that the client reads has the buttons of the last report,
\* and its stick unless that has rested at the centre since power-on.
THEOREM JoystickIsLastReport == HostSpec => []JoystickFollows
<1>1. HostInv => JoystickFollows
  BY DEF HostInv
<1> QED
  BY HostInvariant, <1>1, PTL

-----------------------------------------------------------------------------
(* The millisecond counter and the card driver.                            *)
Bytes    == 0..Byte - 1
Counters == [lo : Bytes, hi : Bytes]
(* Where the program has turned the interrupts off.                        *)
Closed   == {"read lo", "read hi", "read", "clear hi", "clear lo", "cleared"}

TimerTypeOK ==
  /\ ms_counter \in Counters
  /\ ints \in BOOLEAN /\ interrupts_enabled \in BOOLEAN
  /\ timer \in [pc : Closed \cup {"init", "idle", "got"}, re : BOOLEAN, count : Counters]

(* Interrupts come only while the flag of the module says that they are on. *)
Guarded == /\ ints => interrupts_enabled
           /\ timer.pc \in Closed => ~interrupts_enabled

(* What has been read or cleared so far, of a counter that stands still.   *)
Halfway ==
  /\ timer.pc \in {"read lo", "read hi", "read"} => ToNat(ms_counter) \in clock
  /\ timer.pc \in {"read hi", "read"} => timer.count.lo = ms_counter.lo
  /\ timer.pc = "read" => timer.count.hi = ms_counter.hi
  /\ timer.pc \in {"clear lo", "cleared"} => ms_counter.hi = 0
  /\ timer.pc = "cleared" => ms_counter.lo = 0
  /\ timer.pc = "got" => ToNat(timer.count) \in clock

TInv == TimerTypeOK /\ Guarded /\ Halfway

-----------------------------------------------------------------------------
\* A counter of two bytes goes on to a counter of two bytes.
LEMMA UpType == ASSUME NEW c \in Counters PROVE Up(c) \in Counters
<1>1. c.lo \in 0..Byte - 1 /\ c.hi \in 0..Byte - 1 /\ Byte \in Nat /\ Byte > 1
  BY ByteAssumption DEF Counters, Bytes
<1>2. (c.lo + 1) % Byte \in 0..Byte - 1 /\ (c.hi + 1) % Byte \in 0..Byte - 1
  BY <1>1
<1> QED BY <1>1, <1>2 DEF Up, Counters, Bytes

\* Zero is such a counter.
LEMMA ZeroType == Zero \in Counters /\ Zero.lo = 0 /\ Zero.hi = 0
BY ByteAssumption DEF Zero, Counters, Bytes

\* At power on the interrupts are off and the counter is 0.
LEMMA InitTInv == Init => TInv
<1> SUFFICES ASSUME TimerInit PROVE TInv
  BY DEF Init
<1>1. TimerTypeOK
  BY ZeroType DEF TimerInit, TimerTypeOK
<1>2. timer.pc = "init" /\ ints = FALSE
  BY DEF TimerInit
<1> QED BY <1>1, <1>2 DEF TInv, Guarded, Halfway, Closed

\* The interrupt only comes when nothing is being read or cleared.
LEMMA TickTInv == TInv /\ TIMER1_COMPA => TInv'
<1> SUFFICES ASSUME TInv, TIMER1_COMPA PROVE TInv'
  OBVIOUS
<1>1. timer.pc \notin Closed
  BY DEF TInv, Guarded, TIMER1_COMPA
<1>2. ms_counter' \in Counters
  BY UpType DEF TInv, TimerTypeOK, TIMER1_COMPA
<1>3. clock \subseteq clock'
  BY DEF TIMER1_COMPA
<1> QED
  BY <1>1, <1>2, <1>3
  DEF TInv, TimerTypeOK, Guarded, Halfway, Closed, TIMER1_COMPA, ToNat

\* The steps of timer_init, timer_reset and timer_get_ms.
LEMMA TimingTInv == TInv /\ Timing => TInv'
<1> SUFFICES ASSUME TInv, Timing PROVE TInv'
  OBVIOUS
<1> USE DEF TInv, TimerTypeOK, Guarded, Halfway, Closed, At, Go, Enter, Leave
<1>1. CASE timer_init
  BY <1>1 DEF timer_init
<1>2. CASE timer_reset
  BY <1>2 DEF timer_reset
<1>3. CASE timer_get_ms
  BY <1>3 DEF timer_get_ms, ToNat
<1>4. CASE ClearHi
  <2>1. ms_counter' \in Counters
    BY <1>4, ZeroType DEF ClearHi, Counters, Zero
  <2> QED BY <1>4, <2>1 DEF ClearHi, Counters
<1>5. CASE ClearLo
  <2>1. ms_counter' \in Counters
    BY <1>5, ZeroType DEF ClearLo, Counters, Zero
  <2> QED BY <1>5, <2>1 DEF ClearLo, Counters
<1>6. CASE ResetDone
  BY <1>6 DEF ResetDone
<1>7. CASE ReadLo
  <2>1. timer'.count \in Counters /\ timer'.count.lo = ms_counter.lo
    BY <1>7 DEF ReadLo, Counters
  <2> QED BY <1>7, <2>1 DEF ReadLo, ToNat
<1>8. CASE ReadHi
  <2>1. timer'.count \in Counters /\ timer'.count.lo = ms_counter.lo
        /\ timer'.count.hi = ms_counter.hi
    BY <1>8 DEF ReadHi, Counters
  <2> QED BY <1>8, <2>1 DEF ReadHi, ToNat
<1>9. CASE GetDone
  <2>1. ToNat(timer.count) \in clock
    BY <1>9 DEF GetDone, ToNat
  <2> QED BY <1>9, <2>1 DEF GetDone, ToNat
<1>10. CASE Got
  BY <1>10, ZeroType DEF Got
<1>11. CASE TIMER1_COMPA
  BY <1>11, TickTInv
<1> QED
  BY <1>1, <1>2, <1>3, <1>4, <1>5, <1>6, <1>7, <1>8, <1>9, <1>10, <1>11
  DEF Timing, TimerStep

\* The driver and the card leave the milliseconds alone.
LEMMA DriverKeepsTimer ==
  Calls \/ Host \/ disk_timerproc \/ CardReady \/ Replug => UNCHANGED timerVars
<1> USE DEF Rest
<1>1. Calls => UNCHANGED timerVars
  BY DEF Calls, disk_initialize, disk_read, disk_write, disk_ioctl, Begin
<1>2. Host => UNCHANGED timerVars
  BY DEF Host, Select, Ready, NotReady, Command, Synced, AwaitToken, Received,
         ErrorToken, TokenLate, WaitFree, Accepted, Refused, Stopped, SendLate,
         EnterIdle, ContinueInit, Continue, Finish
<1>3. disk_timerproc \/ CardReady \/ Replug => UNCHANGED timerVars
  BY DEF disk_timerproc, CardReady, Replug
<1> QED BY <1>1, <1>2, <1>3

\* No step leaves the counter half read or half cleared.
LEMMA NextTInv == TInv /\ [Next]_vars => TInv'
<1> SUFFICES ASSUME TInv, [Next]_vars PROVE TInv'
  OBVIOUS
<1>1. CASE UNCHANGED timerVars
  BY <1>1 DEF timerVars, TInv, TimerTypeOK, Guarded, Halfway, ToNat
<1>2. CASE Timing
  BY <1>2, TimingTInv
<1> QED BY <1>1, <1>2, DriverKeepsTimer DEF Next, vars

(***************************************************************************)
(* Theorem.                                                                *)
(***************************************************************************)

\* For bytes of any size, and whatever the card driver does meanwhile:
\* timer_get_ms returns a value the counter had during the call, although the
\* interrupt may carry from one byte to the other at any time that interrupts
\* are on, and timer_reset leaves 0 behind (firmware/timer.cpp).
THEOREM MillisecondsReadWhole == Spec => []ReadWhole
<1>1. TInv => ReadWhole
  BY DEF TInv, TimerTypeOK, Halfway, ReadWhole, Counters, Zero
<1> QED  BY InitTInv, NextTInv, <1>1, PTL DEF Spec
----------------------------------------------------------------------------

(***************************************************************************)
(* The transfers.  Where a call is, what it may do next, and what it has   *)
(* moved so far.                                                           *)
(***************************************************************************)

(* A command is under way; the stage is where its answer will be looked at. *)
Sending == {"select", "ready", "command"}
Stage   == IF run.pc \in Sending THEN run.k ELSE run.pc
Large   == card.kind = "SDHC"
Old     == {"probe", "loop1", "old", "cmd16"}

RunFields  == {"op", "sector", "count", "pc", "k", "cmd", "arg", "app", "res", "ty", "left", "buf"}
CardFields == {"kind", "state", "app", "busy", "sends", "takes"}
CardTypeOK == /\ card = [f \in CardFields |-> card[f]]
              /\ card.sends \in Sectors \cup {Nobody} /\ card.takes \in Int
              /\ store \in [Sectors -> Int]
RunTypeOK == /\ run = [f \in RunFields |-> run[f]] /\ run.buf \in Seq(Int)
             /\ run.sector \in Nat /\ run.count \in Int /\ run.left \in Int
DataTypeOK == CardTypeOK /\ RunTypeOK

(* The steps of each function.  A large card never passes the initialization *)
(* of the older ones: without the HCS bit it stays idle.                   *)
InitSteps ==
  run.op = "init" =>
    /\ run.pc \in Sending \cup {"cmd0", "cmd8", "loop", "acmd41", "cmd58", "finish"} \cup Old
    /\ run.pc \in Sending =>
         /\ run.k \in {"cmd0", "cmd8", "acmd41", "cmd58", "probe", "old", "cmd16"}
         /\ Stage = "cmd0" => run.cmd = "CMD0"
         /\ Stage = "cmd8" => run.cmd = "CMD8"
         /\ Stage \in {"probe", "old"} => run.cmd \in {"ACMD41", "CMD1"} /\ run.arg = 0
    /\ Large /\ Stage \in Old \cup {"cmd8"} => card.state = "idle"
    /\ Large /\ run.pc = "cmd0" /\ run.res = 1 => card.state = "idle"
    /\ Large => Stage # "cmd16" /\ (run.pc = "old" => run.res # 0)
    /\ Stage \in {"loop1", "old", "cmd16"} => run.ty \in {"SD1", "MMC"}
    /\ run.pc = "finish" /\ run.ty # "none" => (run.ty = "SDHC" <=> Large)
IoctlSteps ==
  run.op \in Ioctls =>
    /\ run.pc \in Sending \cup {"register", "answered", "await", "token", "done", "finish"}
    /\ run.pc \in Sending => run.k \in {"register", "answered"}
    /\ run.pc \in {"await", "token"} => run.k = "done"
ReadSteps ==
  run.op = "read" =>
    /\ run.count > 0 /\ run.left <= run.count
    /\ run.pc \in Sending \cup {"cmd17", "cmd18", "await", "token", "block", "done",
                                "stopped", "finish"}
    /\ run.pc \in Sending => <<run.cmd, run.k>> \in
         {<<"CMD17", "cmd17">>, <<"CMD18", "cmd18">>, <<"CMD12", "stopped">>}
    /\ Stage = "cmd17" => run.count = 1 /\ run.cmd = "CMD17"
    /\ Stage = "cmd18" => run.cmd = "CMD18"
    /\ Stage \in {"cmd17", "cmd18"} => run.left = run.count /\ run.buf = <<>>
    /\ run.pc \in {"await", "token"} =>
         \/ run.k = "done" /\ run.count = 1 /\ run.left = 1 /\ run.cmd = "CMD17"
         \/ run.k = "block" /\ run.left > 0 /\ run.cmd = "CMD18"
    /\ run.pc = "block" => run.left > 0 /\ run.cmd = "CMD18"
    /\ run.pc = "done" => run.count = 1
WriteSteps ==
  run.op = "write" =>
    /\ run.count > 0 /\ run.left <= run.count
    /\ run.pc \in Sending \cup {"acmd23", "cmd24", "cmd25", "offer", "send", "taken", "done",
                                "ended", "finish"}
    /\ run.pc \in Sending => <<run.cmd, run.k>> \in
         {<<"CMD24", "cmd24">>, <<"CMD25", "cmd25">>, <<"ACMD23", "acmd23">>}
    /\ Stage = "cmd24" => run.count = 1 /\ run.cmd = "CMD24"
    /\ Stage = "cmd25" => run.cmd = "CMD25"
    /\ Stage \in {"acmd23", "cmd24", "cmd25"} => run.left = run.count
    /\ run.pc \in {"offer", "send"} =>
         \/ run.k = "done" /\ run.count = 1 /\ run.left = 1 /\ run.cmd = "CMD24" /\ ~run.app
         \/ run.k = "taken" /\ run.left > 0 /\ run.cmd = "CMD25" /\ ~run.app
         \/ run.k = "ended" /\ run.app
    /\ run.pc = "taken" => run.left > 0 /\ run.cmd = "CMD25"
    /\ run.pc = "done" => run.count = 1
Steps ==
  /\ run.op \in {"none", "init", "read", "write"} \cup Ioctls
  /\ run.op = "none" <=> run.pc = "idle"
  /\ InitSteps /\ IoctlSteps /\ ReadSteps /\ WriteSteps

(* The kind of card is known, and nothing is moved before it is.           *)
Known ==
  /\ "NOINIT" \in Stat => ~healthy /\ run.op \in {"none", "init"}
  /\ healthy => (CardType = "SDHC" <=> Large)

(* What the call has moved, if the kind is known.                          *)
Addressed == SectorOf(card, run.arg) = run.sector
BufHolds(n) == run.buf = [i \in 1..n |-> store[run.sector + i - 1]]
Written(n)  == \A i \in 0..n - 1 : store[run.sector + i] = Value(run.sector + i)
Moved       == run.count - run.left
Reading ==
  healthy /\ run.op = "read" =>
    /\ run.pc \in Sending /\ run.cmd \in {"CMD17", "CMD18"} => Addressed
    /\ run.pc \in {"cmd17", "cmd18"} /\ run.res = 0 => card.sends = run.sector
    /\ run.pc \in {"await", "token"} =>
         BufHolds(Moved) /\ card.sends \in {run.sector + Moved, Nobody}
    /\ run.pc = "done" /\ run.res = 1 => BufHolds(1)
    /\ run.pc = "block" /\ run.res # 0 =>
         BufHolds(Moved + 1) /\ card.sends \in {run.sector + Moved + 1, Nobody}
    /\ Stage = "stopped" /\ run.left = 0 => BufHolds(run.count)
    /\ run.pc = "finish" /\ run.res = 1 => BufHolds(run.count)
Writing ==
  healthy /\ run.op = "write" =>
    /\ run.pc \in Sending /\ run.cmd \in {"CMD24", "CMD25"} => Addressed
    /\ run.pc \in {"cmd24", "cmd25"} /\ run.res = 0 => card.takes = run.sector
    /\ run.pc \in {"offer", "send"} =>
         /\ ~run.app => Written(Moved) /\ card.takes = run.sector + Moved
         /\ run.app /\ run.left = 0 => Written(run.count)
    /\ run.pc = "done" /\ run.res = 1 => Written(1)
    /\ run.pc = "taken" /\ run.res # 0 =>
         Written(Moved + 1) /\ card.takes = run.sector + Moved + 1
    /\ run.pc = "ended" /\ run.left = 0 => Written(run.count)
    /\ run.pc = "finish" /\ run.res = 1 => Written(run.count)
Sound ==
  /\ healthy \/ "NOINIT" \in Stat => \A s \in Sectors : store[s] \in {s, Value(s)}
  /\ run.op # "none" => answer.res = "OK" /\ answer.op = "none"

MInv == DataTypeOK /\ Steps /\ Known /\ Reading /\ Writing /\ Sound /\ Faithful

-----------------------------------------------------------------------------
(* The card.                                                               *)

IsCard(c) == /\ c = [f \in CardFields |-> c[f]]
             /\ c.sends \in Sectors \cup {Nobody} /\ c.takes \in Int

\* A sector number is taken for the sector, as a number or as a byte address.
LEMMA AddressFound ==
  ASSUME NEW c, NEW s \in Nat
  PROVE  SectorOf(c, IF c.kind = "SDHC" THEN s ELSE s * Block) = s
<1>1. s \in Nat /\ Block \in Nat /\ Block > 1
  BY SizeAssumption
<1> DEFINE d == (s * Block) \div Block
           m == (s * Block) % Block
<1>2. d \in Int /\ m \in Int /\ 0 <= m /\ m < Block /\ s * Block = Block * d + m
  BY <1>1
<1> HIDE DEF d, m
<1>3. m = Block * (s - d)
  BY <1>1, <1>2
<1>4. s - d < 1
  <2> SUFFICES ASSUME s - d >= 1 PROVE FALSE
    BY <1>1, <1>2
  <2>1. Block * (s - d) >= Block * 1
    BY <1>1, <1>2
  <2> QED BY <1>1, <1>2, <1>3, <2>1
<1>5. s - d > -1
  <2> SUFFICES ASSUME s - d <= -1 PROVE FALSE
    BY <1>1, <1>2
  <2>1. Block * (s - d) <= Block * (-1)
    BY <1>1, <1>2
  <2> QED BY <1>1, <1>2, <1>3, <2>1
<1>6. s = d /\ m = 0
  BY <1>1, <1>2, <1>3, <1>4, <1>5
<1> QED BY <1>6 DEF SectorOf, d, m

\* The end of the application command prefix, and the end of the idle state.
LEMMA LeavesCard ==
  ASSUME NEW c, IsCard(c), NEW can \in BOOLEAN, NEW o \in Leaves(c, can)
  PROVE  /\ IsCard(o[1]) /\ o[1].kind = c.kind
         /\ ~can /\ c.state = "idle" => o[1].state = "idle" /\ o[2] # 0
<1> DEFINE d == [c EXCEPT !.app = FALSE]
           e == [d EXCEPT !.state = "ready"]
<1>1. IsCard(d) /\ d.kind = c.kind /\ d.state = c.state
  BY DEF IsCard, CardFields
<1>2. e = [c EXCEPT !.app = FALSE, !.state = "ready"]
  OBVIOUS
<1> HIDE DEF d
<1>3. IsCard(e) /\ e.kind = c.kind
  BY <1>1 DEF IsCard, CardFields
<1> HIDE DEF e
<1>4. o = <<d, R1(c)>> \/ (can /\ o = <<e, 0>>)
  <2>1. CASE can
    BY <1>2, <2>1 DEF Leaves, d
  <2>2. CASE ~can
    BY <2>2 DEF Leaves, d
  <2> QED BY <2>1, <2>2
<1>5. CASE o = <<d, R1(c)>>
  BY <1>1, <1>5 DEF R1
<1>6. CASE can /\ o = <<e, 0>>
  BY <1>3, <1>6
<1> QED BY <1>4, <1>5, <1>6

\* What a card makes of a command that reaches it.
LEMMA ReactCard ==
  ASSUME NEW c, IsCard(c), NEW cmd, NEW a, NEW o \in React(c, cmd, a)
  PROVE  /\ IsCard(o[1]) /\ o[1].kind = c.kind
         /\ cmd \in {"CMD17", "CMD18"} /\ o[2] = 0 => o[1].sends = SectorOf(c, a)
         /\ cmd \in {"CMD24", "CMD25"} /\ o[2] = 0 => o[1].takes = SectorOf(c, a)
         /\ cmd = "CMD0" => o[1].state = "idle"
         /\ cmd \in {"CMD8", "CMD55"} => o[1].state = c.state
         /\ c.kind = "SDHC" /\ c.state = "idle" /\ a = 0 /\ cmd \in {"ACMD41", "CMD1"} =>
              o[1].state = "idle" /\ o[2] # 0
<1> DEFINE Claim ==
         /\ IsCard(o[1]) /\ o[1].kind = c.kind
         /\ cmd \in {"CMD17", "CMD18"} /\ o[2] = 0 => o[1].sends = SectorOf(c, a)
         /\ cmd \in {"CMD24", "CMD25"} /\ o[2] = 0 => o[1].takes = SectorOf(c, a)
         /\ cmd = "CMD0" => o[1].state = "idle"
         /\ cmd \in {"CMD8", "CMD55"} => o[1].state = c.state
         /\ c.kind = "SDHC" /\ c.state = "idle" /\ a = 0 /\ cmd \in {"ACMD41", "CMD1"} =>
              o[1].state = "idle" /\ o[2] # 0
<1>0. 0 \in Sectors /\ Sectors \subseteq Int /\ Nobody \in Int
  BY SizeAssumption DEF Sectors, Nobody
<1> USE DEF IsCard, CardFields
<1>1. CASE cmd = "CMD0"
  BY <1>0, <1>1 DEF React, Fresh
<1>2. CASE cmd # "CMD0" /\ c.state = "off"
  BY <1>0, <1>2 DEF React, NoReply
<1>3. CASE cmd = "CMD8" /\ c.state # "off"
  BY <1>3 DEF React, Illegal
<1>4. CASE cmd = "CMD55" /\ c.state # "off"
  BY <1>4 DEF React, Illegal
<1>5. CASE cmd = "ACMD41" /\ c.state # "off"
  <2>1. React(c, cmd, a) = Leaves(c, c.kind # "SDHC" \/ a = 1) \/ React(c, cmd, a) = Illegal(c)
    BY <1>5 DEF React
  <2>2. CASE o \in Illegal(c)
    BY <1>5, <2>2 DEF Illegal, R1
  <2>3. CASE o \in Leaves(c, c.kind # "SDHC" \/ a = 1)
    <3> DEFINE can == c.kind # "SDHC" \/ a = 1
    <3>1. can \in BOOLEAN /\ (c.kind = "SDHC" /\ a = 0 => ~can)
      OBVIOUS
    <3>2. o \in Leaves(c, can)
      BY <2>3
    <3> HIDE DEF can
    <3>3. /\ IsCard(o[1]) /\ o[1].kind = c.kind
          /\ ~can /\ c.state = "idle" => o[1].state = "idle" /\ o[2] # 0
      BY <3>1, <3>2, LeavesCard
    <3> QED BY <1>5, <3>1, <3>3
  <2> QED BY <2>1, <2>2, <2>3
<1>6. CASE cmd = "CMD1" /\ c.state # "off"
  <2>1. \/ c.kind \in {"MMC", "SD1"} /\ React(c, cmd, a) = Leaves(c, TRUE)
        \/ React(c, cmd, a) = Illegal(c)
    BY <1>6 DEF React
  <2>2. CASE o \in Illegal(c)
    BY <1>6, <2>2 DEF Illegal, R1
  <2>3. CASE c.kind \in {"MMC", "SD1"} /\ o \in Leaves(c, TRUE)
    BY <1>6, <2>3, LeavesCard
  <2> QED BY <2>1, <2>2, <2>3
<1>7. CASE cmd \in {"CMD9", "CMD10", "ACMD13"} /\ c.state # "off"
  <2>1. React(c, cmd, a) = {<<[c EXCEPT !.sends = 0, !.app = FALSE], 0>>}
        \/ React(c, cmd, a) = Illegal(c)
    BY <1>7 DEF React
  <2>2. CASE o \in Illegal(c)
    BY <1>7, <2>2 DEF Illegal
  <2>3. CASE o \in {<<[c EXCEPT !.sends = 0, !.app = FALSE], 0>>}
    <3> DEFINE d == [c EXCEPT !.sends = 0, !.app = FALSE]
    <3>1. IsCard(d) /\ d.kind = c.kind
      BY <1>0
    <3>2. o[1] = d
      BY <2>3
    <3> HIDE DEF d
    <3> QED BY <1>7, <3>1, <3>2
  <2> QED BY <2>1, <2>2, <2>3
<1>8. CASE cmd = "ACMD23" /\ c.state # "off"
  BY <1>8 DEF React
<1>9. CASE cmd \in {"CMD17", "CMD18"} /\ c.state # "off"
  BY <1>0, <1>9 DEF React, Transfer, Illegal, R1
<1>10. CASE cmd \in {"CMD24", "CMD25"} /\ c.state # "off"
  BY <1>0, <1>10 DEF React, Transfer, Illegal, R1
<1>11. CASE cmd = "CMD12" /\ c.state # "off"
  BY <1>11 DEF React
<1>12. CASE cmd \notin {"CMD0", "CMD8", "CMD55", "ACMD41", "CMD1", "CMD9", "CMD10", "ACMD13",
                        "ACMD23", "CMD17", "CMD18", "CMD24", "CMD25", "CMD12"}
            /\ c.state # "off"
  <2>1. React(c, cmd, a) = {<<c, R1(c)>>}
    BY <1>12 DEF React
  <2> QED BY <1>12, <2>1
<1> QED
  BY <1>1, <1>2, <1>3, <1>4, <1>5, <1>6, <1>7, <1>8, <1>9, <1>10, <1>11, <1>12

\* ... with a command or its answer lost.
LEMMA OutcomeCard ==
  ASSUME NEW c, IsCard(c), NEW cmd, NEW a, NEW o \in Outcomes(c, cmd, a)
  PROVE  /\ IsCard(o[1]) /\ o[1].kind = c.kind
         /\ cmd \in {"CMD17", "CMD18"} /\ o[2] = 0 => o[1].sends = SectorOf(c, a)
         /\ cmd \in {"CMD24", "CMD25"} /\ o[2] = 0 => o[1].takes = SectorOf(c, a)
         /\ cmd = "CMD0" /\ o[2] = 1 => o[1].state = "idle"
         /\ cmd \in {"CMD8", "CMD55"} => o[1].state = c.state
         /\ c.kind = "SDHC" /\ c.state = "idle" /\ a = 0 /\ cmd \in {"ACMD41", "CMD1"} =>
              o[1].state = "idle" /\ o[2] # 0
<1>1. \/ \E r \in React(c, cmd, a) : o[1] = r[1] /\ (o[2] = r[2] \/ o[2] = NoReply)
      \/ o[1] = c /\ o[2] = NoReply
  <2>1. CASE MayFail
    BY <2>1 DEF Outcomes
  <2>2. CASE ~MayFail
    BY <2>2 DEF Outcomes
  <2> QED BY <2>1, <2>2
<1>2. NoReply # 0 /\ NoReply # 1
  BY DEF NoReply
<1>3. CASE o[1] = c /\ o[2] = NoReply
  BY <1>2, <1>3
<1>4. ASSUME NEW r \in React(c, cmd, a), o[1] = r[1], o[2] = r[2] \/ o[2] = NoReply
      PROVE  /\ IsCard(o[1]) /\ o[1].kind = c.kind
             /\ cmd \in {"CMD17", "CMD18"} /\ o[2] = 0 => o[1].sends = SectorOf(c, a)
             /\ cmd \in {"CMD24", "CMD25"} /\ o[2] = 0 => o[1].takes = SectorOf(c, a)
             /\ cmd = "CMD0" /\ o[2] = 1 => o[1].state = "idle"
             /\ cmd \in {"CMD8", "CMD55"} => o[1].state = c.state
             /\ c.kind = "SDHC" /\ c.state = "idle" /\ a = 0 /\ cmd \in {"ACMD41", "CMD1"} =>
                  o[1].state = "idle" /\ o[2] # 0
  <2>1. /\ IsCard(r[1]) /\ r[1].kind = c.kind
        /\ cmd \in {"CMD17", "CMD18"} /\ r[2] = 0 => r[1].sends = SectorOf(c, a)
        /\ cmd \in {"CMD24", "CMD25"} /\ r[2] = 0 => r[1].takes = SectorOf(c, a)
        /\ cmd = "CMD0" => r[1].state = "idle"
        /\ cmd \in {"CMD8", "CMD55"} => r[1].state = c.state
        /\ c.kind = "SDHC" /\ c.state = "idle" /\ a = 0 /\ cmd \in {"ACMD41", "CMD1"} =>
             r[1].state = "idle" /\ r[2] # 0
    BY ReactCard
  <2> QED BY <1>2, <1>4, <2>1
<1> QED BY <1>1, <1>3, <1>4

-----------------------------------------------------------------------------
(* The steps.                                                              *)

\* Within a call only the run and the card change, and what they say has to be
\* shown.
LEMMA WithinCall ==
  ASSUME MInv, UNCHANGED <<Stat, CardType, healthy, store, answer>>,
         DataTypeOK', Steps', Reading', Writing',
         card'.kind = card.kind, run'.op = run.op
  PROVE  MInv'
BY DEF MInv, Known, Sound, Faithful, Extent, Large

\* A command goes on within its own steps.
LEMMA PrefixSteps ==
  ASSUME Steps, run.pc \in Sending, run'.pc \in Sending,
         \A f \in RunFields \ {"pc", "app"} : run'[f] = run[f],
         card'.kind = card.kind, card'.state = card.state
  PROVE  Steps'
<1>1. /\ run'.op = run.op /\ run'.count = run.count /\ run'.left = run.left /\ run'.buf = run.buf
      /\ run'.cmd = run.cmd /\ run'.k = run.k /\ run'.ty = run.ty /\ run'.arg = run.arg
  BY DEF RunFields
<1>2. Stage' = Stage /\ Large' = Large
  BY <1>1 DEF Stage, Large
<1>3. InitSteps'
  BY <1>1, <1>2 DEF Steps, InitSteps, Sending
<1>4. IoctlSteps'
  BY <1>1, <1>2 DEF Steps, IoctlSteps, Sending
<1>5. ReadSteps'
  BY <1>1, <1>2 DEF Steps, ReadSteps, Sending
<1>6. WriteSteps'
  BY <1>1, <1>2 DEF Steps, WriteSteps, Sending
<1> QED BY <1>1, <1>3, <1>4, <1>5, <1>6 DEF Steps, Sending

\* ... and moves nothing.
LEMMA PrefixMoves ==
  ASSUME Reading, Writing, run.pc \in Sending, run'.pc \in Sending,
         \A f \in RunFields \ {"pc", "app"} : run'[f] = run[f],
         UNCHANGED <<healthy, store>>, card'.kind = card.kind
  PROVE  Reading' /\ Writing'
<1>1. /\ run'.op = run.op /\ run'.count = run.count /\ run'.left = run.left /\ run'.buf = run.buf
      /\ run'.cmd = run.cmd /\ run'.k = run.k /\ run'.sector = run.sector /\ run'.arg = run.arg
  BY DEF RunFields
<1>2. Addressed' = Addressed
  BY <1>1 DEF Addressed, SectorOf
<1> QED BY <1>1, <1>2 DEF Reading, Writing, Sending, Stage, BufHolds, Written

\* The line is selected, and the card is ready: a command goes on.
LEMMA SelectMInv == MInv /\ (Select \/ Ready) => MInv'
<1> SUFFICES ASSUME MInv, Select \/ Ready PROVE MInv'
  OBVIOUS
<1>1. /\ card' = card /\ run.pc \in Sending /\ run'.pc \in Sending
      /\ UNCHANGED <<Stat, CardType, healthy, store, answer>>
      /\ \A f \in RunFields \ {"pc", "app"} : run'[f] = run[f]
  BY DEF Select, Ready, Is, To, Rest, Sending, MInv, DataTypeOK, RunTypeOK, RunFields
<1>2. DataTypeOK'
  BY <1>1 DEF Select, Ready, To, MInv, DataTypeOK, RunTypeOK, CardTypeOK, RunFields
<1>3. Steps' /\ Reading' /\ Writing'
  BY <1>1, PrefixSteps, PrefixMoves DEF MInv
<1> QED BY <1>1, <1>2, <1>3, WithinCall DEF RunFields

\* An answer comes back to where it is looked at.
LEMMA AnswerSteps ==
  ASSUME Steps, run.pc \in Sending, run'.pc = run.k,
         \A f \in RunFields \ {"pc", "res"} : run'[f] = run[f],
         card'.kind = card.kind,
         Large /\ Stage \in Old \cup {"cmd8"} /\ card.state = "idle" => card'.state = "idle",
         Large /\ Stage = "cmd0" /\ run'.res = 1 /\ run.cmd = "CMD0" => card'.state = "idle",
         Large /\ Stage = "old" /\ run.cmd \in {"ACMD41", "CMD1"} /\ run.arg = 0
           /\ card.state = "idle" => run'.res # 0
  PROVE  Steps' /\ Stage' = Stage
<1>1. /\ run'.op = run.op /\ run'.count = run.count /\ run'.left = run.left /\ run'.buf = run.buf
      /\ run'.cmd = run.cmd /\ run'.k = run.k /\ run'.ty = run.ty /\ run'.arg = run.arg
  BY DEF RunFields
<1>2. Stage = run.k
  BY DEF Stage
<1>3. ASSUME run.op = "init" PROVE InitSteps' /\ Stage' = Stage
  <2>1. run.k \in {"cmd0", "cmd8", "acmd41", "cmd58", "probe", "old", "cmd16"}
    BY <1>3 DEF Steps, InitSteps
  <2>2. Stage' = run.k /\ run'.pc \notin Sending
    BY <1>1, <2>1 DEF Stage, Sending
  <2>3. /\ run.k = "cmd0" => run.cmd = "CMD0"
        /\ run.k \in {"probe", "old"} => run.cmd \in {"ACMD41", "CMD1"} /\ run.arg = 0
        /\ Large /\ run.k \in Old \cup {"cmd8"} => card.state = "idle"
        /\ Large => run.k # "cmd16"
        /\ run.k \in {"old", "cmd16"} => run.ty \in {"SD1", "MMC"}
    BY <1>2, <1>3 DEF Steps, InitSteps
  <2>4. Large' = Large
    BY DEF Large
  <2>5. Large => /\ run.k \in Old \cup {"cmd8"} => card'.state = "idle"
                 /\ run.k = "cmd0" /\ run'.res = 1 => card'.state = "idle"
                 /\ run.k = "old" => run'.res # 0
    BY <1>2, <2>3 DEF Old
  <2> QED BY <1>1, <1>2, <2>1, <2>2, <2>3, <2>4, <2>5 DEF InitSteps, Old
<1>4. ASSUME run.op \in Ioctls PROVE IoctlSteps' /\ Stage' = Stage
  BY <1>1, <1>2, <1>4 DEF Steps, IoctlSteps, Stage, Sending
<1>5. ASSUME run.op = "read" PROVE ReadSteps' /\ Stage' = Stage
  BY <1>1, <1>2, <1>5 DEF Steps, ReadSteps, Stage, Sending
<1>6. ASSUME run.op = "write" PROVE WriteSteps' /\ Stage' = Stage
  BY <1>1, <1>2, <1>6 DEF Steps, WriteSteps, Stage, Sending
<1>7. run.op # "none" /\ run'.pc # "idle"
  BY <1>1, <1>2 DEF Steps, InitSteps, IoctlSteps, ReadSteps, WriteSteps, Sending
<1> QED
  BY <1>1, <1>3, <1>4, <1>5, <1>6, <1>7
  DEF Steps, InitSteps, IoctlSteps, ReadSteps, WriteSteps, Ioctls

\* ... and a command that the card has taken is for the sector meant.
LEMMA AnswerMoves ==
  ASSUME Steps, Reading, Writing, run.pc \in Sending, run'.pc = run.k,
         \A f \in RunFields \ {"pc", "res"} : run'[f] = run[f],
         UNCHANGED <<healthy, store>>,
         run.cmd \in {"CMD17", "CMD18"} /\ run'.res = 0 => card'.sends = SectorOf(card, run.arg),
         run.cmd \in {"CMD24", "CMD25"} /\ run'.res = 0 => card'.takes = SectorOf(card, run.arg)
  PROVE  Reading' /\ Writing'
<1>1. /\ run'.op = run.op /\ run'.count = run.count /\ run'.left = run.left /\ run'.buf = run.buf
      /\ run'.cmd = run.cmd /\ run'.k = run.k /\ run'.sector = run.sector
  BY DEF RunFields
<1>2. ASSUME healthy, run.op = "read" PROVE Reading'
  <2>1. <<run.cmd, run.k>> \in
         {<<"CMD17", "cmd17">>, <<"CMD18", "cmd18">>, <<"CMD12", "stopped">>}
    BY <1>2 DEF Steps, ReadSteps
  <2>2. run.cmd \in {"CMD17", "CMD18"} => SectorOf(card, run.arg) = run.sector
    BY <1>2 DEF Reading, Addressed
  <2>3. run.k = "stopped" /\ run.left = 0 => BufHolds(run.count)
    BY <1>2 DEF Reading, Stage
  <2> QED BY <1>1, <1>2, <2>1, <2>2, <2>3 DEF Reading, Sending, Stage, BufHolds
<1>3. ASSUME healthy, run.op = "write" PROVE Writing'
  <2>1. <<run.cmd, run.k>> \in
         {<<"CMD24", "cmd24">>, <<"CMD25", "cmd25">>, <<"ACMD23", "acmd23">>}
    BY <1>3 DEF Steps, WriteSteps
  <2>2. run.cmd \in {"CMD24", "CMD25"} => SectorOf(card, run.arg) = run.sector
    BY <1>3 DEF Writing, Addressed
  <2> QED BY <1>1, <1>3, <2>1, <2>2 DEF Writing, Sending
<1> QED BY <1>1, <1>2, <1>3 DEF Reading, Writing

\* A command that ends without an answer of the card, or with none to wait for.
LEMMA NoCommandMInv == MInv /\ (NotReady \/ Synced) => MInv'
<1> SUFFICES ASSUME MInv, NotReady \/ Synced PROVE MInv'
  OBVIOUS
<1>1. /\ run.pc \in Sending /\ card' = card
      /\ UNCHANGED <<Stat, CardType, healthy, store, answer>>
  BY DEF NotReady, Synced, Is, Rest, Sending
<1>2. run' = Replied(255) \/ (run' = Replied(0) /\ run.cmd = "CTRL_SYNC")
  BY DEF NotReady, Synced, NoReply
<1>3. /\ run'.pc = run.k /\ \A f \in RunFields \ {"pc", "res"} : run'[f] = run[f]
      /\ run'.res = 255 \/ (run'.res = 0 /\ run.cmd = "CTRL_SYNC")
  BY <1>2 DEF MInv, DataTypeOK, RunTypeOK, RunFields, Replied
<1>4. DataTypeOK'
  BY <1>1, <1>2 DEF MInv, DataTypeOK, RunTypeOK, CardTypeOK, RunFields, Replied
<1>5. Steps'
  BY <1>1, <1>3, AnswerSteps DEF MInv
<1>6. Reading' /\ Writing'
  BY <1>1, <1>3, AnswerMoves DEF MInv
<1> QED BY <1>1, <1>3, <1>4, <1>5, <1>6, WithinCall DEF RunFields

\* The card's answer, to the command or to the CMD55 before it.
LEMMA CommandMInv == MInv /\ Command => MInv'
<1> SUFFICES ASSUME MInv, Command PROVE MInv'
  OBVIOUS
<1> DEFINE sent == IF run.app THEN "CMD55" ELSE run.cmd
<1>1. PICK o \in Outcomes(card, sent, run.arg) : card' = o[1] /\ run' = Heard(o[2])
  BY DEF Command
<1>2. IsCard(card)
  BY DEF MInv, DataTypeOK, CardTypeOK, IsCard
<1>3. run.pc = "command" /\ UNCHANGED <<Stat, CardType, healthy, store, answer>>
  BY DEF Command, Is, Rest
<1>4. \/ run' = Replied(o[2]) /\ (sent = run.cmd \/ (sent = "CMD55" /\ o[2] > 1))
      \/ run' = [run EXCEPT !.app = FALSE, !.pc = "select"] /\ sent = "CMD55"
  <2>1. CASE run.app
    BY <1>1, <2>1 DEF Heard
  <2>2. CASE ~run.app
    BY <1>1, <2>2 DEF Heard
  <2> QED BY <2>1, <2>2
<1> HIDE DEF sent
<1>5. /\ IsCard(card') /\ card'.kind = card.kind
      /\ sent \in {"CMD17", "CMD18"} /\ o[2] = 0 => card'.sends = SectorOf(card, run.arg)
      /\ sent \in {"CMD24", "CMD25"} /\ o[2] = 0 => card'.takes = SectorOf(card, run.arg)
      /\ sent = "CMD0" /\ o[2] = 1 => card'.state = "idle"
      /\ sent \in {"CMD8", "CMD55"} => card'.state = card.state
      /\ card.kind = "SDHC" /\ card.state = "idle" /\ run.arg = 0 /\ sent \in {"ACMD41", "CMD1"} =>
           card'.state = "idle" /\ o[2] # 0
  BY <1>1, <1>2, OutcomeCard
<1>6. DataTypeOK'
  BY <1>1, <1>3, <1>5
  DEF MInv, DataTypeOK, RunTypeOK, CardTypeOK, IsCard, RunFields, Heard, Replied
<1>7. CASE run' = [run EXCEPT !.app = FALSE, !.pc = "select"] /\ sent = "CMD55"
  <2>1. /\ run'.pc = "select" /\ \A f \in RunFields \ {"pc", "app"} : run'[f] = run[f]
        /\ card'.state = card.state
    BY <1>5, <1>7 DEF MInv, DataTypeOK, RunTypeOK, RunFields
  <2>2. Steps'
    BY <1>3, <1>5, <2>1, PrefixSteps DEF MInv, Sending
  <2>3. Reading' /\ Writing'
    BY <1>3, <1>5, <2>1, PrefixMoves DEF MInv, Sending
  <2> QED BY <1>3, <1>5, <1>6, <2>1, <2>2, <2>3, WithinCall DEF RunFields
<1>8. CASE run' = Replied(o[2]) /\ (sent = run.cmd \/ (sent = "CMD55" /\ o[2] > 1))
  <2>1. /\ run'.pc = run.k /\ \A f \in RunFields \ {"pc", "res"} : run'[f] = run[f]
        /\ run'.res = o[2]
    BY <1>8 DEF MInv, DataTypeOK, RunTypeOK, RunFields, Replied
  <2>2. run.pc \in Sending
    BY <1>3 DEF Sending
  <2>3. Steps'
    <3>1. Large /\ Stage \in Old \cup {"cmd8"} /\ card.state = "idle" => card'.state = "idle"
      <4> SUFFICES ASSUME Large, run.k \in Old \cup {"cmd8"}, card.state = "idle"
                   PROVE  card'.state = "idle"
        BY <2>2 DEF Stage
      <4>1. /\ run.k = "cmd8" => run.cmd = "CMD8"
            /\ run.k \in {"probe", "old"} => run.cmd \in {"ACMD41", "CMD1"} /\ run.arg = 0
            /\ run.k \notin {"cmd16", "loop1"}
        BY <2>2 DEF MInv, Steps, InitSteps, IoctlSteps, ReadSteps, WriteSteps, Old, Stage, Sending
      <4> QED BY <1>5, <1>8, <4>1 DEF Old, Large
    <3>2. Large /\ Stage = "cmd0" /\ run'.res = 1 /\ run.cmd = "CMD0" => card'.state = "idle"
      BY <1>5, <1>8, <2>1
    <3>3. Large /\ Stage = "old" /\ run.cmd \in {"ACMD41", "CMD1"} /\ run.arg = 0
            /\ card.state = "idle" => run'.res # 0
      BY <1>5, <1>8, <2>1 DEF Large
    <3> QED BY <1>5, <2>1, <2>2, <3>1, <3>2, <3>3, AnswerSteps DEF MInv
  <2>6. Reading' /\ Writing'
    BY <1>3, <1>5, <1>8, <2>1, <2>2, AnswerMoves DEF MInv
  <2> QED BY <1>3, <1>5, <1>6, <2>1, <2>3, <2>6, WithinCall DEF RunFields
<1> QED BY <1>4, <1>7, <1>8

\* The waits begin.
LEMMA WaitMInv == MInv /\ (AwaitToken \/ WaitFree) => MInv'
<1> SUFFICES ASSUME MInv, AwaitToken \/ WaitFree PROVE MInv'
  OBVIOUS
<1>1. /\ card' = card
      /\ UNCHANGED <<Stat, CardType, healthy, store, answer>>
      /\ \/ run.pc = "await" /\ run'.pc = "token"
         \/ run.pc = "offer" /\ run'.pc = "send"
      /\ \A f \in RunFields \ {"pc"} : run'[f] = run[f]
  BY DEF AwaitToken, WaitFree, Is, To, Rest, MInv, DataTypeOK, RunTypeOK, RunFields
<1>2. DataTypeOK'
  BY <1>1 DEF AwaitToken, WaitFree, To, MInv, DataTypeOK, RunTypeOK, CardTypeOK, RunFields
<1>3. /\ run'.op = run.op /\ run'.count = run.count /\ run'.left = run.left /\ run'.buf = run.buf
      /\ run'.cmd = run.cmd /\ run'.k = run.k /\ run'.sector = run.sector /\ run'.app = run.app
  BY <1>1 DEF RunFields
<1>4. Steps'
  BY <1>1, <1>3 DEF MInv, Steps, InitSteps, IoctlSteps, ReadSteps, WriteSteps, Stage, Sending, Old
<1>5. Reading' /\ Writing'
  BY <1>1, <1>3 DEF MInv, Reading, Writing, Stage, Sending, BufHolds, Written, Moved
<1> QED BY <1>1, <1>2, <1>3, <1>4, <1>5, WithinCall

\* A block goes behind those received before it.
LEMMA AppendHolds ==
  ASSUME NEW n \in Nat, NEW a, NEW v, NEW b, b = [i \in 1..n |-> v[a + i - 1]], a \in Int
  PROVE  Append(b, v[a + n]) = [i \in 1..n + 1 |-> v[a + i - 1]]
<1>1. Len(b) = n /\ DOMAIN b = 1..n
  OBVIOUS
<1>2. a + (n + 1) - 1 = a + n
  OBVIOUS
<1> QED BY <1>1, <1>2

\* What rcvr_datablock has brought, or not brought.
LEMMA TokenMInv == MInv /\ (Received \/ ErrorToken \/ TokenLate) => MInv'
<1> SUFFICES ASSUME MInv, Received \/ ErrorToken \/ TokenLate PROVE MInv'
  OBVIOUS
<1>1. /\ run.pc = "token" /\ UNCHANGED <<Stat, CardType, healthy, store, answer>>
  BY DEF Received, ErrorToken, TokenLate, Is, Rest
<1>2. \/ run' = run /\ card' = [card EXCEPT !.sends = Nobody]
      \/ run' = Replied(0) /\ card' \in {card, [card EXCEPT !.sends = Nobody]}
      \/ /\ run' = [Replied(1) EXCEPT !.buf = Append(@, store[card.sends])]
         /\ card.sends # Nobody
         /\ card' = [card EXCEPT !.sends = IF run.cmd = "CMD18" /\ @ + 1 \in Sectors
                                              THEN @ + 1 ELSE Nobody]
  BY DEF Received, ErrorToken, TokenLate
<1>3. card'.kind = card.kind /\ CardTypeOK'
  BY <1>1, <1>2 DEF MInv, DataTypeOK, CardTypeOK, CardFields
<1>4. \A f \in RunFields \ {"pc", "res", "buf"} : run'[f] = run[f]
  BY <1>2 DEF MInv, DataTypeOK, RunTypeOK, RunFields, Replied
<1>5. /\ run'.op = run.op /\ run'.count = run.count /\ run'.left = run.left
      /\ run'.cmd = run.cmd /\ run'.k = run.k /\ run'.sector = run.sector /\ run'.app = run.app
  BY <1>4 DEF RunFields
<1>6. \/ run'.pc = "token" /\ run'.buf = run.buf /\ card'.sends = Nobody
      \/ run'.pc = run.k /\ run'.res = 0
      \/ /\ run'.pc = run.k /\ run'.res = 1 /\ card.sends # Nobody
         /\ run'.buf = Append(run.buf, store[card.sends])
         /\ card'.sends \in {card.sends + 1, Nobody}
  BY <1>1, <1>2 DEF MInv, DataTypeOK, RunTypeOK, CardTypeOK, RunFields, CardFields, Replied
<1>7. RunTypeOK'
  <2>1. card.sends # Nobody => store[card.sends] \in Int
    BY DEF MInv, DataTypeOK, CardTypeOK
  <2>2. run'.buf \in Seq(Int)
    <3>1. run'.buf = run.buf \/ (card.sends # Nobody /\ run'.buf = Append(run.buf, store[card.sends]))
      BY <1>2 DEF MInv, DataTypeOK, RunTypeOK, RunFields, Replied
    <3>2. run.buf \in Seq(Int)
      BY DEF MInv, DataTypeOK, RunTypeOK
    <3>3. CASE card.sends # Nobody /\ run'.buf = Append(run.buf, store[card.sends])
      <4> DEFINE x == store[card.sends]
      <4>1. x \in Int
        BY <2>1, <3>3
      <4> HIDE DEF x
      <4>2. Append(run.buf, x) \in Seq(Int)
        BY <3>2, <4>1
      <4> QED BY <3>3, <4>2 DEF x
    <3> QED BY <3>1, <3>2, <3>3
  <2>3. run' = [f \in RunFields |-> run'[f]]
    BY <1>2 DEF MInv, DataTypeOK, RunTypeOK, RunFields, Replied
  <2> QED BY <1>5, <2>2, <2>3 DEF MInv, DataTypeOK, RunTypeOK
<1>8. run.op \in Ioctls \cup {"read"}
  BY <1>1 DEF MInv, Steps, InitSteps, WriteSteps, Sending, Old
<1>9. Steps'
  BY <1>1, <1>5, <1>6, <1>8
  DEF MInv, Steps, InitSteps, IoctlSteps, ReadSteps, WriteSteps, Stage, Sending, Ioctls
<1>10. Writing'
  BY <1>5, <1>8 DEF Writing, Ioctls
<1>11. Reading'
  <2> SUFFICES ASSUME healthy, run.op = "read" PROVE Reading'
    BY <1>1, <1>5 DEF Reading
  <2>1. /\ BufHolds(Moved) /\ card.sends \in {run.sector + Moved, Nobody}
        /\ \/ run.k = "done" /\ run.count = 1 /\ run.left = 1
           \/ run.k = "block" /\ run.left > 0
    BY <1>1 DEF MInv, Reading, Steps, ReadSteps
  <2>2. BufHolds(Moved)' <=> run'.buf = [i \in 1..Moved |-> store[run.sector + i - 1]]
    BY <1>1, <1>5 DEF BufHolds, Moved
  <2>3. CASE run'.pc = "token" /\ run'.buf = run.buf /\ card'.sends = Nobody
    BY <1>1, <1>5, <2>1, <2>3 DEF Reading, BufHolds, Moved, Stage, Sending
  <2>4. CASE run'.pc = run.k /\ run'.res = 0
    BY <1>5, <2>1, <2>4 DEF Reading, Stage, Sending
  <2>5. CASE /\ run'.pc = run.k /\ run'.res = 1 /\ card.sends # Nobody
             /\ run'.buf = Append(run.buf, store[card.sends])
             /\ card'.sends \in {card.sends + 1, Nobody}
    <3>1. Moved \in Nat /\ run.sector \in Int /\ card.sends = run.sector + Moved
      BY <2>1, <2>5 DEF MInv, DataTypeOK, RunTypeOK, Steps, ReadSteps, Moved
    <3>2. run'.buf = [i \in 1..Moved + 1 |-> store[run.sector + i - 1]]
      BY <2>1, <2>5, <3>1, AppendHolds DEF BufHolds
    <3>3. BufHolds(Moved + 1)'
      BY <1>1, <1>5, <3>2 DEF BufHolds, Moved
    <3>4. run.k = "done" => Moved + 1 = 1
      BY <2>1 DEF Moved
    <3> QED BY <1>1, <1>5, <2>1, <2>5, <3>1, <3>2, <3>3, <3>4
        DEF Reading, BufHolds, Moved, Stage, Sending
  <2> QED BY <1>6, <2>3, <2>4, <2>5
<1> QED BY <1>1, <1>3, <1>5, <1>7, <1>9, <1>10, <1>11, WithinCall DEF DataTypeOK

\* A block is taken: what the sector gets is what was meant for it.
LEMMA AcceptedMInv == MInv /\ Accepted => MInv'
<1> SUFFICES ASSUME MInv, Accepted PROVE MInv'
  OBVIOUS
<1>1. /\ run.pc = "send" /\ ~run.app /\ card.takes \in Sectors
      /\ run' = Replied(1)
      /\ store' = [store EXCEPT ![card.takes] = Value(run.sector + run.count - run.left)]
      /\ UNCHANGED <<Stat, CardType, answer, healthy>>
  BY DEF Accepted, Is
<1>2. card' = [card EXCEPT !.busy = TRUE,
                 !.takes = IF run.cmd = "CMD25" THEN @ + 1 ELSE Nobody]
  BY DEF Accepted
<1>3. /\ run'.pc = run.k /\ run'.res = 1
      /\ \A f \in RunFields \ {"pc", "res"} : run'[f] = run[f]
      /\ RunTypeOK'
  BY <1>1 DEF MInv, DataTypeOK, RunTypeOK, RunFields, Replied
<1>4. /\ run'.op = run.op /\ run'.count = run.count /\ run'.left = run.left /\ run'.buf = run.buf
      /\ run'.cmd = run.cmd /\ run'.k = run.k /\ run'.sector = run.sector /\ run'.app = run.app
  BY <1>3 DEF RunFields
<1>5. card'.kind = card.kind /\ CardTypeOK'
      /\ card'.takes = IF run.cmd = "CMD25" THEN card.takes + 1 ELSE Nobody
  <2>1. Value(run.sector + run.count - run.left) \in Int /\ Nobody \in Int
    BY SizeAssumption DEF MInv, DataTypeOK, RunTypeOK, Value, Nobody
  <2>2. store' \in [Sectors -> Int]
    BY <1>1, <2>1 DEF MInv, DataTypeOK, CardTypeOK
  <2>3. /\ card' = [f \in CardFields |-> card'[f]] /\ card'.kind = card.kind
        /\ card'.sends = card.sends
        /\ card'.takes = IF run.cmd = "CMD25" THEN card.takes + 1 ELSE Nobody
    BY <1>2 DEF MInv, DataTypeOK, CardTypeOK, CardFields
  <2>4. card'.takes \in Int
    BY <1>1, <2>1, <2>3 DEF Sectors
  <2> QED BY <2>2, <2>3, <2>4 DEF MInv, DataTypeOK, CardTypeOK
<1>6. /\ run.op = "write"
      /\ \/ run.k = "done" /\ run.count = 1 /\ run.left = 1
         \/ run.k = "taken" /\ run.left > 0 /\ run.cmd = "CMD25"
      /\ run.left <= run.count /\ run.count > 0
  BY <1>1 DEF MInv, Steps, InitSteps, IoctlSteps, ReadSteps, WriteSteps, Sending, Old
<1>7. Steps'
  BY <1>1, <1>3, <1>4, <1>6
  DEF MInv, Steps, InitSteps, IoctlSteps, ReadSteps, WriteSteps, Stage, Sending, Ioctls
<1>8. Reading'
  BY <1>4, <1>6 DEF Reading
<1>9. healthy => /\ Written(Moved) /\ card.takes = run.sector + Moved
                 /\ store' = [store EXCEPT ![card.takes] = Value(card.takes)]
  <2>1. healthy => Written(Moved) /\ card.takes = run.sector + Moved
    BY <1>1, <1>6 DEF MInv, Writing
  <2>2. run.sector + Moved = run.sector + run.count - run.left
    BY DEF MInv, DataTypeOK, RunTypeOK, Moved
  <2> QED BY <1>1, <2>1, <2>2
<1>10. healthy => Written(Moved + 1)'
  <2> SUFFICES ASSUME healthy, NEW i \in 0..(Moved + 1) - 1
               PROVE  store'[run.sector + i] = Value(run.sector + i)
    BY <1>1, <1>4 DEF Written, Moved, Value
  <2>1. Moved \in Nat /\ run.sector \in Int
    BY <1>6 DEF MInv, DataTypeOK, RunTypeOK, Moved
  <2>2. store \in [Sectors -> Int]
    BY DEF MInv, DataTypeOK, CardTypeOK
  <2>3. CASE i = Moved
    BY <1>1, <1>9, <2>2, <2>3
  <2>4. CASE i # Moved
    <3>1. i \in 0..Moved - 1 /\ run.sector + i # card.takes
          /\ run.sector + i \in Sectors
      <4>1. run.sector \in Nat /\ run.sector + Moved \in Sectors /\ NSectors \in Nat
        BY <1>1, <1>9, SizeAssumption DEF MInv, DataTypeOK, RunTypeOK
      <4> QED BY <1>9, <2>1, <2>4, <4>1 DEF Sectors
    <3>2. store[run.sector + i] = Value(run.sector + i)
      BY <1>9, <3>1 DEF Written
    <3> QED BY <1>9, <2>2, <3>1, <3>2
  <2> QED BY <2>3, <2>4, Zenon
<1>11. Writing'
  <2> SUFFICES ASSUME healthy PROVE Writing'
    BY <1>1 DEF Writing
  <2>1. run.k = "done" => Moved + 1 = 1
    BY <1>6 DEF Moved
  <2>2. Moved' = Moved /\ (run.k = "taken" => card'.takes = run.sector + Moved + 1)
    BY <1>4, <1>5, <1>6, <1>9 DEF Moved
  <2> QED BY <1>3, <1>4, <1>6, <1>10, <2>1, <2>2 DEF Writing, Stage, Sending
<1>12. Known' /\ run.op # "none" /\ "NOINIT" \notin Stat
  BY <1>1, <1>4, <1>5, <1>6 DEF MInv, Known, Large
<1>13. healthy => \A s \in Sectors : store'[s] \in {s, Value(s)}
  BY <1>1, <1>9 DEF MInv, Sound, DataTypeOK, CardTypeOK
<1>14. Sound'
  BY <1>1, <1>4, <1>6, <1>12, <1>13 DEF MInv, Sound, Value
<1>15. Faithful'
  BY <1>1, <1>6, <1>13, <1>14 DEF MInv, Sound, Faithful, Value
<1> QED BY <1>3, <1>5, <1>7, <1>8, <1>11, <1>12, <1>14, <1>15 DEF MInv, DataTypeOK

\* A block is refused, the token that stops a write is taken, or the card is
\* busy for too long.
LEMMA SentMInv == MInv /\ (Refused \/ Stopped \/ SendLate) => MInv'
<1> SUFFICES ASSUME MInv, Refused \/ Stopped \/ SendLate PROVE MInv'
  OBVIOUS
<1>1. /\ run.pc = "send" /\ UNCHANGED <<Stat, CardType, healthy, store, answer>>
      /\ \/ run' = Replied(0)
         \/ run' = Replied(1) /\ run.app
  BY DEF Refused, Stopped, SendLate, Is, Rest
<1>2. \/ card' = card
      \/ card' = [card EXCEPT !.takes = IF run.cmd = "CMD25" THEN @ ELSE Nobody]
      \/ card' = [card EXCEPT !.takes = Nobody, !.busy = TRUE]
  BY DEF Refused, Stopped, SendLate
<1>3. card'.kind = card.kind /\ CardTypeOK'
  <2>1. IsCard(card) /\ store' \in [Sectors -> Int]
    BY <1>1 DEF MInv, DataTypeOK, CardTypeOK, IsCard
  <2>2. Nobody \in Int
    BY DEF Nobody
  <2>3. CASE card' = card
    BY <2>1, <2>3 DEF CardTypeOK, IsCard
  <2>4. CASE card' = [card EXCEPT !.takes = IF run.cmd = "CMD25" THEN @ ELSE Nobody]
    <3>1. card' = [f \in CardFields |-> card'[f]] /\ card'.kind = card.kind
          /\ card'.sends = card.sends /\ card'.takes \in {card.takes, Nobody}
      BY <2>1, <2>4 DEF IsCard, CardFields
    <3> QED BY <2>1, <2>2, <3>1 DEF CardTypeOK, IsCard
  <2>5. CASE card' = [card EXCEPT !.takes = Nobody, !.busy = TRUE]
    <3>1. card' = [f \in CardFields |-> card'[f]] /\ card'.kind = card.kind
          /\ card'.sends = card.sends /\ card'.takes = Nobody
      BY <2>1, <2>5 DEF IsCard, CardFields
    <3> QED BY <2>1, <2>2, <3>1 DEF CardTypeOK, IsCard
  <2> QED BY <1>2, <2>3, <2>4, <2>5
<1>4. /\ run'.pc = run.k /\ run'.res \in {0, 1}
      /\ \A f \in RunFields \ {"pc", "res"} : run'[f] = run[f]
      /\ RunTypeOK'
  <2>1. RunTypeOK
    BY DEF MInv, DataTypeOK
  <2>2. PICK r \in {0, 1} : run' = Replied(r)
    BY <1>1
  <2>3. /\ run'.pc = run.k /\ run'.res = r
        /\ \A f \in RunFields \ {"pc", "res"} : run'[f] = run[f]
        /\ RunTypeOK'
    <3>1. run' = Replied(r)
      BY <2>2
    <3> QED BY <2>1, <3>1 DEF RunTypeOK, RunFields, Replied
  <2> QED BY <2>2, <2>3
<1>5. /\ run'.op = run.op /\ run'.count = run.count /\ run'.left = run.left /\ run'.buf = run.buf
      /\ run'.cmd = run.cmd /\ run'.k = run.k /\ run'.sector = run.sector /\ run'.app = run.app
  BY <1>4 DEF RunFields
<1>6. /\ run.op = "write"
      /\ \/ run.k = "done" /\ run.count = 1 /\ run.left = 1 /\ ~run.app
         \/ run.k = "taken" /\ run.left > 0 /\ run.cmd = "CMD25" /\ ~run.app
         \/ run.k = "ended" /\ run.app
  BY <1>1 DEF MInv, Steps, InitSteps, IoctlSteps, ReadSteps, WriteSteps, Sending, Old
<1>10. run'.res = 1 => run.k = "ended"
  <2>1. CASE run' = Replied(0)
    <3>1. run'.res = 0
      BY <2>1, <1>5 DEF MInv, DataTypeOK, RunTypeOK, RunFields, Replied
    <3> QED BY <3>1
  <2>2. CASE run.app
    BY <1>6, <2>2, Zenon
  <2> QED BY <1>1, <2>1, <2>2
<1>7. Steps'
  BY <1>1, <1>4, <1>5, <1>6
  DEF MInv, Steps, InitSteps, IoctlSteps, ReadSteps, WriteSteps, Stage, Sending, Ioctls
<1>8. Reading'
  BY <1>5, <1>6 DEF Reading
<1>9. Writing'
  <2> SUFFICES ASSUME healthy PROVE Writing'
    BY <1>1 DEF Writing
  <2>1. run.app /\ run.left = 0 => Written(run.count)
    BY <1>1, <1>6 DEF MInv, Writing
  <2> QED BY <1>1, <1>4, <1>5, <1>6, <1>10, <2>1 DEF Writing, Written, Stage, Sending
<1> QED BY <1>1, <1>3, <1>4, <1>5, <1>7, <1>8, <1>9, WithinCall DEF DataTypeOK

-----------------------------------------------------------------------------
(* The functions.                                                          *)

\* disk_initialize goes on.  Only the end of it says what the card is.
LEMMA InitializingMInv == MInv /\ (EnterIdle \/ ContinueInit) => MInv'
<1> SUFFICES ASSUME MInv, EnterIdle \/ ContinueInit PROVE MInv'
  OBVIOUS
<1>1. card' = card /\ UNCHANGED <<Stat, CardType, healthy, store, answer>>
  BY DEF EnterIdle, ContinueInit, Rest
<1>2. run.op = "init" /\ run.pc \notin Sending /\ InitSteps
  BY DEF EnterIdle, ContinueInit, Is, MInv, Steps, IoctlSteps, ReadSteps, WriteSteps, Sending
<1>3. RunTypeOK
  BY DEF MInv, DataTypeOK
<1>4. ASSUME NEW cmd, NEW arg, NEW k, run' = send_cmd(run, cmd, arg, k)
      PROVE  /\ RunTypeOK' /\ run'.op = "init" /\ run'.pc = "select" /\ run'.k = k
             /\ run'.cmd = cmd /\ run'.arg = arg /\ run'.ty = run.ty
  BY <1>2, <1>3, <1>4 DEF send_cmd, RunTypeOK, RunFields
<1>5. ASSUME NEW ty, run' = Found(ty)
      PROVE  RunTypeOK' /\ run'.op = "init" /\ run'.pc = "finish" /\ run'.ty = ty
  BY <1>2, <1>3, <1>5 DEF Found, Ended, RunTypeOK, RunFields
<1>6. ASSUME NEW pc, run' = [run EXCEPT !.pc = pc]
      PROVE  RunTypeOK' /\ run'.op = "init" /\ run'.pc = pc /\ run'.ty = run.ty
  BY <1>2, <1>3, <1>6 DEF RunTypeOK, RunFields
<1> USE DEF InitSteps, Stage, Sending, Old, Large
<1>7. RunTypeOK' /\ InitSteps' /\ run'.op = "init" /\ run'.pc # "idle"
  <2>1. CASE EnterIdle
    <3>1. run.pc = "cmd0"
      BY <2>1 DEF EnterIdle, Is
    <3>2. CASE run.res = 1
      BY <1>1, <1>2, <1>4, <2>1, <3>1, <3>2 DEF EnterIdle
    <3>3. CASE run.res # 1
      BY <1>1, <1>2, <1>5, <2>1, <3>1, <3>3 DEF EnterIdle
    <3> QED BY <3>2, <3>3
  <2>2. CASE ContinueInit
    <3> USE <1>1, <1>2, <2>2 DEF ContinueInit, Initializing, Again
    <3>1. CASE run.pc = "cmd8"
      BY <1>4, <1>6, <3>1
    <3>2. CASE run.pc = "loop"
      BY <1>4, <1>5, <3>2
    <3>3. CASE run.pc = "acmd41"
      BY <1>4, <1>5, <1>6, <3>3
    <3>4. CASE run.pc = "cmd58"
      BY <1>5, <3>4
    <3>5. CASE run.pc = "probe"
      <4>1. run' = [run EXCEPT !.ty = IF run.res <= 1 THEN "SD1" ELSE "MMC", !.pc = "loop1"]
        BY <3>5
      <4>2. /\ RunTypeOK' /\ run'.op = "init" /\ run'.pc = "loop1"
            /\ run'.ty \in {"SD1", "MMC"}
        BY <1>3, <4>1 DEF RunTypeOK, RunFields
      <4> QED BY <3>5, <4>2
    <3>6. CASE run.pc = "loop1"
      BY <1>4, <1>5, <3>6
    <3>7. CASE run.pc = "old"
      BY <1>4, <1>5, <1>6, <3>7
    <3>8. CASE run.pc = "cmd16"
      BY <1>5, <3>8
    <3> QED BY <3>1, <3>2, <3>3, <3>4, <3>5, <3>6, <3>7, <3>8
  <2> QED BY <2>1, <2>2
<1>8. Steps' /\ Reading' /\ Writing'
  BY <1>7 DEF Steps, IoctlSteps, ReadSteps, WriteSteps, Reading, Writing, Ioctls
<1>9. CardTypeOK'
  BY <1>1 DEF MInv, DataTypeOK, CardTypeOK
<1> QED BY <1>1, <1>2, <1>7, <1>8, <1>9, WithinCall DEF DataTypeOK

\* A transfer goes on with the next block, or stops.
LEMMA TransferringMInv == MInv /\ Continue => MInv'
<1> SUFFICES ASSUME MInv, Continue PROVE MInv'
  OBVIOUS
<1>1. /\ card' = card /\ UNCHANGED <<Stat, CardType, healthy, store, answer>>
      /\ run' = Transferring
      /\ run.pc \in {"cmd17", "cmd24", "cmd18", "block", "stopped", "acmd23", "cmd25", "taken",
                     "ended", "register", "answered", "done"}
  BY DEF Continue, Rest
<1>2. RunTypeOK /\ CardTypeOK' /\ Steps /\ Reading /\ Writing
  BY <1>1 DEF MInv, DataTypeOK, CardTypeOK
<1>3. ASSUME NEW r, r = [f \in RunFields |-> r[f]], NEW cmd, NEW arg, NEW k
      PROVE  LET n == send_cmd(r, cmd, arg, k) IN
             /\ n = [f \in RunFields |-> n[f]] /\ n.pc = "select" /\ n.k = k
             /\ n.cmd = cmd /\ n.arg = arg
             /\ n.op = r.op /\ n.sector = r.sector /\ n.count = r.count
             /\ n.left = r.left /\ n.buf = r.buf
  BY <1>3 DEF send_cmd, RunFields
<1>4. ASSUME NEW r, r = [f \in RunFields |-> r[f]], NEW k
      PROVE  LET n == Await(r, k) IN
             /\ n = [f \in RunFields |-> n[f]] /\ n.pc = "await" /\ n.k = k /\ n.cmd = r.cmd
             /\ n.op = r.op /\ n.sector = r.sector /\ n.count = r.count
             /\ n.left = r.left /\ n.buf = r.buf
  BY <1>4 DEF Await, RunFields
<1>5. ASSUME NEW r, r = [f \in RunFields |-> r[f]], NEW stop, NEW k
      PROVE  LET n == Offer(r, stop, k) IN
             /\ n = [f \in RunFields |-> n[f]] /\ n.pc = "offer" /\ n.k = k /\ n.cmd = r.cmd
             /\ n.app = stop
             /\ n.op = r.op /\ n.sector = r.sector /\ n.count = r.count
             /\ n.left = r.left /\ n.buf = r.buf
  BY <1>5 DEF Offer, RunFields
<1>6. ASSUME NEW ok
      PROVE  LET n == Ended(run, ok) IN
             /\ n = [f \in RunFields |-> n[f]] /\ n.pc = "finish"
             /\ n.res = 1 => ok
             /\ n.op = run.op /\ n.sector = run.sector /\ n.count = run.count
             /\ n.left = run.left /\ n.buf = run.buf
  <2> DEFINE v == IF ok THEN 1 ELSE 0
             n == [run EXCEPT !.pc = "finish", !.res = v]
  <2>1. run = [f \in RunFields |-> run[f]]
    BY <1>2 DEF RunTypeOK
  <2>2. v = 1 => ok
    <3>1. CASE ok
      BY <3>1
    <3>2. CASE ~ok
      <4>1. v = 0
        BY <3>2, Zenon
      <4> QED BY <4>1
    <3> QED BY <3>1, <3>2, Zenon
  <2>3. Ended(run, ok) = n
    BY DEF Ended
  <2> HIDE DEF v
  <2>4. /\ n = [f \in RunFields |-> n[f]] /\ n.pc = "finish" /\ n.res = v
        /\ n.op = run.op /\ n.sector = run.sector /\ n.count = run.count
        /\ n.left = run.left /\ n.buf = run.buf
    BY <2>1 DEF RunFields
  <2> HIDE DEF n
  <2> QED BY <2>2, <2>3, <2>4, Zenon
<1>7. /\ Counted = [f \in RunFields |-> Counted[f]]
      /\ Counted.left = run.left - 1 /\ Counted.op = run.op /\ Counted.sector = run.sector
      /\ Counted.count = run.count /\ Counted.buf = run.buf /\ Counted.cmd = run.cmd
  BY <1>2 DEF Counted, RunTypeOK, RunFields
<1> HIDE DEF Counted
<1>12. ASSUME NEW ok, run' = Ended(run, ok)
       PROVE  /\ RunTypeOK' /\ run'.pc = "finish" /\ (run'.res = 1 => ok)
              /\ run'.op = run.op /\ run'.sector = run.sector /\ run'.count = run.count
              /\ run'.left = run.left /\ run'.buf = run.buf
  <2>1. /\ run' = [f \in RunFields |-> run'[f]] /\ run'.pc = "finish"
        /\ (run'.res = 1 => ok)
        /\ run'.op = run.op /\ run'.sector = run.sector /\ run'.count = run.count
        /\ run'.left = run.left /\ run'.buf = run.buf
    BY <1>6, <1>12, Zenon
  <2>2. RunTypeOK'
    BY <1>2, <2>1 DEF RunTypeOK
  <2> QED BY <2>1, <2>2, Zenon
<1>13. ASSUME NEW k, run' = Await(run, k)
       PROVE  /\ RunTypeOK' /\ run'.pc = "await" /\ run'.k = k /\ run'.cmd = run.cmd
              /\ run'.op = run.op /\ run'.sector = run.sector /\ run'.count = run.count
              /\ run'.left = run.left /\ run'.buf = run.buf
  BY <1>2, <1>4, <1>13 DEF RunTypeOK
<1> HIDE DEF Ended
<1>8. CASE run.op \in Ioctls
  <2>1. run.pc \in {"register", "answered", "done"}
    BY <1>1, <1>2, <1>8 DEF Steps, IoctlSteps, Sending
  <2>2. run' = Await(run, "done") \/ \E ok \in BOOLEAN : run' = Ended(run, ok)
    BY <1>1, <2>1 DEF Transferring
  <2>3. /\ RunTypeOK' /\ run'.op = run.op
        /\ run'.pc = "finish" \/ (run'.pc = "await" /\ run'.k = "done")
    <3>1. CASE run' = Await(run, "done")
      BY <1>13, <3>1
    <3>2. ASSUME NEW ok, run' = Ended(run, ok)
          PROVE  RunTypeOK' /\ run'.op = run.op /\ run'.pc = "finish"
      BY <1>12, <3>2, Zenon
    <3> QED BY <2>2, <3>1, <3>2
  <2>4. Steps' /\ Reading' /\ Writing'
    BY <1>8, <2>3 DEF Steps, InitSteps, IoctlSteps, ReadSteps, WriteSteps, Reading, Writing,
                      Ioctls, Stage, Sending
  <2> QED BY <1>1, <1>2, <1>8, <2>3, <2>4, WithinCall DEF DataTypeOK, Ioctls
<1>9. CASE run.op = "read"
  <2>1. ReadSteps /\ run.pc \in {"cmd17", "cmd18", "block", "done", "stopped"}
        /\ run.count > 0 /\ run.left <= run.count
    BY <1>1, <1>2, <1>9 DEF Steps, ReadSteps, Sending
  <2>2. /\ run.pc \in {"cmd17", "cmd18"} => run.left = run.count /\ run.buf = <<>>
        /\ run.pc = "cmd17" => run.count = 1 /\ run.cmd = "CMD17"
        /\ run.pc = "cmd18" => run.cmd = "CMD18"
        /\ run.pc = "block" => run.left > 0 /\ run.cmd = "CMD18"
        /\ run.pc = "done" => run.count = 1
    BY <2>1, <1>9 DEF ReadSteps, Stage, Sending
  <2>3. healthy =>
          /\ run.pc \in {"cmd17", "cmd18"} /\ run.res = 0 => card.sends = run.sector
          /\ run.pc = "done" /\ run.res = 1 => BufHolds(1)
          /\ run.pc = "block" /\ run.res # 0 =>
               BufHolds(Moved + 1) /\ card.sends \in {run.sector + Moved + 1, Nobody}
          /\ run.pc = "stopped" /\ run.left = 0 => BufHolds(run.count)
    BY <1>2, <1>9 DEF Reading, Stage, Sending
  <2>4. run.left \in Int /\ run.count \in Int /\ run.sector \in Nat
    BY <1>2 DEF RunTypeOK
  <2> DEFINE Goal == RunTypeOK' /\ ReadSteps' /\ run'.op = "read" /\ run'.pc # "idle" /\ Reading'
  <2>5. ASSUME NEW ok, run' = Ended(run, ok), healthy /\ ok => BufHolds(run.count)
        PROVE  Goal
    <3>1. /\ RunTypeOK' /\ run'.pc = "finish" /\ (run'.res = 1 => ok)
          /\ run'.op = run.op /\ run'.sector = run.sector /\ run'.count = run.count
          /\ run'.left = run.left /\ run'.buf = run.buf
      BY <1>12, <2>5, Zenon
    <3>2. ReadSteps'
      BY <1>9, <2>1, <3>1 DEF ReadSteps, Stage, Sending
    <3>3. healthy /\ run'.res = 1 => BufHolds(run.count)
      BY <2>5, <3>1, Zenon
    <3>4. BufHolds(run.count)' <=> BufHolds(run.count)
      BY <1>1, <3>1 DEF BufHolds
    <3>5. Reading'
      BY <1>1, <3>1, <3>3, <3>4 DEF Reading, Stage, Sending
    <3> QED BY <1>9, <3>1, <3>2, <3>5
  <2>6. ASSUME run.pc = "cmd17" PROVE Goal
    <3>1. CASE run.res = 0
      <4>1. run' = Await(run, "done")
        BY <1>1, <2>6, <3>1 DEF Transferring
      <4>2. /\ RunTypeOK' /\ run'.pc = "await" /\ run'.k = "done" /\ run'.cmd = "CMD17"
            /\ run'.op = "read" /\ run'.sector = run.sector /\ run'.count = 1
            /\ run'.left = 1 /\ run'.buf = <<>> /\ run.count = 1 /\ run.left = 1
        BY <1>9, <1>13, <2>2, <2>6, <4>1
      <4>3. ReadSteps'
        BY <4>2 DEF ReadSteps, Stage, Sending
      <4>4. Moved' = 0 /\ BufHolds(0)'
        BY <4>2 DEF Moved, BufHolds
      <4>5. Reading'
        BY <1>1, <2>3, <2>4, <2>6, <3>1, <4>2, <4>4 DEF Reading, Stage, Sending
      <4> QED BY <4>2, <4>3, <4>5
    <3>2. CASE run.res # 0
      <4>1. run' = Ended(run, FALSE)
        BY <1>1, <2>6, <3>2 DEF Transferring
      <4> QED BY <2>5, <4>1, Zenon
    <3> QED BY <3>1, <3>2
  <2>7. ASSUME run.pc = "cmd18" PROVE Goal
    <3>1. CASE run.res = 0
      <4>1. run' = Await(run, "block")
        BY <1>1, <2>7, <3>1 DEF Transferring
      <4>2. /\ RunTypeOK' /\ run'.pc = "await" /\ run'.k = "block" /\ run'.cmd = "CMD18"
            /\ run'.op = "read" /\ run'.sector = run.sector /\ run'.count = run.count
            /\ run'.left = run.count /\ run'.buf = <<>>
        BY <1>9, <1>13, <2>2, <2>7, <4>1
      <4>3. ReadSteps'
        BY <2>1, <2>4, <4>2 DEF ReadSteps, Stage, Sending
      <4>4. Moved' = 0 /\ BufHolds(0)'
        BY <2>4, <4>2 DEF Moved, BufHolds
      <4>5. Reading'
        BY <1>1, <2>3, <2>4, <2>7, <3>1, <4>2, <4>4 DEF Reading, Stage, Sending
      <4> QED BY <4>2, <4>3, <4>5
    <3>2. CASE run.res # 0
      <4>1. run' = Ended(run, FALSE)
        BY <1>1, <2>7, <3>2 DEF Transferring
      <4> QED BY <2>5, <4>1, Zenon
    <3> QED BY <3>1, <3>2
  <2>8. ASSUME NEW r, r = [f \in RunFields |-> r[f]], r.left \in {run.left, run.left - 1},
               r.op = "read", r.sector = run.sector, r.count = run.count, r.buf = run.buf,
               run' = send_cmd(r, "CMD12", 0, "stopped"),
               healthy /\ r.left = 0 => BufHolds(run.count)
        PROVE  Goal
    <3>1. /\ run' = [f \in RunFields |-> run'[f]] /\ run'.pc = "select" /\ run'.k = "stopped"
          /\ run'.cmd = "CMD12" /\ run'.op = "read" /\ run'.sector = run.sector
          /\ run'.count = run.count /\ run'.left = r.left /\ run'.buf = run.buf
      BY <1>3, <2>8
    <3>2. RunTypeOK' /\ run'.left <= run.left
      BY <1>2, <2>4, <2>8, <3>1 DEF RunTypeOK
    <3>3. ReadSteps'
      BY <2>1, <2>4, <3>1, <3>2 DEF ReadSteps, Stage, Sending, RunTypeOK
    <3>4. BufHolds(run.count)' <=> BufHolds(run.count)
      BY <1>1, <3>1 DEF BufHolds
    <3>5. Reading'
      BY <1>1, <2>8, <3>1, <3>4 DEF Reading, Stage, Sending
    <3> QED BY <3>1, <3>2, <3>3, <3>5
  <2>9. ASSUME run.pc = "block" PROVE Goal
    <3>1. CASE run.res = 0
      <4>1. run' = send_cmd(run, "CMD12", 0, "stopped")
        BY <1>1, <2>9, <3>1 DEF Transferring
      <4> QED BY <1>2, <1>9, <2>2, <2>8, <2>9, <4>1 DEF RunTypeOK
    <3>2. CASE run.res # 0 /\ run.left > 1
      <4>1. run' = Await(Counted, "block")
        BY <1>1, <2>9, <3>2 DEF Transferring
      <4>2. /\ run' = [f \in RunFields |-> run'[f]]
            /\ run'.pc = "await" /\ run'.k = "block" /\ run'.cmd = "CMD18"
            /\ run'.op = "read" /\ run'.sector = run.sector /\ run'.count = run.count
            /\ run'.left = run.left - 1 /\ run'.buf = run.buf
        BY <1>4, <1>7, <1>9, <2>2, <2>9, <4>1
      <4>3. RunTypeOK'
        BY <1>2, <2>4, <4>2 DEF RunTypeOK
      <4>4. ReadSteps'
        BY <2>1, <2>4, <3>2, <4>2 DEF ReadSteps, Stage, Sending
      <4>7. Moved' = Moved + 1
        BY <2>4, <4>2 DEF Moved
      <4>5. Moved' = Moved + 1 /\ (BufHolds(Moved)' <=> BufHolds(Moved + 1))
        BY <1>1, <4>2, <4>7 DEF BufHolds
      <4>6. Reading'
        <5>1. Moved \in Int
          BY <2>4 DEF Moved
        <5> QED BY <1>1, <2>3, <2>4, <2>9, <3>2, <4>2, <4>5, <5>1 DEF Reading, Stage, Sending
      <4> QED BY <4>2, <4>3, <4>4, <4>6
    <3>3. CASE run.res # 0 /\ ~(run.left > 1)
      <4>1. run' = send_cmd(Counted, "CMD12", 0, "stopped")
        BY <1>1, <2>9, <3>3 DEF Transferring
      <4>2. Moved + 1 = run.count /\ Counted.left = run.left - 1
        BY <1>7, <2>2, <2>4, <2>9, <3>3 DEF Moved
      <4>3. healthy => BufHolds(run.count)
        BY <2>3, <2>9, <3>3, <4>2
      <4> QED BY <1>7, <1>9, <2>8, <4>1, <4>3
    <3> QED BY <3>1, <3>2, <3>3
  <2>10. ASSUME run.pc = "stopped" PROVE Goal
    <3> DEFINE ok == run.left = 0
    <3>1. run' = Ended(run, ok)
      BY <1>1, <2>10 DEF Transferring
    <3>2. healthy /\ ok => BufHolds(run.count)
      BY <2>3, <2>10
    <3> HIDE DEF ok
    <3> QED BY <2>5, <3>1, <3>2, Zenon
  <2>11. ASSUME run.pc = "done" PROVE Goal
    <3> DEFINE ok == run.res = 1
    <3>1. run' = Ended(run, ok)
      BY <1>1, <2>11 DEF Transferring
    <3>2. healthy /\ ok => BufHolds(run.count)
      BY <2>2, <2>3, <2>11
    <3> HIDE DEF ok
    <3> QED BY <2>5, <3>1, <3>2, Zenon
  <2>12. Goal
    BY <2>1, <2>6, <2>7, <2>9, <2>10, <2>11
  <2>13. Steps' /\ Writing'
    BY <2>12 DEF Steps, InitSteps, IoctlSteps, WriteSteps, Writing, Ioctls
  <2> QED BY <1>1, <1>2, <1>9, <2>12, <2>13, WithinCall DEF DataTypeOK
<1>14. ASSUME NEW r, r = [f \in RunFields |-> r[f]], NEW stop, NEW k, run' = Offer(r, stop, k)
       PROVE  /\ run' = [f \in RunFields |-> run'[f]] /\ run'.pc = "offer" /\ run'.k = k
              /\ run'.cmd = r.cmd /\ (run'.app <=> stop)
              /\ run'.op = r.op /\ run'.sector = r.sector /\ run'.count = r.count
              /\ run'.left = r.left /\ run'.buf = r.buf
  <2>1. LET n == Offer(r, stop, k) IN
        /\ n = [f \in RunFields |-> n[f]] /\ n.pc = "offer" /\ n.k = k /\ n.cmd = r.cmd
        /\ n.app = stop
        /\ n.op = r.op /\ n.sector = r.sector /\ n.count = r.count
        /\ n.left = r.left /\ n.buf = r.buf
    BY <1>5, <1>14
  <2> QED BY <1>14, <2>1, Zenon
<1>10. CASE run.op = "write"
  <2>1. WriteSteps /\ run.pc \in {"acmd23", "cmd24", "cmd25", "taken", "done", "ended"}
        /\ run.count > 0 /\ run.left <= run.count
    BY <1>1, <1>2, <1>10 DEF Steps, WriteSteps, Sending
  <2>2. /\ run.pc \in {"acmd23", "cmd24", "cmd25"} => run.left = run.count
        /\ run.pc = "cmd24" => run.count = 1 /\ run.cmd = "CMD24"
        /\ run.pc = "cmd25" => run.cmd = "CMD25"
        /\ run.pc = "taken" => run.left > 0 /\ run.cmd = "CMD25"
        /\ run.pc = "done" => run.count = 1
    BY <2>1, <1>10 DEF WriteSteps, Stage, Sending
  <2>3. healthy =>
          /\ run.pc \in {"cmd24", "cmd25"} /\ run.res = 0 => card.takes = run.sector
          /\ run.pc = "done" /\ run.res = 1 => Written(1)
          /\ run.pc = "taken" /\ run.res # 0 =>
               Written(Moved + 1) /\ card.takes = run.sector + Moved + 1
          /\ run.pc = "ended" /\ run.left = 0 => Written(run.count)
    BY <1>2, <1>10 DEF Writing, Stage, Sending
  <2>4. /\ run.left \in Int /\ run.count \in Int /\ run.sector \in Nat
        /\ run = [f \in RunFields |-> run[f]]
    BY <1>2 DEF RunTypeOK
  <2> DEFINE Goal == RunTypeOK' /\ WriteSteps' /\ run'.op = "write" /\ run'.pc # "idle" /\ Writing'
  <2>5. ASSUME NEW ok, run' = Ended(run, ok), healthy /\ ok => Written(run.count)
        PROVE  Goal
    <3>1. /\ RunTypeOK' /\ run'.pc = "finish" /\ (run'.res = 1 => ok)
          /\ run'.op = run.op /\ run'.sector = run.sector /\ run'.count = run.count
          /\ run'.left = run.left /\ run'.buf = run.buf
      BY <1>12, <2>5, Zenon
    <3>2. WriteSteps'
      BY <1>10, <2>1, <3>1 DEF WriteSteps, Stage, Sending
    <3>3. healthy /\ run'.res = 1 => Written(run.count)
      BY <2>5, <3>1, Zenon
    <3>4. Written(run.count)' <=> Written(run.count)
      BY <1>1, <3>1 DEF Written, Value
    <3>5. Writing'
      BY <1>1, <3>1, <3>3, <3>4 DEF Writing, Stage, Sending
    <3> QED BY <1>10, <3>1, <3>2, <3>5
  <2>6. ASSUME NEW k, run.res = 0, run' = Offer(run, FALSE, k),
               \/ run.pc = "cmd24" /\ k = "done"
               \/ run.pc = "cmd25" /\ k = "taken"
        PROVE  Goal
    <3>1. /\ run' = [f \in RunFields |-> run'[f]] /\ run'.pc = "offer" /\ run'.k = k
          /\ run'.cmd = run.cmd /\ ~run'.app
          /\ run'.op = "write" /\ run'.sector = run.sector /\ run'.count = run.count
          /\ run'.left = run.left /\ run'.buf = run.buf
      BY <1>10, <1>14, <2>4, <2>6, Zenon
    <3>2. RunTypeOK'
      BY <1>2, <3>1 DEF RunTypeOK
    <3>3. WriteSteps'
      BY <2>1, <2>2, <2>4, <2>6, <3>1 DEF WriteSteps, Stage, Sending
    <3>8. run'.sector = run.sector /\ run'.count = run.count /\ run'.left = run.left
      BY <3>1, Zenon
    <3>9. run.left = run.count /\ (healthy => card.takes = run.sector)
      BY <2>2, <2>3, <2>6, Zenon
    <3>4. Moved' = 0
      BY <2>4, <3>8, <3>9 DEF Moved
    <3>6. Written(Moved)'
      <4>1. 0..Moved' - 1 = {}
        BY <3>4
      <4> QED BY <4>1 DEF Written
    <3>7. healthy => card'.takes = run'.sector + Moved'
      BY <1>1, <2>4, <3>4, <3>8, <3>9
    <3>5. Writing'
      BY <1>1, <3>1, <3>6, <3>7 DEF Writing, Stage, Sending
    <3> QED BY <3>1, <3>2, <3>3, <3>5
  <2>7. ASSUME NEW r, r = [f \in RunFields |-> r[f]], r.left \in Int, r.left <= run.left,
               r.op = "write", r.sector = run.sector, r.count = run.count, r.buf = run.buf,
               run' = Offer(r, TRUE, "ended"),
               healthy /\ r.left = 0 => Written(run.count)
        PROVE  Goal
    <3>1. /\ run' = [f \in RunFields |-> run'[f]] /\ run'.pc = "offer" /\ run'.k = "ended"
          /\ run'.app
          /\ run'.op = "write" /\ run'.sector = run.sector /\ run'.count = run.count
          /\ run'.left = r.left /\ run'.buf = run.buf
      BY <1>14, <2>7, Zenon
    <3>2. RunTypeOK'
      BY <1>2, <2>7, <3>1 DEF RunTypeOK
    <3>8. r.left \in Int /\ r.left <= run.left /\ run'.count = run.count /\ run'.left = r.left
      BY <2>7, <3>1, Zenon
    <3>6. run'.count > 0 /\ run'.left <= run'.count
      BY <2>1, <2>4, <3>8
    <3>3. WriteSteps'
      BY <3>1, <3>6 DEF WriteSteps, Stage, Sending
    <3>4. Written(run.count)' <=> Written(run.count)
      BY <1>1, <3>1 DEF Written, Value
    <3>5. Writing'
      BY <1>1, <2>7, <3>1, <3>4 DEF Writing, Stage, Sending
    <3> QED BY <3>1, <3>2, <3>3, <3>5
  <2>8. ASSUME run.pc \in {"cmd24", "cmd25"} PROVE Goal
    <3>1. CASE run.res = 0
      <4>1. \/ run.pc = "cmd24" /\ run' = Offer(run, FALSE, "done")
            \/ run.pc = "cmd25" /\ run' = Offer(run, FALSE, "taken")
        BY <1>1, <2>8, <3>1 DEF Transferring
      <4> QED BY <2>6, <3>1, <4>1
    <3>2. CASE run.res # 0
      <4>1. run' = Ended(run, FALSE)
        BY <1>1, <2>8, <3>2 DEF Transferring
      <4> QED BY <2>5, <4>1, Zenon
    <3> QED BY <3>1, <3>2
  <2>9. ASSUME run.pc = "acmd23" PROVE Goal
    <3>1. run' = send_cmd(run, "CMD25", Address(run.sector), "cmd25")
      BY <1>1, <2>9 DEF Transferring
    <3>2. /\ run' = [f \in RunFields |-> run'[f]] /\ run'.pc = "select" /\ run'.k = "cmd25"
          /\ run'.cmd = "CMD25" /\ run'.op = "write" /\ run'.sector = run.sector
          /\ run'.count = run.count /\ run'.left = run.left /\ run'.buf = run.buf
          /\ run'.arg = Address(run.sector)
      BY <1>3, <1>10, <2>4, <3>1
    <3>3. RunTypeOK'
      BY <1>2, <3>2 DEF RunTypeOK
    <3>4. WriteSteps'
      BY <2>1, <2>2, <2>9, <3>2 DEF WriteSteps, Stage, Sending
    <3>5. healthy => SectorOf(card, Address(run.sector)) = run.sector
      <4>1. healthy => Address(run.sector) =
              IF card.kind = "SDHC" THEN run.sector ELSE run.sector * Block
        BY DEF MInv, Known, Large, Address
      <4> QED BY <2>4, <4>1, AddressFound
    <3>6. Addressed' <=> SectorOf(card, Address(run.sector)) = run.sector
      BY <1>1, <3>2 DEF Addressed, SectorOf
    <3>7. Writing'
      BY <1>1, <3>2, <3>5, <3>6 DEF Writing, Stage, Sending
    <3> QED BY <3>2, <3>3, <3>4, <3>7
  <2>10. ASSUME run.pc = "taken" PROVE Goal
    <3>1. CASE run.res = 0
      <4>1. run' = Offer(run, TRUE, "ended")
        BY <1>1, <2>10, <3>1 DEF Transferring
      <4>2. run.left <= run.left /\ run.left # 0
        BY <2>2, <2>4, <2>10
      <4> QED BY <1>10, <2>4, <2>7, <4>1, <4>2, Zenon
    <3>2. CASE run.res # 0 /\ run.left = 1
      <4>1. run' = Offer(Counted, TRUE, "ended")
        <5>1. run' = Offer(Counted, run.left = 1, IF run.left = 1 THEN "ended" ELSE "taken")
          BY <1>1, <2>10, <3>2 DEF Transferring
        <5>2. (run.left = 1) = TRUE
          BY <3>2, Zenon
        <5> QED BY <3>2, <5>1, <5>2, Zenon
      <4>2. Moved + 1 = run.count /\ Counted.left = 0
        BY <1>7, <2>4, <3>2 DEF Moved
      <4>3. healthy => Written(run.count)
        BY <2>3, <2>10, <3>2, <4>2
      <4>4. Counted.left \in Int /\ Counted.left <= run.left
        BY <2>4, <3>2, <4>2
      <4> QED BY <1>7, <1>10, <2>7, <4>1, <4>3, <4>4
    <3>3. CASE run.res # 0 /\ run.left # 1
      <4>1. run' = Offer(Counted, FALSE, "taken")
        <5>1. run' = Offer(Counted, run.left = 1, IF run.left = 1 THEN "ended" ELSE "taken")
          BY <1>1, <2>10, <3>3 DEF Transferring
        <5>2. (run.left = 1) = FALSE
          BY <3>3, Zenon
        <5> QED BY <3>3, <5>1, <5>2, Zenon
      <4>2. /\ run' = [f \in RunFields |-> run'[f]] /\ run'.pc = "offer" /\ run'.k = "taken"
            /\ run'.cmd = "CMD25" /\ ~run'.app
            /\ run'.op = "write" /\ run'.sector = run.sector /\ run'.count = run.count
            /\ run'.left = run.left - 1 /\ run'.buf = run.buf
        BY <1>7, <1>10, <1>14, <2>2, <2>10, <4>1, Zenon
      <4>3. RunTypeOK'
        BY <1>2, <2>4, <4>2 DEF RunTypeOK
      <4>4. WriteSteps'
        BY <2>1, <2>2, <2>4, <2>10, <3>3, <4>2 DEF WriteSteps, Stage, Sending
      <4>5. Moved' = Moved + 1 /\ Moved \in Int
        BY <2>4, <4>2 DEF Moved
      <4>6. Written(Moved)' <=> Written(Moved + 1)
        BY <1>1, <4>2, <4>5 DEF Written, Value
      <4>7. Writing'
        BY <1>1, <2>3, <2>4, <2>10, <3>3, <4>2, <4>5, <4>6 DEF Writing, Stage, Sending
      <4> QED BY <4>2, <4>3, <4>4, <4>7
    <3> QED BY <3>1, <3>2, <3>3
  <2>11. ASSUME run.pc = "ended" PROVE Goal
    <3> DEFINE ok == run.res = 1 /\ run.left = 0
    <3>1. run' = Ended(run, ok)
      BY <1>1, <2>11 DEF Transferring
    <3>2. healthy /\ ok => Written(run.count)
      BY <2>3, <2>11
    <3> HIDE DEF ok
    <3> QED BY <2>5, <3>1, <3>2, Zenon
  <2>12. ASSUME run.pc = "done" PROVE Goal
    <3> DEFINE ok == run.res = 1
    <3>1. run' = Ended(run, ok)
      BY <1>1, <2>12 DEF Transferring
    <3>2. healthy /\ ok => Written(run.count)
      BY <2>2, <2>3, <2>12
    <3> HIDE DEF ok
    <3> QED BY <2>5, <3>1, <3>2, Zenon
  <2>13. Goal
    BY <2>1, <2>8, <2>9, <2>10, <2>11, <2>12
  <2>15. Steps' /\ Reading'
    BY <2>13 DEF Steps, InitSteps, IoctlSteps, ReadSteps, Reading, Ioctls
  <2> QED BY <1>1, <1>2, <1>10, <2>13, <2>15, WithinCall DEF DataTypeOK
<1>11. run.op \in Ioctls \cup {"read", "write"}
  BY <1>1, <1>2 DEF Steps, InitSteps, Sending, Old
<1> QED BY <1>8, <1>9, <1>10, <1>11

\* The end of a call: what has been moved is what the answer says.
LEMMA FinishMInv == MInv /\ Finish => MInv'
<1> SUFFICES ASSUME MInv, Finish PROVE MInv'
  OBVIOUS
<1>1. /\ run.pc = "finish" /\ run' = Resting /\ card' = card /\ store' = store
      /\ run.op # "none"
  BY DEF Finish, Is, MInv, Steps
<1>2. run'.op = "none" /\ run'.pc = "idle"
  BY <1>1 DEF Resting
<1>3. DataTypeOK'
  <2>1. CardTypeOK'
    BY <1>1 DEF MInv, DataTypeOK, CardTypeOK
  <2>2. RunTypeOK'
    <3>1. Resting = [f \in RunFields |-> Resting[f]]
      BY DEF Resting, RunFields
    <3>2. Resting.sector = 0 /\ Resting.count = 0 /\ Resting.left = 0 /\ Resting.buf = <<>>
      BY DEF Resting
    <3>3. <<>> \in Seq(Int)
      OBVIOUS
    <3>4. /\ run' = [f \in RunFields |-> run'[f]]
          /\ run'.sector = 0 /\ run'.count = 0 /\ run'.left = 0 /\ run'.buf = <<>>
      BY <1>1, <3>1, <3>2, Zenon
    <3> QED BY <3>3, <3>4 DEF RunTypeOK
  <2> QED BY <2>1, <2>2 DEF DataTypeOK
<1>4. Steps' /\ Reading' /\ Writing'
  BY <1>2 DEF Steps, InitSteps, IoctlSteps, ReadSteps, WriteSteps, Reading, Writing, Ioctls
<1>5. CASE run.op = "init"
  <2>1. /\ CardType' = run.ty /\ answer'.op = "init"
        /\ healthy' <=> (run.ty # "none" /\ (healthy \/ "NOINIT" \in Stat))
        /\ "NOINIT" \in Stat' => "NOINIT" \in Stat /\ run.ty = "none"
    <3>1. /\ CardType' = run.ty
          /\ healthy' = (run.ty # "none" /\ (healthy \/ "NOINIT" \in Stat))
          /\ Stat' = IF run.ty # "none" THEN Stat \ {"NOINIT"} ELSE Stat
          /\ answer' = Answered(IF "NOINIT" \in Stat' THEN "NOINIT" ELSE "OK")
      BY <1>5 DEF Finish
    <3>2. answer'.op = "init"
      BY <1>5, <3>1 DEF Answered
    <3>3. healthy' <=> (run.ty # "none" /\ (healthy \/ "NOINIT" \in Stat))
      BY <3>1, Zenon
    <3>4. "NOINIT" \in Stat' => "NOINIT" \in Stat /\ run.ty = "none"
      BY <3>1
    <3> QED BY <3>1, <3>2, <3>3, <3>4, Zenon
  <2>2. run.ty # "none" => (run.ty = "SDHC" <=> Large)
    BY <1>1, <1>5 DEF MInv, Steps, InitSteps
  <2>3. Known'
    BY <1>1, <1>2, <2>1, <2>2 DEF Known, Large
  <2>4. healthy' \/ "NOINIT" \in Stat' => \A s \in Sectors : store'[s] \in {s, Value(s)}
    BY <1>1, <2>1 DEF MInv, Sound
  <2>5. Sound' /\ Faithful'
    BY <1>2, <2>1, <2>4 DEF Sound, Faithful, Value
  <2> QED BY <1>3, <1>4, <2>3, <2>5 DEF MInv
<1>6. CASE run.op # "init"
  <2>1. /\ answer' = Answered(IF run.res = 1 THEN "OK" ELSE "ERROR")
        /\ UNCHANGED <<CardType, healthy, Stat>>
    BY <1>6 DEF Finish
  <2>2. "NOINIT" \notin Stat
    BY <1>1, <1>6 DEF MInv, Known
  <2>3. Known' /\ Sound'
    BY <1>1, <1>2, <2>1, <2>2 DEF MInv, Known, Sound, Large, Value
  <2>4. /\ answer'.op = run.op /\ answer'.sector = run.sector /\ answer'.count = run.count
        /\ answer'.buf = run.buf /\ (answer'.res = "OK" => run.res = 1)
    BY <2>1 DEF Answered
  <2>5. Faithful'
    <3> SUFFICES ASSUME healthy PROVE Faithful'
      BY <2>1 DEF Faithful
    <3>1. run.op = "read" /\ run.res = 1 => BufHolds(run.count)
      BY <1>1 DEF MInv, Reading
    <3>2. run.op = "write" /\ run.res = 1 => Written(run.count)
      BY <1>1 DEF MInv, Writing
    <3>3. ASSUME run.op = "write", run.res = 1, NEW s \in run.sector..run.sector + run.count - 1
          PROVE  store[s] = Value(s)
      <4>1. run.sector \in Int /\ run.count \in Int
        BY DEF MInv, DataTypeOK, RunTypeOK
      <4>2. s - run.sector \in 0..run.count - 1 /\ run.sector + (s - run.sector) = s
        BY <3>3, <4>1
      <4> QED BY <3>2, <3>3, <4>2 DEF Written
    <3>4. \A s \in Sectors : store'[s] \in {s, Value(s)}
      BY <1>1 DEF MInv, Sound
    <3>5. answer'.res = "OK" /\ answer'.op = "read" =>
            answer'.buf = [i \in 1..answer'.count |-> store'[answer'.sector + i - 1]]
      BY <1>1, <2>4, <3>1 DEF BufHolds
    <3>6. answer'.res = "OK" /\ answer'.op = "write" =>
            \A s \in answer'.sector..answer'.sector + answer'.count - 1 : store'[s] = Value(s)
      BY <1>1, <2>4, <3>3
    <3> QED BY <3>4, <3>5, <3>6 DEF Faithful, Extent, Value
  <2> QED BY <1>3, <1>4, <2>3, <2>5 DEF MInv
<1> QED BY <1>5, <1>6

\* A call that gets under way has moved nothing yet.
LEMMA StartMInv ==
  ASSUME MInv, run.op = "none", UNCHANGED <<Stat, CardType, healthy, card, store>>,
         answer' = Silent, RunTypeOK', Steps', Reading', Writing',
         "NOINIT" \in Stat => run'.op = "init"
  PROVE  MInv'
<1>1. DataTypeOK'
  BY DEF MInv, DataTypeOK, CardTypeOK
<1>2. answer'.res = "OK" /\ answer'.op = "none"
  BY DEF Silent
<1>3. Known' /\ Sound' /\ Faithful'
  BY <1>2 DEF MInv, Known, Sound, Faithful, Large, Value
<1> QED BY <1>1, <1>3 DEF MInv

\* A call that is refused moves nothing at all.
LEMMA RefusedMInv ==
  ASSUME MInv, "NOINIT" \in Stat, UNCHANGED <<Stat, CardType, healthy, card, store, run>>,
         run.op = "none"
  PROVE  MInv'
<1>1. DataTypeOK' /\ Steps' /\ Reading' /\ Writing'
  BY DEF MInv, DataTypeOK, CardTypeOK, RunTypeOK, Steps, InitSteps, IoctlSteps, ReadSteps,
         WriteSteps, Reading, Writing, Ioctls
<1>2. Known' /\ Sound' /\ Faithful'
  BY DEF MInv, Known, Sound, Faithful, Large, Value
<1> QED BY <1>1, <1>2 DEF MInv

\* What send_cmd makes of a call that starts.
LEMMA StartedFields ==
  ASSUME NEW op, NEW sector \in Nat, NEW count \in Nat, NEW cmd, NEW arg, NEW k,
         run' = send_cmd(Started(op, sector, count), cmd, arg, k)
  PROVE  /\ RunTypeOK' /\ run'.pc = "select" /\ run'.k = k /\ run'.cmd = cmd /\ run'.arg = arg
         /\ run'.op = op /\ run'.sector = sector /\ run'.count = count
         /\ run'.left = count /\ run'.buf = <<>>
<1> DEFINE r == Started(op, sector, count)
           app == cmd \in ACMDs
<1>1. /\ r = [f \in RunFields |-> r[f]]
      /\ r.op = op /\ r.sector = sector /\ r.count = count /\ r.left = count /\ r.buf = <<>>
  BY DEF Started, Resting, RunFields
<1>2. run' = [r EXCEPT !.pc = "select", !.cmd = cmd, !.arg = arg, !.app = app, !.k = k]
  BY DEF send_cmd
<1> HIDE DEF r, app
<1>3. /\ run' = [f \in RunFields |-> run'[f]]
      /\ run'.pc = "select" /\ run'.k = k /\ run'.cmd = cmd /\ run'.arg = arg
      /\ run'.op = op /\ run'.sector = sector /\ run'.count = count
      /\ run'.left = count /\ run'.buf = <<>>
  BY <1>1, <1>2 DEF RunFields
<1>4. RunTypeOK'
  <2>1. <<>> \in Seq(Int)
    OBVIOUS
  <2> QED BY <1>3, <2>1 DEF RunTypeOK
<1> QED BY <1>3, <1>4

\* The calls.
LEMMA InitializeMInv == MInv /\ disk_initialize => MInv'
<1> SUFFICES ASSUME MInv, disk_initialize PROVE MInv'
  OBVIOUS
<1>1. /\ run.op = "none" /\ UNCHANGED <<Stat, CardType, healthy, card, store>> /\ answer' = Silent
      /\ run' = send_cmd(Started("init", 0, 0), "CMD0", 0, "cmd0")
  BY DEF disk_initialize, Idle, Is, MInv, Steps
<1>2. RunTypeOK' /\ run'.op = "init" /\ run'.pc = "select" /\ run'.k = "cmd0" /\ run'.cmd = "CMD0"
  BY <1>1, StartedFields
<1>3. Steps' /\ Reading' /\ Writing'
  BY <1>2 DEF Steps, InitSteps, IoctlSteps, ReadSteps, WriteSteps, Reading, Writing, Ioctls,
              Stage, Sending, Old
<1> QED BY <1>1, <1>2, <1>3, StartMInv

\* The address that disk_read and disk_write send stands for the sector asked for.
LEMMA AddressMeant ==
  ASSUME MInv, healthy, NEW s \in Nat
  PROVE  SectorOf(card, Address(s)) = s
<1>1. Address(s) = IF card.kind = "SDHC" THEN s ELSE s * Block
  BY DEF MInv, Known, Large, Address
<1> QED BY <1>1, AddressFound

\* disk_read: nothing has come yet, and the command names the first sector.
LEMMA ReadMInv ==
  ASSUME MInv, NEW n \in Nat, n > 0, NEW s \in Nat, disk_read(s, n)
  PROVE  MInv'
<1>1. run.op = "none" /\ UNCHANGED <<Stat, CardType, healthy, card, store>>
  BY DEF disk_read, Begin, Idle, Is, MInv, Steps
<1>2. CASE "NOINIT" \in Stat
  BY <1>1, <1>2, RefusedMInv DEF disk_read, Begin
<1>3. CASE "NOINIT" \notin Stat
  <2>1. answer' = Silent
    BY <1>3 DEF disk_read, Begin
  <2>2. PICK c \in {<<"CMD17", "cmd17">>, <<"CMD18", "cmd18">>} :
          /\ run' = send_cmd(Started("read", s, n), c[1], Address(s), c[2])
          /\ c[1] = "CMD17" => n = 1
    BY <1>3 DEF disk_read, Begin
  <2>3. /\ RunTypeOK' /\ run'.pc = "select" /\ run'.k = c[2] /\ run'.cmd = c[1]
        /\ run'.arg = Address(s) /\ run'.op = "read" /\ run'.sector = s /\ run'.count = n
        /\ run'.left = n /\ run'.buf = <<>>
    BY <2>2, StartedFields
  <2>4. Steps' /\ Writing'
    BY <2>2, <2>3 DEF Steps, InitSteps, IoctlSteps, ReadSteps, WriteSteps, Writing, Ioctls,
                      Stage, Sending, Old
  <2>5. Reading'
    <3>1. healthy => SectorOf(card, Address(s)) = s
      BY AddressMeant
    <3>2. Addressed' <=> SectorOf(card, Address(s)) = s
      BY <1>1, <2>3 DEF Addressed, SectorOf
    <3> QED BY <1>1, <2>2, <2>3, <3>1, <3>2 DEF Reading, Stage, Sending
  <2> QED BY <1>1, <1>3, <2>1, <2>3, <2>4, <2>5, StartMInv
<1> QED BY <1>2, <1>3

\* disk_write, the same; ACMD23 names a number of sectors.
LEMMA WriteMInv ==
  ASSUME MInv, NEW n \in Nat, n > 0, NEW s \in Nat, disk_write(s, n)
  PROVE  MInv'
<1>1. run.op = "none" /\ UNCHANGED <<Stat, CardType, healthy, card, store>>
  BY DEF disk_write, Begin, Idle, Is, MInv, Steps
<1>2. CASE "NOINIT" \in Stat
  BY <1>1, <1>2, RefusedMInv DEF disk_write, Begin
<1>3. CASE "NOINIT" \notin Stat
  <2>1. answer' = Silent
    BY <1>3 DEF disk_write, Begin
  <2>2. PICK c \in {<<"CMD24", "cmd24">>, <<"CMD25", "cmd25">>, <<"ACMD23", "acmd23">>},
             a \in {Address(s), n} :
          /\ run' = send_cmd(Started("write", s, n), c[1], a, c[2])
          /\ c[1] = "CMD24" => n = 1
          /\ c[1] # "ACMD23" => a = Address(s)
    BY <1>3 DEF disk_write, Begin
  <2>3. /\ RunTypeOK' /\ run'.pc = "select" /\ run'.k = c[2] /\ run'.cmd = c[1]
        /\ run'.arg = a /\ run'.op = "write" /\ run'.sector = s /\ run'.count = n
        /\ run'.left = n /\ run'.buf = <<>>
    BY <2>2, StartedFields
  <2>4. Steps' /\ Reading'
    BY <2>2, <2>3 DEF Steps, InitSteps, IoctlSteps, ReadSteps, WriteSteps, Reading, Ioctls,
                      Stage, Sending, Old
  <2>5. Writing'
    <3>1. healthy => SectorOf(card, Address(s)) = s
      BY AddressMeant
    <3>2. Addressed' <=> SectorOf(card, a) = s
      BY <1>1, <2>3 DEF Addressed, SectorOf
    <3> QED BY <1>1, <2>2, <2>3, <3>1, <3>2 DEF Writing, Stage, Sending
  <2> QED BY <1>1, <1>3, <2>1, <2>3, <2>4, <2>5, StartMInv
<1> QED BY <1>2, <1>3

\* disk_ioctl moves no sectors.
LEMMA IoctlMInv ==
  ASSUME MInv, NEW op \in Ioctls, disk_ioctl(op)
  PROVE  MInv'
<1>1. run.op = "none" /\ UNCHANGED <<Stat, CardType, healthy, card, store>>
  BY DEF disk_ioctl, Begin, Idle, Is, MInv, Steps
<1>2. CASE "NOINIT" \in Stat
  BY <1>1, <1>2, RefusedMInv DEF disk_ioctl, Begin
<1>3. CASE "NOINIT" \notin Stat
  <2>1. answer' = Silent
    BY <1>3 DEF disk_ioctl, Begin
  <2>2. /\ RunTypeOK' /\ run'.op = op
        /\ \/ run'.pc = "select" /\ run'.k \in {"register", "answered"}
           \/ run'.pc = "finish"
    <3>1. CASE op = "MMC_GET_TYPE"
      <4>1. run' = [Started(op, 0, 0) EXCEPT !.pc = "finish", !.res = 1]
        BY <1>3, <3>1 DEF disk_ioctl, Begin, Ended
      <4> DEFINE r == Started(op, 0, 0)
      <4>2. /\ r = [f \in RunFields |-> r[f]]
            /\ r.op = op /\ r.sector = 0 /\ r.count = 0 /\ r.left = 0 /\ r.buf = <<>>
        BY DEF Started, Resting, RunFields
      <4>5. run' = [r EXCEPT !.pc = "finish", !.res = 1]
        BY <4>1
      <4> HIDE DEF r
      <4>3. /\ run' = [f \in RunFields |-> run'[f]] /\ run'.pc = "finish" /\ run'.op = op
            /\ run'.sector = 0 /\ run'.count = 0 /\ run'.left = 0 /\ run'.buf = <<>>
        BY <4>2, <4>5 DEF RunFields
      <4>4. <<>> \in Seq(Int)
        OBVIOUS
      <4> QED BY <4>3, <4>4 DEF RunTypeOK
    <3>2. CASE op # "MMC_GET_TYPE"
      <4>1. PICK k \in {"register", "answered"} :
              run' = send_cmd(Started(op, 0, 0), Register(op), 0, k)
        BY <1>3, <3>2 DEF disk_ioctl, Begin
      <4> QED BY <4>1, StartedFields
    <3> QED BY <3>1, <3>2
  <2>3. Steps' /\ Reading' /\ Writing'
    BY <2>2 DEF Steps, InitSteps, IoctlSteps, ReadSteps, WriteSteps, Reading, Writing, Ioctls,
                Stage, Sending, Old
  <2> QED BY <1>1, <1>3, <2>1, <2>2, <2>3, StartMInv
<1> QED BY <1>2, <1>3

-----------------------------------------------------------------------------
(* The card, the interrupt and the milliseconds.                           *)

\* What depends on the call alone, for a step that leaves it alone.
LEMMA OutsideMInv ==
  ASSUME MInv, UNCHANGED <<CardType, run, answer, store, healthy>>,
         "NOINIT" \in Stat' <=> "NOINIT" \in Stat, CardTypeOK', card'.kind = card.kind,
         run.op = "none" \/ (/\ card'.state = card.state /\ card'.sends = card.sends
                             /\ card'.takes = card.takes)
  PROVE  MInv'
<1>1. DataTypeOK'
  BY DEF MInv, DataTypeOK, RunTypeOK
<1>2. Known' /\ Sound' /\ Faithful'
  BY DEF MInv, Known, Sound, Faithful, Large, Value, Extent
<1>3. CASE run.op = "none"
  <2>1. Steps' /\ Reading' /\ Writing'
    BY <1>3 DEF MInv, Steps, InitSteps, IoctlSteps, ReadSteps, WriteSteps, Reading, Writing,
                Ioctls
  <2> QED BY <1>1, <1>2, <2>1 DEF MInv
<1>4. CASE /\ card'.state = card.state /\ card'.sends = card.sends
           /\ card'.takes = card.takes
  <2>1. Steps'
    BY <1>4 DEF MInv, Steps, InitSteps, IoctlSteps, ReadSteps, WriteSteps, Large, Stage
  <2>2. Addressed' <=> Addressed
    BY DEF Addressed, SectorOf
  <2>3. Reading' /\ Writing'
    BY <1>4, <2>2 DEF MInv, Reading, Writing, Stage, BufHolds, Written, Moved, Value
  <2> QED BY <1>1, <1>2, <2>1, <2>3 DEF MInv
<1> QED BY <1>3, <1>4

\* The card gets ready, or is pulled out between two calls.
LEMMA CardMInv == MInv /\ (CardReady \/ Replug) => MInv'
<1> SUFFICES ASSUME MInv, CardReady \/ Replug PROVE MInv'
  OBVIOUS
<1>1. UNCHANGED <<CardType, run, answer, store, healthy, Stat>>
  BY DEF CardReady, Replug
<1>2. IsCard(card) /\ store' \in [Sectors -> Int]
  BY <1>1 DEF MInv, DataTypeOK, CardTypeOK, IsCard
<1>3. CASE CardReady
  <2>1. card' = [card EXCEPT !.busy = FALSE]
    BY <1>3 DEF CardReady
  <2>2. /\ card' = [f \in CardFields |-> card'[f]] /\ card'.kind = card.kind
        /\ card'.state = card.state /\ card'.sends = card.sends /\ card'.takes = card.takes
    BY <1>2, <2>1 DEF IsCard, CardFields
  <2>3. CardTypeOK'
    BY <1>2, <2>2 DEF CardTypeOK, IsCard
  <2> QED BY <1>1, <2>2, <2>3, OutsideMInv
<1>4. CASE Replug
  <2>1. card' = Fresh(card.kind) /\ run.op = "none"
    BY <1>4 DEF Replug, MInv, Steps
  <2>2. card' = [f \in CardFields |-> card'[f]] /\ card'.kind = card.kind
    BY <2>1 DEF Fresh, CardFields
  <2>3. card'.sends = Nobody /\ card'.takes = Nobody
    BY <2>1 DEF Fresh
  <2>4. CardTypeOK'
    BY <1>2, <2>2, <2>3 DEF CardTypeOK, Nobody
  <2> QED BY <1>1, <2>1, <2>2, <2>4, OutsideMInv
<1> QED BY <1>3, <1>4

\* The interrupt says nothing about the initialization.
LEMMA TimerprocMInv == MInv /\ disk_timerproc => MInv'
<1> SUFFICES ASSUME MInv, disk_timerproc PROVE MInv'
  OBVIOUS
<1>1. UNCHANGED <<CardType, run, answer, store, healthy, card>>
      /\ Stat' = Stat \ {"PROTECT", "NODISK"}
  BY DEF disk_timerproc
<1>2. CardTypeOK'
  BY <1>1 DEF MInv, DataTypeOK, CardTypeOK
<1> QED BY <1>1, <1>2, OutsideMInv

\* The milliseconds go on beside the driver.
LEMMA IdleMInv == MInv /\ UNCHANGED mmcVars => MInv'
<1> SUFFICES ASSUME MInv, UNCHANGED mmcVars PROVE MInv'
  OBVIOUS
<1>1. UNCHANGED <<CardType, run, answer, store, healthy, card, Stat>>
  BY DEF mmcVars
<1>2. CardTypeOK'
  BY <1>1 DEF MInv, DataTypeOK, CardTypeOK
<1> QED BY <1>1, <1>2, OutsideMInv

\* At power on nothing is under way and no sector has been written.
LEMMA InitMInv == Init => MInv
<1> SUFFICES ASSUME MmcInit PROVE MInv
  BY DEF Init
<1>1. /\ Stat = {"NOINIT"} /\ run = Resting /\ answer = Silent /\ healthy = FALSE
      /\ store = [s \in Sectors |-> s]
  BY DEF MmcInit
<1>2. CardTypeOK
  <2>1. PICK kind \in Kinds, b \in BOOLEAN : card = [Fresh(kind) EXCEPT !.busy = b]
    BY DEF MmcInit
  <2>2. /\ card = [f \in CardFields |-> card[f]] /\ card.sends = Nobody /\ card.takes = Nobody
    <3> DEFINE c == Fresh(kind)
    <3>1. c = [f \in CardFields |-> c[f]] /\ c.sends = Nobody /\ c.takes = Nobody
      BY DEF Fresh, CardFields
    <3> HIDE DEF c
    <3>2. card = [c EXCEPT !.busy = b]
      BY <2>1 DEF c
    <3> QED BY <3>1, <3>2 DEF CardFields
  <2>3. store \in [Sectors -> Int]
    BY <1>1, SizeAssumption DEF Sectors
  <2> QED BY <2>2, <2>3 DEF CardTypeOK, Nobody
<1>3. /\ run = [f \in RunFields |-> run[f]] /\ run.op = "none" /\ run.pc = "idle"
      /\ run.sector = 0 /\ run.count = 0 /\ run.left = 0 /\ run.buf = <<>>
  <2>1. Resting = [f \in RunFields |-> Resting[f]]
    BY DEF Resting, RunFields
  <2>2. /\ Resting.op = "none" /\ Resting.pc = "idle" /\ Resting.sector = 0
        /\ Resting.count = 0 /\ Resting.left = 0 /\ Resting.buf = <<>>
    BY DEF Resting
  <2> QED BY <1>1, <2>1, <2>2
<1>4. DataTypeOK
  <2>1. run.buf \in Seq(Int)
    <3>1. run.buf = <<>>
      BY <1>3, Zenon
    <3> QED BY <3>1
  <2>2. /\ run = [f \in RunFields |-> run[f]]
        /\ run.sector = 0 /\ run.count = 0 /\ run.left = 0
    BY <1>3, Zenon
  <2>3. run.sector \in Nat /\ run.count \in Int /\ run.left \in Int
    BY <2>2
  <2>4. RunTypeOK
    BY <2>1, <2>2, <2>3, Zenon DEF RunTypeOK
  <2> QED BY <1>2, <2>4, Zenon DEF DataTypeOK
<1>5. Steps /\ Reading /\ Writing
  BY <1>3 DEF Steps, InitSteps, IoctlSteps, ReadSteps, WriteSteps, Reading, Writing, Ioctls
<1>6. ~healthy
  BY <1>1, Zenon
<1>7. Known /\ Sound /\ Faithful
  BY <1>1, <1>3, <1>6 DEF Known, Sound, Faithful
<1> QED BY <1>4, <1>5, <1>7 DEF MInv

\* Every step, one by one.
LEMMA NextMInv == MInv /\ [Next]_vars => MInv'
<1> SUFFICES ASSUME MInv, [Next]_vars PROVE MInv'
  OBVIOUS
<1>1. CASE Calls
  <2>1. CASE disk_initialize
    BY <2>1, InitializeMInv
  <2>2. ASSUME NEW op \in Ioctls, disk_ioctl(op) PROVE MInv'
    BY <2>2, IoctlMInv
  <2>3. ASSUME NEW n \in Counts, NEW s \in 0..NSectors - n, disk_read(s, n) \/ disk_write(s, n)
        PROVE  MInv'
    <3>1. n \in Nat /\ n > 0 /\ s \in Nat
      BY SizeAssumption
    <3> QED BY <2>3, <3>1, ReadMInv, WriteMInv
  <2> QED BY <1>1, <2>1, <2>2, <2>3 DEF Calls
<1>2. CASE Host
  BY <1>2, SelectMInv, NoCommandMInv, CommandMInv, WaitMInv, TokenMInv, AcceptedMInv, SentMInv,
     InitializingMInv, TransferringMInv, FinishMInv DEF Host
<1>3. CASE disk_timerproc \/ CardReady \/ Replug
  BY <1>3, TimerprocMInv, CardMInv
<1>4. CASE UNCHANGED mmcVars
  BY <1>4, IdleMInv
<1> QED BY <1>1, <1>2, <1>3, <1>4 DEF Next, vars

(***************************************************************************)
(* Theorem.                                                                *)
(***************************************************************************)

\* Whatever the card does, of whatever kind and size it is, and however many
\* calls are made, as long as no initialization fails after the first that
\* succeeded: a read that disk_read reports as done has brought the sectors
\* asked for, in their order, a write that disk_write reports as done is on
\* the card, and no sector has got what was meant for another
\* (firmware/fatfs/mmc.cpp).
THEOREM TransfersAreFaithful == Spec => []Faithful
<1>1. MInv => Faithful
  BY DEF MInv
<1> QED  BY InitMInv, NextMInv, <1>1, PTL DEF Spec
=============================================================================
