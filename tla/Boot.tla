-------------------------------- MODULE Boot --------------------------------
(***************************************************************************)
(* The boot menu of the coprocessor (firmware/boot.cpp, main of            *)
(* firmware/main.cpp) and the Arduino it holds in reset meanwhile.         *)
(*                                                                         *)
(* The player moves the stick and presses buttons at any time, the code    *)
(* polls.  A sketch calls DC.begin(), which resets the coprocessor; what   *)
(* the coprocessor had in its variables is gone then.  isp_program is one  *)
(* step here, see Isp.                                                     *)
(***************************************************************************)
EXTENDS Integers

CONSTANTS
  MaxFiles,     \* MAX_FILES_LISTED
  Byte,         \* 2^8, the range of uint8_t
  MaxResets     \* bound: resets of the Arduino from outside

\* A line of either menu has a number that is a byte.
ASSUME BootAssumption ==
  /\ MaxFiles \in Nat \ {0}
  /\ Byte \in Nat /\ MaxFiles < Byte /\ 4 <= Byte
  /\ MaxResets \in Nat

VARIABLES
  bootSwitch,   \* BOOT_MODE_PIN
  arduino,      \* "held" in reset, "starting", or "running" after DC.begin()
  place,        \* where the coprocessor is
  phase,        \* of read_usb_gamepad: await "release", await "press", "act"
  pad,          \* what the gamepad reports
  input,        \* |input|, what was read last
  option,       \* |current_option|
  num_files, file_index, file_selected, done,
  open,         \* program_file has a file open
  picked,       \* history: the file SELECT was pressed on, -1 if none was
  fresh,        \* history: the pad was released since an input was taken
  resets        \* bounded by MaxResets

filevars == <<num_files, file_index, file_selected, done, picked>>
padvars == <<pad, fresh>>
bootVars == <<bootSwitch, arduino, place, phase, pad, input, option, filevars,
              open, fresh, resets>>

\* The stick wins over buttons, and SELECT over CANCEL; "other" is any other
\* button or the stick moved sideways.
Inputs == {"up", "down", "select", "cancel", "other"}
Pads == Inputs \cup {"none"}
Options == {"run", "load", "burn", "fpga"}
OptionList == <<"run", "load", "burn", "fpga">>

Readers == {"menu", "files", "confirm"}     \* callers of read_usb_gamepad
Menu == Readers \cup {"background", "hung", "open", "isp", "reset", "close",
                      "leave"}

BootTypeOK ==
  /\ bootSwitch \in BOOLEAN
  /\ arduino \in {"held", "starting", "running"}
  /\ place \in Menu \cup {"boot", "clear", "server"}
  /\ phase \in {"release", "press", "act"}
  /\ pad \in Pads
  /\ input \in Pads
  /\ option \in 1..4
  /\ num_files \in 0..MaxFiles
  /\ file_index \in 0..(Byte - 1)
  /\ file_selected \in BOOLEAN
  /\ done \in BOOLEAN
  /\ open \in BOOLEAN
  /\ picked \in -1..(Byte - 1)
  /\ fresh \in BOOLEAN
  /\ resets \in 0..MaxResets

\* Power-up: the pins of both microcontrollers are inputs, the Arduino runs
\* its bootloader and the coprocessor runs main.
BootInit ==
  /\ bootSwitch \in BOOLEAN
  /\ arduino = "starting"
  /\ place = "boot"
  /\ phase = "release"
  /\ pad \in Pads
  /\ input = "none"
  /\ option = 1
  /\ num_files = 0
  /\ file_index = 0
  /\ file_selected = FALSE
  /\ done = FALSE
  /\ open = FALSE
  /\ picked = -1
  /\ fresh = (pad = "none")
  /\ resets = 0

----------------------------------------------------------------------------
(* Helpers.                                                                *)

\* Up without the conversion to uint8_t.
UpWide(i, n) == IF i # 0 THEN i - 1 ELSE n - 1

\* The cursor one line up or down in a list of n lines, around its ends.
Up(i, n) == (IF i # 0 THEN i - 1 ELSE n - 1) % Byte

Down(i, n) == IF i = n - 1 THEN 0 ELSE (i + 1) % Byte

Moved(i, n) == IF input = "up" THEN Up(i, n) ELSE Down(i, n)

\* The caller reads the gamepad again, at p.
ReadAt(p) == place' = p /\ phase' = "release"

\* run_file_operation returns: its variables are gone.
BackToMenu ==
  /\ ReadAt("menu")
  /\ num_files' = 0
  /\ file_index' = 0
  /\ file_selected' = FALSE
  /\ done' = FALSE
  /\ picked' = -1

----------------------------------------------------------------------------
(* main and boot_run up to the menu.                                       *)

Main ==
  /\ place = "boot"
  /\ IF bootSwitch
       THEN place' = "background" /\ arduino' = "held"
       ELSE place' = "server" /\ UNCHANGED arduino
  /\ UNCHANGED <<bootSwitch, phase, padvars, input, option, filevars, open,
                 resets>>

\* display_init, display_text_init and load_bg_image.  The loop over the image
\* does not end when reads bring nothing any more.
LoadBackground ==
  /\ place = "background"
  /\ \/ ReadAt("menu")
     \/ place' = "hung" /\ UNCHANGED phase
  /\ UNCHANGED <<bootSwitch, arduino, padvars, input, option, filevars, open,
                 resets>>

----------------------------------------------------------------------------
(* read_usb_gamepad.                                                       *)

\* A reader that takes what is pressed already.
AwaitReleaseNoWait ==
  /\ place \in Readers /\ phase = "release"
  /\ phase' = "press"
  /\ UNCHANGED <<bootSwitch, arduino, place, padvars, input, option, filevars,
                 open, resets>>

AwaitRelease ==
  /\ place \in Readers /\ phase = "release"
  /\ pad = "none"
  /\ phase' = "press"
  /\ UNCHANGED <<bootSwitch, arduino, place, padvars, input, option, filevars,
                 open, resets>>

AwaitPress ==
  /\ place \in Readers /\ phase = "press"
  /\ pad # "none"
  /\ input' = pad
  /\ fresh' = FALSE
  /\ phase' = "act"
  /\ UNCHANGED <<bootSwitch, arduino, place, pad, option, filevars, open, resets>>

----------------------------------------------------------------------------
(* The main menu of boot_run.                                              *)

InMenu == place = "menu" /\ phase = "act"
Moving == input \in {"up", "down"}

MenuMove ==
  /\ InMenu /\ Moving
  /\ option' = Moved(option - 1, 4) + 1
  /\ ReadAt("menu")
  /\ UNCHANGED <<bootSwitch, arduino, padvars, input, filevars, open, resets>>

MenuIgnore ==
  /\ InMenu /\ input \in {"cancel", "other"}
  /\ ReadAt("menu")
  /\ UNCHANGED <<bootSwitch, arduino, padvars, input, option, filevars, open,
                 resets>>

MenuRun ==
  /\ InMenu /\ input = "select" /\ OptionList[option] = "run"
  /\ place' = "leave"
  /\ phase' = "release"
  /\ UNCHANGED <<bootSwitch, arduino, padvars, input, option, filevars, open,
                 resets>>

\* run_file_operation lists the card, or fails to.
MenuFiles ==
  /\ InMenu /\ input = "select" /\ OptionList[option] # "run"
  /\ \/ ReadAt("menu") /\ UNCHANGED num_files
     \/ ReadAt("files") /\ num_files' \in 0..MaxFiles
  /\ UNCHANGED <<bootSwitch, arduino, padvars, input, option, file_index,
                 file_selected, done, picked, open, resets>>

\* Leaving the menu without letting the Arduino go.
ReleaseNothing ==
  /\ place = "leave"
  /\ place' = "clear"
  /\ UNCHANGED <<bootSwitch, arduino, phase, padvars, input, option, filevars,
                 open, resets>>

\* isp_release.
Release ==
  /\ place = "leave"
  /\ arduino' = "starting"
  /\ place' = "clear"
  /\ UNCHANGED <<bootSwitch, phase, padvars, input, option, filevars, open,
                 resets>>

\* display_init, and back in main the RPC server.
ClearDisplay ==
  /\ place = "clear"
  /\ place' = "server"
  /\ UNCHANGED <<bootSwitch, arduino, phase, padvars, input, option, filevars,
                 open, resets>>

----------------------------------------------------------------------------
(* run_file_operation.                                                     *)

InFiles == place = "files" /\ phase = "act"

FilesMove ==
  /\ InFiles /\ Moving
  /\ file_index' = Moved(file_index, num_files)
  /\ ReadAt("files")
  /\ UNCHANGED <<bootSwitch, arduino, padvars, input, option, num_files,
                 file_selected, done, picked, open, resets>>

\* A button: the question is asked whenever a file was selected before.
FilesAsk ==
  /\ InFiles /\ ~Moving
  /\ file_selected \/ input = "select"
  /\ file_selected' = TRUE
  /\ picked' = IF input = "select" THEN file_index ELSE picked
  /\ done' = (input = "cancel")
  /\ ReadAt("confirm")
  /\ UNCHANGED <<bootSwitch, arduino, padvars, input, option, num_files,
                 file_index, open, resets>>

FilesCancel ==
  /\ InFiles /\ ~file_selected /\ input = "cancel"
  /\ BackToMenu
  /\ UNCHANGED <<bootSwitch, arduino, padvars, input, option, open, resets>>

FilesIgnore ==
  /\ InFiles /\ ~file_selected /\ input = "other"
  /\ ReadAt("files")
  /\ UNCHANGED <<bootSwitch, arduino, padvars, input, option, filevars, open,
                 resets>>

InConfirm == place = "confirm" /\ phase = "act"

\* Anything but SELECT means no.
Refuse ==
  /\ InConfirm /\ input # "select"
  /\ IF done THEN BackToMenu ELSE ReadAt("files") /\ UNCHANGED filevars
  /\ UNCHANGED <<bootSwitch, arduino, padvars, input, option, open, resets>>

\* Only loading a program is implemented.
Confirm ==
  /\ InConfirm /\ input = "select"
  /\ IF OptionList[option] = "load"
       THEN place' = "open" /\ phase' = "release" /\ UNCHANGED filevars
       ELSE BackToMenu
  /\ UNCHANGED <<bootSwitch, arduino, padvars, input, option, open, resets>>

----------------------------------------------------------------------------
(* program_file.                                                           *)

FileOpen ==
  /\ place = "open"
  /\ \/ BackToMenu /\ UNCHANGED open
     \/ place' = "isp" /\ open' = TRUE /\ UNCHANGED <<phase, filevars>>
  /\ UNCHANGED <<bootSwitch, arduino, padvars, input, option, resets>>

\* isp_program releases the Arduino whatever its result.
IspProgram ==
  /\ place = "isp"
  /\ arduino' = "starting"
  /\ place' = "reset"
  /\ UNCHANGED <<bootSwitch, phase, padvars, input, option, filevars, open,
                 resets>>

\* Going on with the Arduino released.
IspResetNot ==
  /\ place = "reset"
  /\ place' = "close"
  /\ UNCHANGED <<bootSwitch, arduino, phase, padvars, input, option, filevars,
                 open, resets>>

IspReset ==
  /\ place = "reset"
  /\ arduino' = "held"
  /\ place' = "close"
  /\ UNCHANGED <<bootSwitch, phase, padvars, input, option, filevars, open,
                 resets>>

\* Leaving the file open.
FileCloseNot ==
  /\ place = "close"
  /\ BackToMenu
  /\ UNCHANGED <<bootSwitch, arduino, padvars, input, option, open, resets>>

FileClose ==
  /\ place = "close"
  /\ open' = FALSE
  /\ BackToMenu
  /\ UNCHANGED <<bootSwitch, arduino, padvars, input, option, resets>>

----------------------------------------------------------------------------
(* The Arduino, and the people in front of it.                             *)

\* DC.begin() of the sketch: RPC::begin resets the coprocessor.
ArduinoBegin ==
  /\ arduino = "starting"
  /\ arduino' = "running"
  /\ place' = "boot"
  /\ phase' = "release"
  /\ input' = "none"
  /\ option' = 1
  /\ num_files' = 0
  /\ file_index' = 0
  /\ file_selected' = FALSE
  /\ done' = FALSE
  /\ open' = FALSE
  /\ picked' = -1
  /\ UNCHANGED <<bootSwitch, padvars, resets>>

\* The reset button of the Arduino, or an upload (external).
ArduinoReset ==
  /\ arduino = "running"
  /\ resets < MaxResets
  /\ resets' = resets + 1
  /\ arduino' = "starting"
  /\ UNCHANGED <<bootSwitch, place, phase, padvars, input, option, filevars, open>>

\* The player (external).
Play ==
  /\ pad' \in Pads \ {pad}
  /\ fresh' = (fresh \/ pad' = "none")
  /\ UNCHANGED <<bootSwitch, arduino, place, phase, input, option, filevars, open,
                 resets>>

FlipSwitch ==
  /\ bootSwitch' = ~bootSwitch
  /\ UNCHANGED <<arduino, place, phase, padvars, input, option, filevars, open,
                 resets>>

----------------------------------------------------------------------------
Coprocessor ==
  \/ Main \/ LoadBackground \/ AwaitRelease \/ AwaitPress
  \/ MenuMove \/ MenuIgnore \/ MenuRun \/ MenuFiles \/ Release \/ ClearDisplay
  \/ FilesMove \/ FilesAsk \/ FilesCancel \/ FilesIgnore \/ Refuse \/ Confirm
  \/ FileOpen \/ IspProgram \/ IspReset \/ FileClose

BootNext == Coprocessor \/ ArduinoBegin \/ ArduinoReset \/ Play \/ FlipSwitch

BootSpec == BootInit /\ [][BootNext]_bootVars

\* The coprocessor keeps running; a sketch that is let go calls DC.begin().
FairBootSpec == BootSpec /\ WF_bootVars(Coprocessor) /\ WF_bootVars(ArduinoBegin)

----------------------------------------------------------------------------
(* Properties.                                                             *)

\* The coprocessor uses display and card only while no sketch does: in the
\* menu the Arduino is in reset, but for the moments between a release and
\* what follows it, and then it has not got through DC.begin(), which would
\* have reset the coprocessor.  Outside of the menu it is not kept in reset.
HoldsArduino ==
  /\ place \in Menu \ {"reset"} => arduino = "held"
  /\ place \in {"reset", "clear"} => arduino = "starting"
  /\ place \in {"boot", "server"} => arduino # "held"

\* Whatever programming comes to, its file is closed when the menu waits for
\* the player again and when sketches get the four handles; and the cursor is
\* on a file, if there is one, however it went around the ends of the list.
FileClosed == place \in Readers \cup {"server"} => ~open
OnList == num_files > 0 => file_index < num_files
ListSound == FileClosed /\ OnList

\* A button held down counts once: between two inputs the pad was released,
\* so the press that selects a file does not confirm it too.
PressOnce == [][phase = "press" /\ phase' = "act" => fresh]_bootVars

\* "Run program -> exit boot menu and let Arduino run", if the boot switch is
\* turned off: with it on, the DC.begin() of the sketch leads back to the menu.
RunRuns ==
  (place = "leave" /\ []~bootSwitch) ~> [](place = "server" /\ arduino = "running")

\* "Load program -> select file -> ask for y/n -> program": what is asked about
\* is the file that was selected.
AsksAboutSelected == place = "confirm" => picked = file_index
============================================================================
