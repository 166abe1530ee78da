-------------------------------- MODULE Rpc --------------------------------
(***************************************************************************)
(* The remote procedure calls between an Arduino sketch (the client,       *)
(* DuinoCube/rpc.cpp) and the coprocessor (the server, firmware/rpc.cpp).  *)
(*                                                                         *)
(* The two processors share a serial RAM and two wires.  The client drives *)
(* the command wire (LOW: a command was issued), the server the status     *)
(* wire.  A call is a four-phase handshake: wait for IDLE, write arguments *)
(* and command byte, pull the command wire; wait for BUSY, release it;     *)
(* wait for IDLE, read the answer.  The answer is written over the command *)
(* byte (both live at RAM address 0).                                      *)
(*                                                                         *)
(* Every access to a wire and every RAM transfer is a step of its own.     *)
(* RPC::begin resets the server, which boots while the client goes on; a   *)
(* wire whose driver is in reset is undriven, and reads as some level.     *)
(***************************************************************************)
EXTENDS Naturals

CONSTANTS
  Commands,     \* the command codes the server handles
  WithInput,    \* those whose exec passes input arguments
  WithOutput,   \* those whose exec asks for output arguments
  Args,         \* input argument structures
  NONE,         \* RPC_CMD_NONE
  NIL,          \* no argument, no call, RAM contents that are no answer
  Wirings,      \* what the undriven status wire may read as: one level if it is
                \* pulled up or down, either if nothing holds it
  MaxRestarts   \* bound: Arduino resets in a behaviour

ASSUME RpcAssumption ==
  /\ NONE \notin Commands
  /\ NIL \notin Args
  /\ WithInput \subseteq Commands
  /\ WithOutput \subseteq Commands
  /\ Wirings \subseteq SUBSET {"IDLE", "BUSY"} \ {{}}
  /\ MaxRestarts \in Nat

\* A call, together with the arguments that identify it; its answer is
\* represented by the call itself.
Calls == {c \in [cmd : Commands, arg : Args \cup {NIL}] :
            c.arg = NIL <=> c.cmd \notin WithInput}

ASSUME NilAssumption == NIL \notin Calls

VARIABLES
  cpc,          \* where the client is
  call,         \* the call the client is making
  answer,       \* the output arguments the last call brought back
  spc,          \* where the server is
  command,      \* |command| of rpc_server_loop
  arg,          \* the input arguments the handler read
  commandPin,   \* "LOW", "HIGH", or "FLOAT" when the client is in reset
  statusPin,    \* "IDLE", "BUSY", or "FLOAT" when the server does not drive it
  ramCommand,   \* the byte at RPC_COMMAND_ADDR
  ramInput,     \* the structure at RPC_INPUT_ARG_ADDR
  ramOutput,    \* the structure at RPC_OUTPUT_ARG_ADDR
  execs,        \* history: executions since the client's call began (cap 2)
  executed,     \* history: the last of them
  undriven,     \* the wiring of this board: levels the status wire floats to
  restarts      \* bounded by MaxRestarts

clientVars == <<cpc, call, answer>>
serverVars == <<spc, command, arg>>
ramVars    == <<ramCommand, ramInput, ramOutput>>
history    == <<execs, executed>>
wires      == <<commandPin, statusPin, undriven>>
vars == <<clientVars, serverVars, ramVars, history, wires, restarts>>

StartingUp == {"held", "off", "output", "high", "reset"}
InCall == {"await_idle", "write_args", "write_command", "assert",
           "await_busy", "clear", "await_done", "read_output"}
ClientPC == StartingUp \cup {"ready", "mem"} \cup InCall

ServerPC == {"reset", "boot", "menu", "idle", "poll", "reread", "latch",
             "ack", "drain", "drain_ram", "fetch", "execute", "reply",
             "finish"}

TypeOK ==
  /\ cpc \in ClientPC
  /\ call \in Calls \cup {NIL}
  /\ answer \in Calls \cup {NIL}
  /\ spc \in ServerPC
  /\ command \in Commands \cup {NONE}
  /\ arg \in Args \cup {NIL}
  /\ commandPin \in {"LOW", "HIGH", "FLOAT"}
  /\ statusPin \in {"IDLE", "BUSY", "FLOAT"}
  /\ ramCommand \in Commands \cup {NONE}
  /\ ramInput \in Args
  /\ ramOutput \in Calls \cup {NIL}
  /\ execs \in 0..2
  /\ executed \in Calls \cup {NIL}
  /\ undriven \in Wirings
  /\ restarts \in 0..MaxRestarts

----------------------------------------------------------------------------
(* Reading the wires.                                                      *)

\* The level read_client_command may see.
CommandReads(level) == commandPin = level \/ commandPin = "FLOAT"

\* The status readServerStatus may see.
StatusReads(status) ==
  \/ statusPin = status
  \/ statusPin = "FLOAT" /\ status \in undriven

----------------------------------------------------------------------------
(* Both boards power up: the RAM holds anything.                           *)

Init ==
  /\ cpc = "off"
  /\ call = NIL
  /\ answer = NIL
  /\ spc = "boot"
  /\ command = NONE
  /\ arg = NIL
  /\ commandPin = "FLOAT"
  /\ statusPin = "FLOAT"
  /\ ramCommand \in Commands \cup {NONE}
  /\ ramInput \in Args
  /\ ramOutput = NIL
  /\ execs = 0
  /\ executed = NIL
  /\ undriven \in Wirings
  /\ restarts = 0

----------------------------------------------------------------------------
(* The shape of a step.                                                    *)

ClientMoves(from, to) ==
  /\ cpc = from
  /\ cpc' = to
  /\ UNCHANGED <<serverVars, statusPin, undriven, restarts>>

ServerMoves(from, to) ==
  /\ spc = from
  /\ spc' = to
  /\ UNCHANGED <<clientVars, commandPin, ramInput, undriven, restarts>>

callVars == <<call, answer, execs, executed>>
replyVars == <<ramCommand, ramOutput, execs, executed>>

----------------------------------------------------------------------------
(* The client: RPC::begin.                                                 *)

\* The command wire becomes an output while its port bit is still 0: it is
\* LOW until the next statement.
BeginOutput ==
  /\ ClientMoves("off", "output")
  /\ commandPin' = "LOW"
  /\ UNCHANGED <<callVars, ramVars>>

BeginNone ==
  /\ ClientMoves("output", "high")
  /\ commandPin' = "HIGH"
  /\ UNCHANGED <<callVars, ramVars>>

\* Pulls the reset line of the coprocessor, whatever it is doing.
BeginReset ==
  /\ cpc = "high" /\ cpc' = "reset"
  /\ spc' = "reset" /\ command' = NONE /\ arg' = NIL
  /\ statusPin' = "FLOAT"
  /\ UNCHANGED <<callVars, ramVars, commandPin, undriven, restarts>>

\* Lets the line go; begin returns at once and does not wait for the server.
BeginRelease ==
  /\ cpc = "reset" /\ cpc' = "ready"
  /\ spc' = "boot"
  /\ UNCHANGED <<callVars, command, arg, ramVars, wires, restarts>>

----------------------------------------------------------------------------
(* The client: the sketch between calls, and RPC::exec.                    *)

\* Mem::read and Mem::write on the sketch's own buffers: a RAM transfer at
\* addresses the protocol does not use.
MemAccess ==
  /\ ClientMoves("ready", "mem") \/ ClientMoves("mem", "ready")
  /\ UNCHANGED <<callVars, ramVars, commandPin>>

Exec(c) ==
  /\ ClientMoves("ready", "await_idle")
  /\ call' = c
  /\ execs' = 0 /\ executed' = NIL
  /\ UNCHANGED <<answer, ramVars, commandPin>>

\* A client that does not wait for the server to be ready.
AwaitIdleNoWait ==
  /\ ClientMoves("await_idle",
                 IF call.cmd \in WithInput THEN "write_args"
                                           ELSE "write_command")
  /\ UNCHANGED <<callVars, ramVars, commandPin>>

AwaitIdle ==
  /\ StatusReads("IDLE")
  /\ ClientMoves("await_idle",
                 IF call.cmd \in WithInput THEN "write_args"
                                           ELSE "write_command")
  /\ UNCHANGED <<callVars, ramVars, commandPin>>

WriteArgs ==
  /\ ClientMoves("write_args", "write_command")
  /\ ramInput' = call.arg
  /\ UNCHANGED <<callVars, ramCommand, ramOutput, commandPin>>

\* The command byte overwrites the first byte of the last answer.
WriteCommand ==
  /\ ClientMoves("write_command", "assert")
  /\ ramCommand' = call.cmd
  /\ ramOutput' = NIL
  /\ UNCHANGED <<callVars, ramInput, commandPin>>

AssertCommand ==
  /\ ClientMoves("assert", "await_busy")
  /\ commandPin' = "LOW"
  /\ UNCHANGED <<callVars, ramVars>>

\* A client that does not wait for the acknowledgment.
AwaitBusyNoWait ==
  /\ ClientMoves("await_busy", "clear")
  /\ UNCHANGED <<callVars, ramVars, commandPin>>

AwaitBusy ==
  /\ StatusReads("BUSY")
  /\ ClientMoves("await_busy", "clear")
  /\ UNCHANGED <<callVars, ramVars, commandPin>>

ClearCommand ==
  /\ ClientMoves("clear", "await_done")
  /\ commandPin' = "HIGH"
  /\ UNCHANGED <<callVars, ramVars>>

\* A client that does not wait for the server to complete.
AwaitDoneNoWait ==
  /\ ClientMoves("await_done",
                 IF call.cmd \in WithOutput THEN "read_output" ELSE "ready")
  /\ UNCHANGED <<callVars, ramVars, commandPin>>

AwaitDone ==
  /\ StatusReads("IDLE")
  /\ ClientMoves("await_done",
                 IF call.cmd \in WithOutput THEN "read_output" ELSE "ready")
  /\ UNCHANGED <<callVars, ramVars, commandPin>>

ReadOutput ==
  /\ ClientMoves("read_output", "ready")
  /\ answer' = ramOutput
  /\ UNCHANGED <<call, history, ramVars, commandPin>>

----------------------------------------------------------------------------
(* The server: boot and rpc_server_loop.                                   *)

\* main() reaches rpc_init: the status wire becomes an output, IDLE.
InitServer ==
  /\ ServerMoves("boot", "idle")
  /\ statusPin' = "IDLE"
  /\ UNCHANGED <<command, arg, replyVars>>

\* read_client_command in the idle loop, first the wire ...
PollPin ==
  /\ CommandReads("LOW")
  /\ ServerMoves("idle", "poll")
  /\ UNCHANGED <<command, arg, replyVars, statusPin>>

\* ... then the command byte.
PollRam ==
  /\ ServerMoves("poll", IF ramCommand = NONE THEN "idle" ELSE "reread")
  /\ UNCHANGED <<command, arg, replyVars, statusPin>>

\* The loop's result is dropped and the command read a second time.
RereadPin ==
  /\ \/ CommandReads("LOW") /\ ServerMoves("reread", "latch")
        /\ UNCHANGED command
     \/ CommandReads("HIGH") /\ ServerMoves("reread", "ack")
        /\ command' = NONE
  /\ UNCHANGED <<arg, replyVars, statusPin>>

LatchCommand ==
  /\ ServerMoves("latch", "ack")
  /\ command' = ramCommand
  /\ UNCHANGED <<arg, replyVars, statusPin>>

Acknowledge ==
  /\ ServerMoves("ack", "drain")
  /\ statusPin' = "BUSY"
  /\ UNCHANGED <<command, arg, replyVars>>

\* A server that runs the command without waiting for it to be cleared.
DrainPinNoWait ==
  /\ ServerMoves("drain", "fetch")
  /\ UNCHANGED <<command, arg, replyVars, statusPin>>

\* Wait for the client to clear the command.
DrainPin ==
  /\ \/ CommandReads("HIGH") /\ ServerMoves("drain", "fetch")
     \/ CommandReads("LOW") /\ ServerMoves("drain", "drain_ram")
  /\ UNCHANGED <<command, arg, replyVars, statusPin>>

DrainRam ==
  /\ ServerMoves("drain_ram", IF ramCommand = NONE THEN "fetch" ELSE "drain")
  /\ UNCHANGED <<command, arg, replyVars, statusPin>>

\* rpc_exec: a handler reads its input arguments.  RPC_CMD_NONE, latched when
\* the wire was released between the two reads, has no handler.
FetchArgs ==
  /\ ServerMoves("fetch", IF command = NONE THEN "finish" ELSE "execute")
  /\ arg' = IF command \in WithInput THEN ramInput ELSE NIL
  /\ UNCHANGED <<command, replyVars, statusPin>>

\* The handler does its work.  The history records it when a client is there.
Execute ==
  /\ ServerMoves("execute", IF command \in WithOutput THEN "reply"
                                                      ELSE "finish")
  /\ IF cpc \in StartingUp
       THEN UNCHANGED history
       ELSE /\ execs' = IF execs < 2 THEN execs + 1 ELSE execs
            /\ executed' = [cmd |-> command, arg |-> arg]
  /\ UNCHANGED <<command, arg, ramCommand, ramOutput, statusPin>>

\* The handler writes its output arguments; their first byte, which may look
\* like any command code, replaces the command byte.
Reply ==
  /\ ServerMoves("reply", "finish")
  /\ ramOutput' = [cmd |-> command, arg |-> arg]
  /\ ramCommand' \in Commands \cup {NONE}
  /\ UNCHANGED <<command, arg, history, statusPin>>

\* A server that forgets to lower its status.
FinishStaysBusy ==
  /\ ServerMoves("finish", "idle")
  /\ UNCHANGED <<command, arg, replyVars, statusPin>>

Finish ==
  /\ ServerMoves("finish", "idle")
  /\ statusPin' = "IDLE"
  /\ UNCHANGED <<command, arg, replyVars>>

----------------------------------------------------------------------------
(* Resets of the Arduino.                                                  *)

ArduinoReset ==
  /\ restarts < MaxRestarts
  /\ restarts' = restarts + 1
  /\ call' = NIL /\ answer' = NIL
  /\ execs' = 0 /\ executed' = NIL
  /\ commandPin' = "FLOAT"
  /\ UNCHANGED <<command, arg, ramVars, statusPin, undriven>>

\* The reset button, a sketch upload, a power dip: at any point.
ClientRestart ==
  /\ cpc # "held" /\ cpc' = "off"
  /\ spc' = IF cpc = "reset" THEN "boot" ELSE spc
  /\ ArduinoReset

\* With the boot switch on, main() holds the Arduino in reset and runs the
\* boot menu instead of going on to rpc_init ...
EnterMenu ==
  /\ spc = "boot" /\ spc' = "menu"
  /\ cpc' = "held"
  /\ ArduinoReset

\* ... until the user chooses to run the program.
LeaveMenu ==
  /\ spc = "menu" /\ spc' = "idle"
  /\ cpc' = "off"
  /\ statusPin' = "IDLE"
  /\ UNCHANGED <<callVars, command, arg, ramVars, commandPin, undriven,
                 restarts>>

----------------------------------------------------------------------------
ClientStep ==
  \/ BeginOutput \/ BeginNone \/ BeginReset \/ BeginRelease
  \/ AwaitIdle \/ WriteArgs \/ WriteCommand \/ AssertCommand
  \/ AwaitBusy \/ ClearCommand \/ AwaitDone \/ ReadOutput

ServerStep ==
  \/ InitServer \/ PollPin \/ PollRam \/ RereadPin \/ LatchCommand
  \/ Acknowledge \/ DrainPin \/ DrainRam \/ FetchArgs \/ Execute
  \/ Reply \/ Finish

Environment ==
  \/ MemAccess
  \/ \E c \in Calls : Exec(c)
  \/ ClientRestart
  \/ EnterMenu
  \/ LeaveMenu

Next == ClientStep \/ ServerStep \/ Environment

Spec == Init /\ [][Next]_vars

\* Both processors keep running.  Nothing obliges a sketch to make calls, a
\* user to press reset, or the menu to be left.
FairSpec == Spec /\ WF_vars(ClientStep) /\ WF_vars(ServerStep)

----------------------------------------------------------------------------
(* Properties.                                                             *)

ClientOnBus == cpc \in {"mem", "write_args", "write_command", "read_output"}
ServerOnBus == spc \in {"poll", "latch", "drain_ram", "fetch", "reply"}

\* The serial RAM has one port: client and server never transfer at the same
\* time, once begin has returned (rpc.cpp leaves arbitration to the wires).
BusExclusion == ~(ClientOnBus /\ ServerOnBus)

\* When the client takes BUSY for the acknowledgment of its command, the
\* server has latched exactly that command and is waiting for the release.
Acknowledged ==
  cpc = "clear" => spc \in {"drain", "drain_ram"} /\ command = call.cmd

\* The inductive invariant behind them.  The levels of the wires follow the
\* program counters ...
WiresFollow ==
  /\ cpc \in {"held", "off"} => commandPin = "FLOAT"
  /\ cpc \in {"output", "await_busy", "clear"} => commandPin = "LOW"
  /\ cpc \notin {"held", "off", "output", "await_busy", "clear"}
       => commandPin = "HIGH"
  /\ spc \in {"reset", "boot", "menu"} => statusPin = "FLOAT"
  /\ spc \in {"idle", "poll", "reread", "latch", "ack"} => statusPin = "IDLE"
  /\ spc \in {"drain", "drain_ram", "fetch", "execute", "reply", "finish"}
       => statusPin = "BUSY"

\* ... the two processors advance in lockstep, a booting server being one
\* that has not yet noticed the command ...
Lockstep ==
  /\ cpc = "held" <=> spc = "menu"
  /\ cpc = "reset" <=> spc = "reset"
  /\ cpc \in {"ready", "mem", "await_idle", "write_args", "write_command",
              "assert"} => spc \in {"boot", "idle"}
  /\ cpc = "await_busy" => spc \in {"boot", "idle", "poll", "reread", "latch",
                                   "ack", "drain", "drain_ram"}
  /\ cpc = "clear" => spc \in {"drain", "drain_ram"}
  /\ cpc = "await_done" => spc \in {"drain", "drain_ram", "fetch", "execute",
                                   "reply", "finish", "idle"}
  /\ cpc = "read_output" => spc = "idle"
  /\ /\ cpc \in {"write_args", "write_command", "assert", "await_busy"}
     /\ spc = "boot"
     => "BUSY" \notin undriven

\* ... the call survives its way through the RAM ...
CallCarried ==
  /\ cpc \in InCall => call \in Calls
  /\ cpc = "write_args" => call.cmd \in WithInput
  /\ cpc = "read_output" => call.cmd \in WithOutput
  /\ cpc \in {"assert", "await_busy", "clear"} => ramCommand = call.cmd
  /\ /\ cpc \in {"write_command", "assert", "await_busy", "clear", "await_done"}
     /\ call.cmd \in WithInput
     => ramInput = call.arg
  /\ /\ cpc \in {"await_busy", "clear", "await_done"}
     /\ spc \in {"ack", "drain", "drain_ram", "fetch", "execute", "reply",
                 "finish"}
     => command = call.cmd
  /\ spc \in {"execute", "reply"} => [cmd |-> command, arg |-> arg] \in Calls
  /\ cpc = "await_done" /\ spc \in {"execute", "reply"} => arg = call.arg

\* ... and is executed between the release of the command wire and IDLE.
ExecutedBy ==
  \/ cpc = "read_output"
  \/ cpc = "await_done" /\ spc \in {"reply", "finish", "idle"}

ExecutedOnce ==
  /\ cpc \in InCall => IF ExecutedBy THEN execs = 1 /\ executed = call
                                     ELSE execs = 0 /\ executed = NIL
  /\ /\ \/ cpc = "read_output"
        \/ cpc = "await_done" /\ spc \in {"finish", "idle"}
     /\ call.cmd \in WithOutput
     => ramOutput = call

IInv == TypeOK /\ WiresFollow /\ Lockstep /\ CallCarried /\ ExecutedOnce

\* The whole of what exec promises: every completed call was executed once,
\* with its own arguments, and returned its own answer.  The arguments enter
\* through |executed|: a wrong execution counts as two.
Abstract == INSTANCE RpcCall WITH
  Answered <- {c \in Calls : c.cmd \in WithOutput},
  phase <- IF cpc \in StartingUp THEN "off"
           ELSE IF cpc \in InCall THEN "called" ELSE "ready",
  execs <- IF executed \in {NIL, call} THEN execs ELSE 2

ImplementsRpcCall == Abstract!Spec

\* exec has no timeout, and needs none as long as both processors run: every
\* call returns, or the Arduino is restarted under it.
CallReturns == (cpc \in InCall) ~> (cpc \notin InCall)
============================================================================
