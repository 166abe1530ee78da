----------------------------- MODULE RpcProofs -----------------------------
(***************************************************************************)
(* The handshake of Rpc is correct for any set of commands, arguments and  *)
(* any number of restarts, on every board whose status wire is held at one *)
(* level while the coprocessor does not drive it.                          *)
(***************************************************************************)
EXTENDS Rpc, TLAPS

\* The wiring assumption: an undriven status wire reads one level.
Pulled == \A w \in Wirings : ~("IDLE" \in w /\ "BUSY" \in w)

LEMMA InitIInv == Init => IInv
BY RpcAssumption
   DEF Init, IInv, TypeOK, WiresFollow, Lockstep, CallCarried, ExecutedOnce,
       ClientPC, ServerPC, StartingUp, InCall

LEMMA ClientKeepsIInv ==
  ASSUME Pulled, IInv, ClientStep
  PROVE  IInv'
<1> USE RpcAssumption, NilAssumption
    DEF IInv, TypeOK, ClientPC, ServerPC, StartingUp, InCall, clientVars,
        serverVars, ramVars, history, wires, callVars, replyVars,
        ClientMoves, ServerMoves, WiresFollow, Lockstep,
        CallCarried, ExecutedBy, ExecutedOnce
<1>1. CASE BeginOutput
  BY <1>1 DEF BeginOutput
<1>2. CASE BeginNone
  BY <1>2 DEF BeginNone
<1>3. CASE BeginReset
  BY <1>3 DEF BeginReset
<1>4. CASE BeginRelease
  BY <1>4 DEF BeginRelease
<1>5. CASE AwaitIdle
  BY <1>5 DEF AwaitIdle, StatusReads, Pulled
<1>6. CASE WriteArgs
  BY <1>6 DEF WriteArgs, Calls
<1>7. CASE WriteCommand
  BY <1>7 DEF WriteCommand, Calls
<1>8. CASE AssertCommand
  BY <1>8 DEF AssertCommand
<1>9. CASE AwaitBusy
  BY <1>9 DEF AwaitBusy, StatusReads
<1>10. CASE ClearCommand
  BY <1>10 DEF ClearCommand
<1>11. CASE AwaitDone
  BY <1>11 DEF AwaitDone, StatusReads
<1>12. CASE ReadOutput
  BY <1>12 DEF ReadOutput
<1> QED
  BY <1>1, <1>2, <1>3, <1>4, <1>5, <1>6, <1>7, <1>8, <1>9, <1>10, <1>11,
     <1>12 DEF ClientStep

LEMMA ServerKeepsIInv ==
  ASSUME IInv, ServerStep
  PROVE  IInv'
<1> USE RpcAssumption, NilAssumption
    DEF IInv, TypeOK, ClientPC, ServerPC, StartingUp, InCall, clientVars,
        serverVars, ramVars, history, wires, callVars, replyVars,
        ClientMoves, ServerMoves, WiresFollow, Lockstep,
        CallCarried, ExecutedBy, ExecutedOnce
<1>1. CASE InitServer
  BY <1>1 DEF InitServer
<1>2. CASE PollPin
  BY <1>2 DEF PollPin, CommandReads
<1>3. CASE PollRam
  BY <1>3 DEF PollRam, Calls
<1>4. CASE RereadPin
  BY <1>4 DEF RereadPin, CommandReads
<1>5. CASE LatchCommand
  BY <1>5 DEF LatchCommand
<1>6. CASE Acknowledge
  BY <1>6 DEF Acknowledge
<1>7. CASE DrainPin
  BY <1>7 DEF DrainPin, CommandReads
<1>8. CASE DrainRam
  BY <1>8 DEF DrainRam, Calls
<1>9. CASE FetchArgs
  BY <1>9 DEF FetchArgs, Calls
<1>10. CASE Execute
  BY <1>10 DEF Execute, Calls
<1>11. CASE Reply
  BY <1>11 DEF Reply, Calls
<1>12. CASE Finish
  BY <1>12 DEF Finish
<1> QED
  BY <1>1, <1>2, <1>3, <1>4, <1>5, <1>6, <1>7, <1>8, <1>9, <1>10, <1>11,
     <1>12 DEF ServerStep

LEMMA EnvironmentKeepsIInv ==
  ASSUME IInv, Environment
  PROVE  IInv'
<1> USE RpcAssumption, NilAssumption
    DEF IInv, TypeOK, ClientPC, ServerPC, StartingUp, InCall, clientVars,
        serverVars, ramVars, history, wires, callVars, replyVars,
        ClientMoves, ServerMoves, WiresFollow, Lockstep,
        CallCarried, ExecutedBy, ExecutedOnce, ArduinoReset
<1>1. CASE MemAccess
  BY <1>1 DEF MemAccess
<1>2. CASE \E c \in Calls : Exec(c)
  BY <1>2 DEF Exec
<1>3. CASE ClientRestart
  BY <1>3 DEF ClientRestart
<1>4. CASE EnterMenu
  BY <1>4 DEF EnterMenu
<1>5. CASE LeaveMenu
  BY <1>5 DEF LeaveMenu
<1> QED
  BY <1>1, <1>2, <1>3, <1>4, <1>5 DEF Environment

\* The wires, the program counters and the call in flight agree at every step
\* of the handshake, resets and boot menu included.
THEOREM HandshakeInvariant ==
  ASSUME Pulled
  PROVE  Spec => []IInv
<1>1. IInv /\ [Next]_vars => IInv'
  <2>1. IInv /\ Next => IInv'
    BY Pulled, ClientKeepsIInv, ServerKeepsIInv, EnvironmentKeepsIInv DEF Next
  <2>2. IInv /\ UNCHANGED vars => IInv'
    BY DEF vars, IInv, TypeOK, clientVars, serverVars, ramVars, history, wires,
           WiresFollow, Lockstep, CallCarried, ExecutedBy, ExecutedOnce
  <2> QED BY <2>1, <2>2
<1> QED BY InitIInv, <1>1, PTL DEF Spec

\* Client and server never transfer on the shared RAM at the same time.
THEOREM RamBusIsExclusive ==
  ASSUME Pulled
  PROVE  Spec => []BusExclusion
<1>1. IInv => BusExclusion
  BY DEF IInv, TypeOK, Lockstep, BusExclusion, ClientOnBus, ServerOnBus,
         ClientPC, StartingUp, InCall
<1> QED BY HandshakeInvariant, <1>1, PTL

\* BUSY, as the client reads it, acknowledges the client's own command.
THEOREM BusyAcknowledges ==
  ASSUME Pulled
  PROVE  Spec => []Acknowledged
<1>1. IInv => Acknowledged
  BY DEF IInv, Lockstep, CallCarried, Acknowledged
<1> QED BY HandshakeInvariant, <1>1, PTL

----------------------------------------------------------------------------
(* The handshake implements the abstract call.                             *)

LEMMA InitRefines == Init => Abstract!Init
BY DEF Init, Abstract!Init, StartingUp

LEMMA StepRefines ==
  ASSUME IInv, IInv', [Next]_vars
  PROVE  [Abstract!Next]_(Abstract!vars)
<1> USE RpcAssumption, NilAssumption
    DEF IInv, TypeOK, Lockstep, CallCarried, ExecutedBy, ExecutedOnce,
        ClientPC, ServerPC, StartingUp, InCall, clientVars, serverVars,
        ramVars, history, wires, callVars, replyVars, ClientMoves,
        ServerMoves, Abstract!vars
<1>1. CASE ClientStep
  <2>1. CASE BeginRelease
    <3>1. Abstract!Start
      BY <2>1 DEF BeginRelease, Abstract!Start
    <3> QED BY <3>1 DEF Abstract!Next
  <2>2. CASE AwaitDone
    <3>1. CASE call.cmd \in WithOutput
      BY <2>2, <3>1 DEF AwaitDone
    <3>2. CASE call.cmd \notin WithOutput
      <4>1. Abstract!Return
        BY <2>2, <3>2 DEF AwaitDone, Abstract!Return, WiresFollow, StatusReads
      <4> QED BY <4>1 DEF Abstract!Next
    <3> QED BY <3>1, <3>2
  <2>3. CASE ReadOutput
    <3>1. Abstract!Return
      BY <2>3 DEF ReadOutput, Abstract!Return
    <3> QED BY <3>1 DEF Abstract!Next
  <2>4. CASE BeginOutput \/ BeginNone \/ BeginReset \/ AwaitIdle \/ WriteArgs
             \/ WriteCommand \/ AssertCommand \/ AwaitBusy \/ ClearCommand
    BY <2>4 DEF BeginOutput, BeginNone, BeginReset, AwaitIdle, WriteArgs,
                WriteCommand, AssertCommand, AwaitBusy, ClearCommand
  <2> QED BY <1>1, <2>1, <2>2, <2>3, <2>4 DEF ClientStep
<1>2. CASE ServerStep
  <2>1. CASE Execute /\ cpc \in InCall
    <3>1. Abstract!Execute
      BY <2>1 DEF Execute, Abstract!Execute
    <3> QED BY <3>1 DEF Abstract!Next
  <2>2. CASE Execute /\ cpc \notin InCall
    BY <2>2 DEF Execute
  <2>3. CASE InitServer \/ PollPin \/ PollRam \/ RereadPin \/ LatchCommand
             \/ Acknowledge \/ DrainPin \/ DrainRam \/ FetchArgs \/ Reply
             \/ Finish
    BY <2>3 DEF InitServer, PollPin, PollRam, RereadPin, LatchCommand,
                Acknowledge, DrainPin, DrainRam, FetchArgs, Reply, Finish
  <2> QED BY <1>2, <2>1, <2>2, <2>3 DEF ServerStep
<1>3. CASE Environment
  <2>1. CASE MemAccess
    BY <2>1 DEF MemAccess
  <2>2. ASSUME NEW c \in Calls, Exec(c)
        PROVE  Abstract!Next
    <3>1. Abstract!Call(c)
      BY <2>2 DEF Exec, Abstract!Call
    <3> QED BY <3>1 DEF Abstract!Next
  <2>3. CASE ClientRestart \/ EnterMenu
    <3>1. Abstract!Restart
      BY <2>3 DEF ClientRestart, EnterMenu, ArduinoReset, Abstract!Restart
    <3> QED BY <3>1 DEF Abstract!Next
  <2>4. CASE LeaveMenu
    BY <2>4 DEF LeaveMenu
  <2> QED BY <1>3, <2>1, <2>2, <2>3, <2>4 DEF Environment
<1>4. CASE UNCHANGED vars
  BY <1>4 DEF vars
<1> QED BY <1>1, <1>2, <1>3, <1>4 DEF Next

\* Every call that returns was executed by the server exactly once, with its
\* own arguments, and returned its own answer.
THEOREM HandshakeRefinesCall ==
  ASSUME Pulled
  PROVE  Spec => ImplementsRpcCall
<1>1. IInv /\ IInv' /\ [Next]_vars => [Abstract!Next]_(Abstract!vars)
  BY StepRefines
<1> QED
  BY HandshakeInvariant, InitRefines, <1>1, PTL
     DEF Spec, ImplementsRpcCall, Abstract!Spec
============================================================================
