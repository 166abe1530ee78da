------------------------------ MODULE RpcCall ------------------------------
(***************************************************************************)
(* What RPC::exec promises a sketch: a call that returns has been executed *)
(* by the coprocessor exactly once, with the arguments it was made with,   *)
(* and brings back the answer to that call and no other.  A restart of the *)
(* Arduino abandons the call in progress.                                  *)
(*                                                                         *)
(* Rpc.tla shows that the pin and shared-memory handshake implements it.   *)
(***************************************************************************)
CONSTANTS
  Calls,       \* the calls a sketch can make: command code and arguments
  Answered,    \* the calls that bring an answer back (out_size > 0)
  NIL          \* no call, no answer

VARIABLES
  phase,       \* "off": the Arduino starts up; "ready"; "called": inside exec
  call,        \* the call in progress, or the last one
  execs,       \* how often the server executed something since the call began
  answer       \* what the last answered call brought back

vars == <<phase, call, execs, answer>>

Init ==
  /\ phase = "off"
  /\ call = NIL
  /\ execs = 0
  /\ answer = NIL

Start ==
  /\ phase = "off"
  /\ phase' = "ready"
  /\ UNCHANGED <<call, execs, answer>>

Call(c) ==
  /\ phase = "ready"
  /\ phase' = "called"
  /\ call' = c
  /\ execs' = 0
  /\ UNCHANGED answer

\* The server runs the call in progress, and only once.
Execute ==
  /\ phase = "called"
  /\ execs = 0
  /\ execs' = 1
  /\ UNCHANGED <<phase, call, answer>>

Return ==
  /\ phase = "called"
  /\ execs = 1
  /\ phase' = "ready"
  /\ answer' = IF call \in Answered THEN call ELSE answer
  /\ UNCHANGED <<call, execs>>

Restart ==
  /\ phase' = "off"
  /\ call' = NIL
  /\ execs' = 0
  /\ answer' = NIL

Next ==
  \/ Start
  \/ \E c \in Calls : Call(c)
  \/ Execute
  \/ Return
  \/ Restart

Spec == Init /\ [][Next]_vars
============================================================================
