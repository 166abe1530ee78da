-------------------------------- MODULE Timer --------------------------------
(***************************************************************************)
(* The timers of the coprocessor (src/firmware/timer.cpp): a counter of    *)
(* milliseconds of two bytes, which an interrupt advances and the program  *)
(* reads and clears byte by byte, with interrupts turned off meanwhile.    *)
(***************************************************************************)
EXTENDS Integers

CONSTANT Byte          \* the values of a byte are 0..Byte-1
ASSUME ByteAssumption == Byte \in Nat /\ Byte > 1

VARIABLES ms_counter,  \* [lo, hi]
          ints,        \* the interrupt flag of the processor
          interrupts_enabled,
          timer,       \* the call under way: where it is, reenable_interrupts, count
          clock        \* history: the values of the counter since the call began
timerVars == <<ms_counter, ints, interrupts_enabled, timer, clock>>

Zero == [lo |-> 0, hi |-> 0]
ToNat(c) == c.hi * Byte + c.lo
Up(c) == [lo |-> (c.lo + 1) % Byte,
          hi |-> IF c.lo + 1 = Byte THEN (c.hi + 1) % Byte ELSE c.hi]

TimerInit ==           \* before timer_init; .bss is zero
  /\ ms_counter = Zero /\ ints = FALSE /\ interrupts_enabled = FALSE
  /\ timer = [pc |-> "init", re |-> FALSE, count |-> Zero] /\ clock = {0}

At(pc) == timer.pc = pc
Go(pc) == timer' = [timer EXCEPT !.pc = pc]
\* The flag of the module is cleared, the interrupts are left on.
EnterOpen(pc) ==
  /\ ints' = ints /\ interrupts_enabled' = FALSE
  /\ timer' = [timer EXCEPT !.pc = pc, !.re = interrupts_enabled]
Enter(pc) ==
  /\ ints' = (ints /\ ~interrupts_enabled) /\ interrupts_enabled' = FALSE
  /\ timer' = [timer EXCEPT !.pc = pc, !.re = interrupts_enabled]
Leave(pc) ==
  /\ ints' = (ints \/ timer.re) /\ interrupts_enabled' = timer.re
  /\ Go(pc)
  /\ UNCHANGED <<ms_counter, clock>>

(* timer_init: the reset inside it runs with interrupts off.               *)
timer_init == At("init") /\ Enter("clear hi") /\ UNCHANGED <<ms_counter, clock>>
timer_reset == /\ At("idle") /\ Enter("clear hi") /\ UNCHANGED ms_counter
               /\ clock' = {ToNat(ms_counter)}
ClearHi == /\ At("clear hi") /\ Go("clear lo") /\ ms_counter' = [ms_counter EXCEPT !.hi = 0]
           /\ UNCHANGED <<ints, interrupts_enabled, clock>>
ClearLo == /\ At("clear lo") /\ Go("cleared") /\ ms_counter' = [ms_counter EXCEPT !.lo = 0]
           /\ UNCHANGED <<ints, interrupts_enabled, clock>>
ResetDone == At("cleared") /\ interrupts_enabled' = TRUE /\ ints' = TRUE
             /\ Go("idle") /\ clock' = {} /\ UNCHANGED ms_counter

timer_get_ms == /\ At("idle") /\ Enter("read lo") /\ UNCHANGED ms_counter
                /\ clock' = {ToNat(ms_counter)}
ReadLo == /\ At("read lo")
          /\ timer' = [timer EXCEPT !.pc = "read hi", !.count.lo = ms_counter.lo]
          /\ UNCHANGED <<ms_counter, ints, interrupts_enabled, clock>>
ReadHi == /\ At("read hi")
          /\ timer' = [timer EXCEPT !.pc = "read", !.count.hi = ms_counter.hi]
          /\ UNCHANGED <<ms_counter, ints, interrupts_enabled, clock>>
GetDone == At("read") /\ Leave("got")
Got == /\ At("got") /\ timer' = [timer EXCEPT !.pc = "idle", !.count = Zero] /\ clock' = {}
       /\ UNCHANGED <<ms_counter, ints, interrupts_enabled>>

(* The interrupt of timer 1.                                               *)
TIMER1_COMPA ==
  /\ ints
  /\ ms_counter' = Up(ms_counter)
  /\ clock' = IF At("idle") THEN clock ELSE clock \cup {ToNat(ms_counter')}
  /\ UNCHANGED <<ints, interrupts_enabled, timer>>

TimerStep == \/ timer_init \/ ClearHi \/ ClearLo \/ ResetDone
             \/ ReadLo \/ ReadHi \/ GetDone \/ Got

(* timer_get_ms returns a value the counter had during the call, also when *)
(* a carry passes from one byte to the other; timer_reset leaves 0 behind. *)
ReadWhole == /\ timer.pc = "got" => ToNat(timer.count) \in clock
             /\ timer.pc = "cleared" => ms_counter = Zero
=============================================================================
