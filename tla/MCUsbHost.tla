----------------------------- MODULE MCUsbHost -----------------------------
(* A stick that is reported in the middle, on either side of zero and at    *)
(* one end, one button, requests that give up at the second NAK, and        *)
(* deadlines of one to three ticks: each of the three ways to give up comes *)
(* first in some behaviours.                                                *)
EXTENDS UsbHost
============================================================================
