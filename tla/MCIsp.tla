------------------------------- MODULE MCIsp -------------------------------
(* Two pages of four bytes, files from none to one more than fits, and at   *)
(* most two flawed page writes: odd and even last bytes, last pages that    *)
(* are full, and files that are cut off.                                    *)
EXTENDS Isp
============================================================================
