--------------------------- MODULE MCBLETransport ---------------------------
(***************************************************************************)
(* Instances of BLETransport for TLC.  The answer lengths are chosen for   *)
(* their packet layout: 17 bytes are one full packet (and with late ones   *)
(* behind it more than any answer here is), 37 bytes are two full packets  *)
(* and a third of two bytes, short enough for checkResponse to call it     *)
(* invalid on its own; 55 bytes are three full packets, so a repeated      *)
(* packet 0 makes up the announced length before the last packet is there. *)
(***************************************************************************)
EXTENDS BLETransport

Lens == {17, 37, 55}
ShortLens == {17, 37}
=============================================================================
