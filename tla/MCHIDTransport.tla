--------------------------- MODULE MCHIDTransport ---------------------------
(* An instance of HIDTransport for TLC. *)
EXTENDS HIDTransport

\* Commands that fill the first report exactly, run over it by one byte, fill
\* two reports, and outgrow the length byte.
MCSendLens == {57, 117, 256}

\* Answers of one full report, and of two reports, full and barely begun.
MCRespLens == {57, 58, 116}

\* Room for every answer but not for the garbage of a misread length, and room
\* for a status word only.
MCRooms == {2, 4102}
=============================================================================
