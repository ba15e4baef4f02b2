--------------------------- MODULE MCDeviceTables ---------------------------
(* An instance of DeviceTables for TLC. *)
EXTENDS DeviceTables, TLC

CONSTANTS d1, d2, d3, p1, p2, p3

Symmetry == Permutations({d1, d2, d3}) \cup Permutations({p1, p2, p3})
=============================================================================
