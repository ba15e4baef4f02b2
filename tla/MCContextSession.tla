-------------------------- MODULE MCContextSession --------------------------
(***************************************************************************)
(* An instance of ContextSession for TLC: two devices, so that contexts of *)
(* one device can be used between two uses of a context of the other;      *)
(* as many addresses as contexts may live at a time; and an ID counter     *)
(* that comes round before the last context is created.                    *)
(***************************************************************************)
EXTENDS ContextSession, TLC

CONSTANTS d1, d2, a1, a2, btc, bch, ltc

Symmetry == Permutations({d1, d2}) \cup Permutations({a1, a2}) \cup Permutations({bch, ltc})
=============================================================================
