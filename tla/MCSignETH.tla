----------------------------- MODULE MCSignETH -----------------------------
(****************************************************************************)
(* An instance of SignETH for TLC.  t0 creates a contract on a chain whose *)
(* recovery values just do not fit a byte any more, t2 does so on one whose *)
(* ID does not; t1 calls one, with an input of a full pack, on the last     *)
(* chain whose values all fit.                                              *)
(****************************************************************************)
EXTENDS SignETH, TLC

CONSTANTS t0, t1, t2, p1, p2

MCInputLen == (t0 :> 0) @@ (t1 :> 230) @@ (t2 :> 0)
MCChainID == (t0 :> 110) @@ (t1 :> 109) @@ (t2 :> 300)

Symmetry == Permutations({p1, p2})
=============================================================================
