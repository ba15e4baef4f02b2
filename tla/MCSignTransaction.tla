-------------------------- MODULE MCSignTransaction --------------------------
(***************************************************************************)
(* An instance of SignTransaction for TLC, with the pack sizes of the      *)
(* code.  The TLV lengths are on both sides of a full pack: 230 bytes are  *)
(* one pack, 231 are two, and 460 are two full ones.  A signed transaction *)
(* of 258 bytes leaves a remainder of two, which is as long as the answer  *)
(* that carries the length; one of 512 leaves none; one of 40 needs no     *)
(* full chunk.                                                             *)
(*                                                                         *)
(* The shortest upload has four pieces.  With it, five calls that time out *)
(* are enough for a sixth to meet answers of an earlier call beyond its    *)
(* own pieces.                                                             *)
(***************************************************************************)
EXTENDS SignTransaction

BTC == [amounts |-> 11, path |-> 230, tx |-> 231, change |-> 3, redeem |-> 0]
Multisig == [amounts |-> 20, path |-> 40, tx |-> 460, change |-> 3, redeem |-> 230]

MCUploads == {BTC, Multisig}
MCSigLens == {40, 258, 512}

Short == [amounts |-> 11, path |-> 22, tx |-> 200, change |-> 3, redeem |-> 0]

ShortUploads == {Short}
ShortSigLens == {258}
=============================================================================
