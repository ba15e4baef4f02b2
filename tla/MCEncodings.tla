---------------------------- MODULE MCEncodings ----------------------------
(* An instance of Encodings for TLC: the lengths around every change of form *)
(* and around the limits of one, two and three bytes; paths of up to three   *)
(* numbers, of which the largest are hardened by mistake.                    *)
EXTENDS Encodings

MCLengths == 0..600 \cup 65300..65800 \cup 131000..131100 \cup (2^24 - 20)..(2^24 + 20)

MCNumbers == [index : {0, 5, 9, 10, 44, 99, 100, 127, 128, 1000}, hardened : BOOLEAN]

MCKeyPaths == UNION {[1..k -> MCNumbers] : k \in 1..3}
=============================================================================
