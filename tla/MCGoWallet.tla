----------------------------- MODULE MCGoWallet -----------------------------
(* An instance of GoWallet for TLC. *)
EXTENDS GoWallet

CONSTANTS p1, p2

Item(v, hash, script) == [Value |-> v, TxHash |-> hash, Pkscript |-> script]
Good(v) == Item(v, "good", "good")
Bad == {Item(2, "bad", "good"), Item(2, "good", "bad"), Item(2, "good", "partial")}

Btc(amount, change, fee, inputs) ==
    [Coin |-> "btc", DestAddr |-> "good", Amount |-> amount, Change |-> change,
     Fee |-> fee, Inputs |-> inputs]

\* Up to three inputs against needs of 2 and 4, without and with change; inputs
\* that cannot be read, alone and behind another; an unknown coin and a bad
\* destination; and numbers of four bits that are 0, negative or wrap.
MCRequests ==
    {Btc(1, c, 1, s) : c \in {0, 2},
                       s \in UNION {[1..n -> {Good(v) : v \in 1..2}] : n \in 0..3}}
    \cup {Btc(1, 0, 1, s \o <<b>>) : b \in Bad, s \in {<<>>, <<Good(1)>>, <<Good(2)>>}}
    \cup {[Btc(1, 0, 1, <<Good(3)>>) EXCEPT !.Coin = "other"],
          [Btc(1, 0, 1, <<Good(3)>>) EXCEPT !.DestAddr = "bad"]}
    \cup {Btc(a, c, 0, s) : a \in {-1, 0, 7}, c \in {-1, 0, 1},
                            s \in {<<Good(-1)>>, <<Good(2)>>, <<Good(-1), Good(2)>>,
                                   <<Good(2), Good(7)>>}}

\* One request, for the run that is only about how a call ends.
OneRequest == {Btc(1, 0, 1, <<Good(3)>>)}
=============================================================================
