-------------------------- MODULE MCMultisigSigning --------------------------
(* An instance of MultisigSigning for TLC: a wallet of the keys 2, 3 and 4,  *)
(* and key 1, which is none of theirs.                                       *)
EXTENDS MultisigSigning

CONSTANTS p, q, t1, t2, t3, t4

\* All three keys; two of them and 1, which leaves 4 out; and more than a
\* context may have.
MCConfigs == {<<4, 3, 2>>, <<1, 2, 3>>, <<1, 2, 3, 4>>}

\* The derived keys keep the order of the main keys for p and turn it for q.
MCRank == [x \in {p, q} |-> [k \in 1..4 |-> IF x = p THEN k ELSE (3 * k) % 5]]

In(x) == [path |-> x, type |-> "P2SH_MULTISIG"]

\* Two inputs, one input, and one of another type, with a change output that
\* is no P2SH_MULTISIG; t4 has an OP_RETURN output.
MCInputs == [t \in {t1, t2, t3, t4} |->
                CASE t = t1 -> <<In(p), In(q)>>
                  [] t = t2 -> <<In(p)>>
                  [] t = t3 -> <<[path |-> q, type |-> "P2PKH"]>>
                  [] t = t4 -> <<In(q)>>]

MCChange == [t \in {t1, t2, t3, t4} |->
                CASE t = t2 -> "multisig" [] t = t3 -> "other" [] OTHER -> "none"]

By(k, t, i) == [by |-> k, index |-> k - 2, tx |-> t, input |-> i, der |-> TRUE]

\* The script of the three keys for path p.
ScriptOf(x) ==
    [m |-> m, keys |-> Ascending({[key |-> k, index |-> k - 2] : k \in 2..4},
                                 [d \in {[key |-> k, index |-> k - 2] : k \in 2..4} |->
                                    MCRank[x][d.key]])]

\* Made elsewhere: one without a script, with a signature that comes twice, the
\* keys the wrong way round and a signature of something else; and one with a
\* signature that is no DER.
MCForeign ==
    {[tx |-> t2, scripts |-> <<NULL>>,
      sigs |-> <<<<By(4, t2, 1), By(3, t2, 1), By(3, t1, 1), By(3, t2, 1)>>>>],
     [tx |-> t1, scripts |-> <<ScriptOf(p), ScriptOf(q)>>,
      sigs |-> <<<<By(4, t1, 1)>>, <<[By(4, t1, 2) EXCEPT !.der = FALSE]>>>>]}
=============================================================================
