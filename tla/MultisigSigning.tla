--------------------------- MODULE MultisigSigning ---------------------------
(***************************************************************************)
(* Signing with several signers: ContextMultisigBTC.                       *)
(*                                                                         *)
(* Each cosigner has a context with the main keys of the wallet and a      *)
(* device with its own.  A transaction passes from one to the next: the    *)
(* call JUB_ParseTransactionBTC leaves the incoming transaction in the     *)
(* context (_hexIncTx), where it stays until the next such call, and       *)
(* JUB_SignTransactionBTC adds the device's signatures to those in it,     *)
(* until every input has m.                                                *)
(*                                                                         *)
(* A main key is a number, in the order std::sort gives the keys; Rank is  *)
(* the order of the keys derived from them for a path, which is another.   *)
(* A signature is abstracted to what ecdsa_verify tells: by which key, for *)
(* which input of which transaction (pullAll takes any hash type).         *)
(*                                                                         *)
(* JUB_ParseTransactionBTC takes any transaction, those that no context    *)
(* here has made (Foreign) included: their signatures may come in any      *)
(* order, twice, for nothing that verifies, or be no signatures at all.    *)
(*                                                                         *)
(* The devices are external; SignTransaction shows what they may answer.   *)
(***************************************************************************)
EXTENDS Naturals, Sequences, FiniteSets, SequencesExt

CONSTANTS
    Cosigners,      \* the main keys whose devices have a context here
    Keys,           \* all main keys
    Configs,        \* the lists of main keys a context may be created with
    m, n,           \* _m and _n
    MaxCosigners,   \* MULTISIG_COSIGNER_MAX_CNT: 15
    Paths,
    Rank,           \* the order of the derived keys: Rank[p][k]
    Txs,            \* the transactions to sign
    Inputs,         \* the inputs of each: its path and its script type
    Change,         \* its change output: "none", "multisig" or "other"
    Return0,        \* the transactions with an OP_RETURN output
    Foreign,        \* partly signed transactions that were made elsewhere
    MaxCalls,       \* bound: calls of SignTX in which the device answers, or that crash
    MaxParses,      \* bound: calls of ParseTransaction
    MaxWrong,       \* bound: calls in which the device answers anything wrong
    NULL, GARBAGE   \* no incoming transaction, and one that deserializeTx fails on

\* A signature.  One that is no DER at all verifies nowhere.
Signature == [by : Keys, index : Nat, tx : Txs, input : Nat, der : BOOLEAN]

\* A partly signed transaction: per input the redeem script, which a foreign one
\* may leave out (NULL), and the signatures.
IsTx(x) ==
    /\ x.tx \in Txs
    /\ DOMAIN x.scripts = DOMAIN Inputs[x.tx] /\ Len(x.scripts) = Len(Inputs[x.tx])
    /\ DOMAIN x.sigs = DOMAIN Inputs[x.tx] /\ Len(x.sigs) = Len(Inputs[x.tx])
    /\ \A i \in DOMAIN x.sigs : x.sigs[i] \in Seq(Signature)

ASSUME MultisigAssumption ==
    /\ Keys \subseteq Nat
    /\ Cosigners \subseteq Keys
    /\ Configs \subseteq Seq(Keys)
    /\ m \in Nat \ {0} /\ n \in Nat \ {0}
    /\ Rank \in [Paths -> [Keys -> Nat]]
    /\ \A p \in Paths : \A j, k \in Keys : Rank[p][j] = Rank[p][k] => j = k
    /\ \A t \in Txs : /\ Inputs[t] \in Seq([path : Paths, type : {"P2SH_MULTISIG", "P2PKH"}])
                      /\ Inputs[t] # <<>>
                      /\ Change[t] \in {"none", "multisig", "other"}
    /\ Return0 \subseteq Txs
    /\ \A x \in Foreign : IsTx(x)
    /\ MaxCalls \in Nat /\ MaxParses \in Nat /\ MaxWrong \in Nat

VARIABLES
    ctx,            \* the context of each cosigner, or NULL
    held,           \* the transaction that was returned last, or NULL
    \* history
    calls,          \* such calls so far
    parses,         \* calls of ParseTransaction
    wrong,          \* those in which the device answered anything wrong
    last            \* how the call of SignTX that has just ended did

vars == <<ctx, held, calls, parses, wrong, last>>

-----------------------------------------------------------------------------
(* The context *)

Nothing == [rv |-> "none", out |-> NULL]

\* std::sort: the elements of S in the order of the numbers r gives them.
Ascending(S, r) ==
    CHOOSE s \in [1..Cardinality(S) -> S] :
        \A i, j \in 1..Cardinality(S) : i < j => r[s[i]] < r[s[j]]

\* Mutant of MainKeys: the device's own key is not added.
MainKeysListed(k, list) == Ascending(ToSet(list), [j \in Keys |-> j])

\* order: the listed keys and the device's own, sorted, without duplicates.
MainKeys(k, list) == Ascending(ToSet(list) \cup {k}, [j \in Keys |-> j])

\* _cosignerIndex, from 0
CosignerIndex(c) == CHOOSE i \in 0..(Len(c.keys) - 1) : c.keys[i + 1] = c.me

\* OrderDHPublicKey fails on a list that is too short, or if the first n keys
\* do not have the device's own; buildRedeemScript fails if m exceeds n.
Buildable(c) == m <= n /\ Len(c.keys) >= n /\ \E i \in 1..n : c.keys[i] = c.me

\* The public keys it derives for a path, each from one of the first n main
\* keys and the index of that key, in their order.
Derived(keys) == {[key |-> keys[i], index |-> i - 1] : i \in 1..n \cap DOMAIN keys}

OrderedKeys ==
    [keys \in {MainKeys(k, list) : k \in Cosigners, list \in Configs} |->
        [p \in Paths |-> Ascending(Derived(keys), [d \in Derived(keys) |-> Rank[p][d.key]])]]

OrderDHPublicKey(c, p) == OrderedKeys[c.keys][p]

\* _orderedIndex, from 0: where the device's own key is in that order.
OrderedIndex(c, p) ==
    CHOOSE i \in 0..(n - 1) : OrderDHPublicKey(c, p)[i + 1].key = c.me

BuildRedeemScript(c, p) == [m |-> m, keys |-> OrderDHPublicKey(c, p)]

\* Mutant of BuildRedeemScriptTlv: the key is left out at _cosignerIndex.
TlvAtCosignerIndex(c, p) ==
    [index |-> CosignerIndex(c), m |-> m,
     keys |-> RemoveAt(OrderDHPublicKey(c, p), CosignerIndex(c) + 1)]

\* What the device is told of the script: all keys but its own, and where its
\* own belongs.
BuildRedeemScriptTlv(c, p) ==
    [index |-> OrderedIndex(c, p), m |-> m,
     keys |-> RemoveAt(OrderDHPublicKey(c, p), OrderedIndex(c, p) + 1)]

\* JUB_CreateContextBTC refuses a configuration with too many signers.  (Bound:
\* each cosigner makes one context, before any of them is used.)
CreateContext(k, list) ==
    /\ ctx[k] = NULL /\ calls = 0 /\ parses = 0
    /\ Len(list) < MaxCosigners
    /\ m <= MaxCosigners /\ n <= MaxCosigners
    /\ ctx' = [ctx EXCEPT ![k] = [me |-> k, keys |-> MainKeys(k, list), incTx |-> NULL]]
    /\ last' = Nothing
    /\ UNCHANGED <<held, calls, parses, wrong>>

\* JUB_ParseTransactionBTC: _hexIncTx is set before the transaction is parsed,
\* and stays if that fails.
ParseTransaction(k, x) ==
    /\ ctx[k] # NULL /\ parses < MaxParses
    /\ ctx' = [ctx EXCEPT ![k].incTx = x]
    /\ parses' = parses + 1
    /\ last' = Nothing
    /\ UNCHANGED <<held, calls, wrong>>

-----------------------------------------------------------------------------
(* SignTX *)

\* Mutant of Verifies: whether it is a signature at all, by any key.
VerifiesAnyKey(s, d, t, i) == s.der /\ s.tx = t /\ s.input = i

\* ecdsa_verify, for the derived key d and input i of transaction t.
Verifies(s, d, t, i) ==
    s.der /\ s.by = d.key /\ s.index = d.index /\ s.tx = t /\ s.input = i

\* What the device of context c may return for t: for every input its signature
\* with the key at the path it was given; or, somewhere, a late answer with its
\* signature of something else, or bytes that are no signature.
RightAnswer(c, t) ==
    [i \in DOMAIN Inputs[t] |->
        [by |-> c.me, index |-> CosignerIndex(c), tx |-> t, input |-> i, der |-> TRUE]]

DeviceAnswers(c, t) ==
    {RightAnswer(c, t)} \cup
    (IF wrong = MaxWrong THEN {}
     ELSE UNION {{[RightAnswer(c, t) EXCEPT ![i].input = 0],
                  [RightAnswer(c, t) EXCEPT ![i].der = FALSE]} : i \in DOMAIN Inputs[t]})

\* The signatures of the incoming transaction for input i.
FromIncTx(c, i) == IF c.incTx = NULL THEN <<>> ELSE c.incTx.sigs[i]

\* Those that match the derived key d.
FoundInIncTx(c, t, i, d) ==
    LET sigs == FromIncTx(c, i)
    IN  FlattenSeq([h \in 1..Len(sigs) |->
            IF Verifies(sigs[h], d, t, i) THEN <<sigs[h]>> ELSE <<>>])

\* Mutant of Matching: the device's signature is added to those there are.
MatchingBoth(c, t, i, d, s) ==
    FoundInIncTx(c, t, i, d) \o (IF Verifies(s, d, t, i) THEN <<s>> ELSE <<>>)

\* The signatures that match d: those of the incoming transaction, and the
\* device's own, s, only when there are none.
Matching(c, t, i, d, s) ==
    LET found == FoundInIncTx(c, t, i, d)
    IN  IF found # <<>> THEN found
        ELSE IF Verifies(s, d, t, i) THEN <<s>>
        ELSE <<>>

\* Mutant of OrderSignatures: the device's signature is taken as it is.
OrderUnverified(c, t, i, s) ==
    FlattenSeq([j \in 1..n |->
        LET d == OrderDHPublicKey(c, Inputs[t][i].path)[j]
        IN  IF d.key = c.me THEN <<s>>
            ELSE FoundInIncTx(c, t, i, d)])

\* OrderSignatures for input i: the signatures in the order of the keys.
OrderSignatures(c, t, i, s) ==
    FlattenSeq([j \in 1..n |->
        Matching(c, t, i, OrderDHPublicKey(c, Inputs[t][i].path)[j], s)])

\* It fails on a signature that is no DER: on any of the incoming transaction,
\* and on the device's if it looks at it, for a key the incoming transaction has
\* no signature of.
Unreadable(c, t, i, s) ==
    \/ \E x \in ToSet(FromIncTx(c, i)) : ~x.der
    \/ /\ ~s.der
       /\ \E d \in ToSet(OrderDHPublicKey(c, Inputs[t][i].path)) :
            FoundInIncTx(c, t, i, d) = <<>>

Scripts(c, t) == [i \in DOMAIN Inputs[t] |-> BuildRedeemScript(c, Inputs[t][i].path)]

\* deserializeTx compares the redeem scripts that are in the incoming
\* transaction with the call's, and SignTX the transactions.
IncTxFits(c, t) ==
    c.incTx # NULL =>
        /\ c.incTx # GARBAGE
        /\ c.incTx.tx = t
        /\ \A i \in DOMAIN Inputs[t] : c.incTx.scripts[i] \in {NULL, Scripts(c, t)[i]}

\* It looks for the call's redeem script of every input of the incoming
\* transaction that has one, though it may have more inputs than the call's (and
\* goes on to the next input after a script that differs).
IncTxOutgrows(c, t) ==
    /\ c.incTx \notin {NULL, GARBAGE}
    /\ \E i \in DOMAIN c.incTx.scripts :
        i > Len(Inputs[t]) /\ c.incTx.scripts[i] # NULL

\* Mutant of NoChangeScript: no change output has one.
NoChangeScriptEver(t) == Change[t] # "none"

\* SignTXMultisigBTC takes a redeem script per change output, but SignTX makes
\* them for outputs of type P2SH_MULTISIG only.
NoChangeScript(t) == Change[t] = "other"

Ended(k, t, rv) == [rv |-> rv, by |-> k, tx |-> t, inc |-> ctx[k].incTx, out |-> NULL]

Refuse(rv) ==
    /\ last' = [Nothing EXCEPT !.rv = rv]
    /\ UNCHANGED <<ctx, held>>

\* The checks before the device is asked.
SignRefused(k, t) ==
    /\ ctx[k] # NULL
    /\ \/ ~Buildable(ctx[k])
       \/ t \in Return0
       \/ Buildable(ctx[k]) /\ ~IncTxFits(ctx[k], t)
    /\ Refuse("ARGUMENTS_BAD")
    /\ UNCHANGED <<calls, parses, wrong>>

\* A vector is read past its end.  What is there is nothing the program put
\* there; the process may survive (the other actions) or die.
SignCrashes(k, t) ==
    /\ ctx[k] # NULL /\ calls < MaxCalls
    /\ Buildable(ctx[k]) /\ t \notin Return0
    /\ IncTxOutgrows(ctx[k], t) \/ (IncTxFits(ctx[k], t) /\ NoChangeScript(t))
    /\ last' = Ended(k, t, "crash")
    /\ ctx' = [ctx EXCEPT ![k] = NULL]
    /\ calls' = calls + 1
    /\ UNCHANGED <<held, parses, wrong>>

\* The device is asked, and fails.
SignFails(k, t) ==
    /\ ctx[k] # NULL
    /\ Buildable(ctx[k]) /\ t \notin Return0
    /\ IncTxFits(ctx[k], t)
    /\ Refuse("device")
    /\ UNCHANGED <<calls, parses, wrong>>

\* serializeTx takes no P2PKH input, and tells whether every input has m
\* signatures.
Serializable(t) == \A i \in DOMAIN Inputs[t] : Inputs[t][i].type # "P2PKH"

Serialized(c, t, sigs) == [tx |-> t, scripts |-> Scripts(c, t), sigs |-> sigs]

IsFinished(x) == \A i \in DOMAIN x.sigs : Len(x.sigs[i]) >= m

\* The device returns the signatures s.
SignTX(k, t, s) ==
    /\ ctx[k] # NULL /\ calls < MaxCalls
    /\ Buildable(ctx[k]) /\ t \notin Return0
    /\ IncTxFits(ctx[k], t)
    /\ LET c == ctx[k]
           out == Serialized(c, t, [i \in DOMAIN Inputs[t] |-> OrderSignatures(c, t, i, s[i])])
       IN  IF ~Serializable(t) \/ \E i \in DOMAIN Inputs[t] : Unreadable(c, t, i, s[i])
           THEN Refuse("ARGUMENTS_BAD")
           ELSE /\ last' = [Ended(k, t, IF IsFinished(out) THEN "OK" ELSE "MULTISIG_OK")
                                EXCEPT !.out = out]
                /\ held' = out
                /\ UNCHANGED ctx
    /\ calls' = calls + 1
    /\ UNCHANGED parses
    /\ wrong' = wrong + (IF s = RightAnswer(ctx[k], t) THEN 0 ELSE 1)

Init ==
    /\ ctx = [k \in Cosigners |-> NULL]
    /\ held = NULL
    /\ calls = 0 /\ parses = 0
    /\ wrong = 0
    /\ last = Nothing

Next ==
    \E k \in Cosigners :
        \/ \E list \in Configs : CreateContext(k, list)
        \/ \E x \in Foreign \cup ({held, GARBAGE} \ {NULL}) : ParseTransaction(k, x)
        \/ \E t \in Txs :
            \/ SignRefused(k, t)
            \/ SignCrashes(k, t)
            \/ SignFails(k, t)
            \/ ctx[k] # NULL /\ \E s \in DeviceAnswers(ctx[k], t) : SignTX(k, t, s)

Spec == Init /\ [][Next]_vars

-----------------------------------------------------------------------------
(* Properties *)

\* The contexts, the transactions and the history keep their types.
TypeOK ==
    /\ \A k \in Cosigners :
        ctx[k] # NULL =>
            /\ ctx[k].me = k
            /\ ctx[k].keys \in Seq(Keys) /\ Contains(ctx[k].keys, k)
            /\ ctx[k].incTx \in {NULL, GARBAGE} \/ IsTx(ctx[k].incTx)
    /\ held = NULL \/ IsTx(held)
    /\ calls \in 0..MaxCalls /\ parses \in 0..MaxParses /\ wrong \in 0..MaxWrong
    /\ last.rv \in {"none", "ARGUMENTS_BAD", "crash", "device", "MULTISIG_OK", "OK"}
    /\ last.out \in {NULL, held}

Position(script, s) ==
    CHOOSE j \in 1..Len(script.keys) :
        script.keys[j].key = s.by /\ script.keys[j].index = s.index

\* The signatures of input i that came in; those of x that verify with a key of
\* its redeem script; and what comes twice.
Incoming(i) == IF last.inc = NULL THEN <<>> ELSE last.inc.sigs[i]
Valid(x, i, s) == \E d \in ToSet(x.scripts[i].keys) : Verifies(s, d, x.tx, i)
Twice(s, sigs) == \E g, h \in DOMAIN sigs : g < h /\ sigs[g] = s /\ sigs[h] = s

\* A transaction SignTX returns carries, for every input, only signatures of
\* that input by keys of its redeem script, in the order of the keys (as
\* OP_CHECKMULTISIG wants them); of the incoming ones it has lost none that
\* verifies, it has gained none but the caller's, and none comes twice that has
\* not come in twice.  That holds whatever the device answers and wherever the
\* incoming transaction is from.
ReturnedTxSound ==
    LET x == last.out
    IN  x # NULL => \A i \in DOMAIN x.sigs :
            /\ \A j \in DOMAIN x.sigs[i] :
                /\ Valid(x, i, x.sigs[i][j])
                /\ \A h \in 1..(j - 1) :
                    Position(x.scripts[i], x.sigs[i][h]) <= Position(x.scripts[i], x.sigs[i][j])
            /\ \A s \in ToSet(Incoming(i)) : Valid(x, i, s) => s \in ToSet(x.sigs[i])
            /\ \A s \in ToSet(x.sigs[i]) \ ToSet(Incoming(i)) : s.by = last.by
            /\ \A s \in ToSet(x.sigs[i]) : Twice(s, x.sigs[i]) => Twice(s, Incoming(i))

\* Cosigners who know the same keys build the same redeem script, in whatever
\* order their configurations list them; and the device, which puts its own key
\* where it is told to, builds that script, too: what it signs for is what the
\* host verifies against.
ScriptsAgree ==
    \A k \in {k \in Cosigners : ctx[k] # NULL /\ Buildable(ctx[k])} : \A p \in Paths :
        LET tlv == BuildRedeemScriptTlv(ctx[k], p)
            own == [key |-> k, index |-> CosignerIndex(ctx[k])]
        IN  /\ BuildRedeemScript(ctx[k], p).keys = InsertAt(tlv.keys, tlv.index + 1, own)
            /\ \A j \in Cosigners :
                (ctx[j] # NULL /\ ToSet(ctx[j].keys) = ToSet(ctx[k].keys)) =>
                    BuildRedeemScript(ctx[j], p) = BuildRedeemScript(ctx[k], p)

\* An input that serializeTx counts as finished (m signatures or more) has the
\* signatures of exactly m different keys, unless the incoming transaction had m
\* that verify for it already, or one twice: SignTX looks for neither, and
\* returns JUBR_OK for a transaction the network refuses.
FinishedByDifferentKeys ==
    last.out # NULL =>
        \A i \in DOMAIN last.out.sigs :
            LET sigs == last.out.sigs[i]
            IN  Len(sigs) >= m =>
                    \/ Len(sigs) = m /\ \A s \in ToSet(sigs) : ~Twice(s, sigs)
                    \/ Cardinality({h \in DOMAIN Incoming(i) :
                                        Valid(last.out, i, Incoming(i)[h])}) >= m
                    \/ \E s \in ToSet(sigs) : Twice(s, Incoming(i))

\* SignTX reads past the end of a vector only when the context still holds a
\* parsed transaction that has more inputs, or when a change output is not of
\* type P2SH_MULTISIG.
OverrunsOnlyOver ==
    last.rv = "crash" =>
        \/ Change[last.tx] = "other"
        \/ /\ last.inc \notin {NULL, GARBAGE}
           /\ last.inc.tx # last.tx
           /\ Len(last.inc.sigs) > Len(Inputs[last.tx])
=============================================================================
