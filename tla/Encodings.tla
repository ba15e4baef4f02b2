----------------------------- MODULE Encodings -----------------------------
(***************************************************************************)
(* What HardWalletSDK writes and something else reads: the length fields,  *)
(* with the n bytes that each encoder writes them for, and the paths of    *)
(* keys.                                                                   *)
(*                                                                         *)
(*   tlv          ToTlv and Tolv, after the tag; ParseTlv reads it         *)
(*   apdu         the Lc of JubApudBuiler::BuildApdu; the device reads it  *)
(*   push         uchar_vector::operator&, a push in a script, which       *)
(*                deserializeTx of libBTC reads                            *)
(*   compact      build_compact_size, which read_compact_size reads        *)
(*   rlp          RLP::encodeHeader and putint, of a string; Ethereum's    *)
(*                nodes read it                                            *)
(*   signatures   no length but a list of n signatures, each with its      *)
(*                length, which SignTXMultisigBTC takes apart              *)
(*   abi          the last argument of ContractAbi::serialize; the         *)
(*                contract reads it                                        *)
(*   path         no length but the path of a key, which parsePath reads   *)
(*                for the keys of the other cosigners                      *)
(*                                                                         *)
(* The encoders assign to bytes, and so drop what does not fit.            *)
(*                                                                         *)
(* The specification has names of its own, so that the module which proves *)
(* it can extend MultisigSigning beside it.                                *)
(***************************************************************************)
EXTENDS Naturals, SequencesExt

CONSTANTS
    Lengths,        \* the lengths to encode
    SigLen,         \* the length of a DER signature: 70 to 72
    KeyPaths,       \* the paths to write, see KeyPath
    HARDENED,       \* 0x80000000 in the code, scaled down: 32 bits are too many for TLC
    ERROR,          \* an exception
    NONE            \* nothing yet

\* A path: its child numbers, each with whether it is hardened.
KeyPath == Seq([index : Nat, hardened : BOOLEAN]) \ {<<>>}

ASSUME EncodingsAssumption ==
    /\ \A x \in Lengths : x \in Nat /\ x \div 256^3 < 128      \* below 2^31
    /\ SigLen \in Nat /\ 0 < SigLen /\ SigLen < 256
    /\ KeyPaths \subseteq KeyPath
    /\ HARDENED \in Nat \ {0}
    /\ {NONE, ERROR} \cap (Nat \cup Seq(Nat) \cup KeyPath) = {} /\ NONE # ERROR

VARIABLES
    enc,            \* the encoding
    value,          \* the length, or the path
    header,         \* the bytes written for it, ERROR, or NONE
    read            \* what was read from them, ERROR, or NONE

codecVars == <<enc, value, header, read>>

Encodings == {"tlv", "apdu", "push", "compact", "rlp", "signatures", "abi", "path"}

Bytes == 0..255

\* Byte i of x, from the lowest, which is byte 0. A length is below 2^31.
Byte(x, i) == IF i > 3 THEN 0 ELSE (x \div 256^i) % 256

\* The k low bytes of x, the lowest first and last.
LittleEndian(x, k) == [i \in 1..k |-> Byte(x, i - 1)]
BigEndian(x, k) == [i \in 1..k |-> Byte(x, k - i)]

\* And the number such bytes spell.
Spelt(b) ==
    LET spelt[k \in 0..Len(b)] == IF k = 0 THEN 0 ELSE 256 * spelt[k - 1] + b[k]
    IN  spelt[Len(b)]

\* The bytes x needs.
Size(x) == CHOOSE k \in 1..4 : Byte(x, k - 1) # 0 /\ \A i \in k..3 : Byte(x, i) = 0

-----------------------------------------------------------------------------
(* Writing *)

\* Mutant of TlvLength: 256 counts as one byte.
TlvLengthOff(x) ==
    CASE x > 256             -> <<130>> \o BigEndian(x, 2)
      [] 128 < x /\ x <= 256 -> <<129>> \o BigEndian(x, 1)
      [] x <= 128            -> <<x>>

TlvLength(x) ==
    CASE x >= 256           -> <<130>> \o BigEndian(x, 2)
      [] 128 < x /\ x < 256 -> <<129>> \o BigEndian(x, 1)
      [] x <= 128           -> <<x>>

Lc(x) ==
    CASE x > 255           -> BigEndian(x, 3)
      [] 0 < x /\ x <= 255 -> <<x>>
      [] x = 0             -> <<>>

\* OP_PUSHDATA4 takes the size shortened to 16 bits.
PushSize(x) ==
    CASE x < 76                 -> <<x>>
      [] 76 <= x /\ x <= 255    -> <<76, x>>
      [] 255 < x /\ x <= 65535  -> <<77>> \o LittleEndian(x, 2)
      [] x > 65535              -> <<78>> \o LittleEndian(x % 65536, 4)

\* The form with four bytes has the condition of the one with two.
CompactSize(x) ==
    CASE x < 253                -> <<x>>
      [] 253 <= x /\ x <= 65535 -> <<253>> \o LittleEndian(x, 2)
      [] x > 65535              -> <<255>> \o LittleEndian(x, 8)

RLPHeader(x) ==
    IF x < 56 THEN <<128 + x>> ELSE <<183 + Size(x)>> \o BigEndian(x, Size(x))

\* Every signature is of SigLen bytes.
SignatureLengths(x) == [i \in 1..x |-> SigLen]

\* push_back takes a byte.
AbiLength(x) == x % 256

\* After its length the data has as many zeros before it as make it 32 bytes, a
\* number that wraps for more: libc++ takes that for none, libstdc++ throws.
AbiBytes(x) ==
    IF x <= 32 THEN {[length |-> AbiLength(x), zeros |-> 32 - x]}
    ELSE {[length |-> AbiLength(x), zeros |-> 0], ERROR}

\* Characters, and std::to_string.
M == 109
SLASH == 47
QUOTE == 39
IsDigit(c) == c \in 48..57

Digits(x) ==
    LET digits[y \in 0..x] ==
            (IF y < 10 THEN <<>> ELSE digits[y \div 10]) \o <<48 + (y % 10)>>
    IN  digits[x]

PathElement(e) ==
    <<SLASH>> \o Digits(e.index) \o (IF e.hardened THEN <<QUOTE>> ELSE <<>>)

\* _FullBip32Path: the application's path, then change and addressIndex.
PathText(p) ==
    LET text[i \in 0..Len(p)] == IF i = 0 THEN <<M>> ELSE text[i - 1] \o PathElement(p[i])
    IN  text[Len(p)]

-----------------------------------------------------------------------------
(* Reading *)

ReadTlv(b) == IF b[1] \in {129, 130} THEN Spelt(Tail(b)) ELSE b[1]

\* A first byte of zero announces two more.
ReadLc(b) ==
    CASE b = <<>>               -> 0
      [] b # <<>> /\ b[1] = 0   -> Spelt(Tail(b))
      [] b # <<>> /\ b[1] # 0   -> b[1]

\* A push of nothing is refused.  The bytes announced are there: PushSize
\* announces no more than follow.
ReadPush(b) ==
    LET itemLen == IF b[1] \in {76, 77, 78} THEN Spelt(Reverse(Tail(b))) ELSE b[1]
    IN  IF itemLen = 0 THEN ERROR ELSE itemLen

ReadCompact(b) == IF b[1] \in {253, 254, 255} THEN Spelt(Reverse(Tail(b))) ELSE b[1]

ReadRLP(b) == IF b[1] <= 183 THEN b[1] - 128 ELSE Spelt(Tail(b))

\* offsetTotal, a uint8_t, before signature i.
Offset(i) == ((i - 1) * (SigLen + 1)) % 256

\* How many signatures are taken from where they are.
ReadSignatures(b) ==
    LET right == {i \in 1..Len(b) : Offset(i) = (i - 1) * (b[i] + 1)}
    IN  CHOOSE k \in 0..Len(b) : 1..k \subseteq right /\ (k = Len(b) \/ k + 1 \notin right)

\* Data that has zeros before it is read from those.
ReadAbi(b) == IF b.length > 0 /\ b.zeros > 0 THEN ERROR ELSE b.length

\* parsePath.  next: where it goes on; number: of the digits so far; ok: it has
\* not thrown.
Refused(at) == [at EXCEPT !.ok = FALSE, !.next = 0]

Pushed(at, number, hardened, next) ==
    [next |-> next, number |-> 0, ok |-> TRUE,
     out |-> Append(at.out, [index |-> number, hardened |-> hardened])]

\* What is in s from place i on: a digit; and a slash and a digit, or nothing.
DigitAt(s, i) == i <= Len(s) /\ IsDigit(s[i])
GoesOn(s, i) == i <= Len(s) => s[i] = SLASH /\ DigitAt(s, i + 1)

ParseDigit(s, at, i) ==
    LET number == 10 * at.number + (s[i] - 48)
    IN  IF number >= HARDENED THEN Refused(at)
        ELSE IF i = Len(s) THEN Pushed(at, number, FALSE, i + 1)
        ELSE [at EXCEPT !.number = number, !.next = i + 1]

ParseStep(s, at, i) ==
    CASE at.next # i -> at
      [] at.next = i /\ s[i] = M -> [at EXCEPT !.next = i + 2]
      [] at.next = i /\ IsDigit(s[i]) -> ParseDigit(s, at, i)
      [] at.next = i /\ s[i] = QUOTE ->
            IF GoesOn(s, i + 1) THEN Pushed(at, at.number, TRUE, i + 2) ELSE Refused(at)
      [] at.next = i /\ s[i] = SLASH ->
            IF DigitAt(s, i + 1) THEN Pushed(at, at.number, FALSE, i + 1) ELSE Refused(at)
      [] OTHER -> Refused(at)

ParsePath(s) ==
    LET at[i \in 0..Len(s)] ==
            IF i = 0 THEN [next |-> 1, number |-> 0, ok |-> TRUE, out |-> <<>>]
            ELSE ParseStep(s, at[i - 1], i)
    IN  IF at[Len(s)].ok THEN at[Len(s)].out ELSE ERROR

-----------------------------------------------------------------------------

\* What e may write for x, and what is taken from b, which e wrote.
Written(e, x) ==
    CASE e = "tlv"        -> {TlvLength(x)}
      [] e = "apdu"       -> {Lc(x)}
      [] e = "push"       -> {PushSize(x)}
      [] e = "compact"    -> {CompactSize(x)}
      [] e = "rlp"        -> {RLPHeader(x)}
      [] e = "signatures" -> {SignatureLengths(x)}
      [] e = "abi"        -> AbiBytes(x)
      [] e = "path"       -> {PathText(x)}

Taken(e, b) ==
    CASE e = "tlv"        -> ReadTlv(b)
      [] e = "apdu"       -> ReadLc(b)
      [] e = "push"       -> ReadPush(b)
      [] e = "compact"    -> ReadCompact(b)
      [] e = "rlp"        -> ReadRLP(b)
      [] e = "signatures" -> ReadSignatures(b)
      [] e = "abi"        -> ReadAbi(b)
      [] e = "path"       -> ParsePath(b)

CodecInit ==
    /\ enc \in Encodings
    /\ value \in (IF enc = "path" THEN KeyPaths ELSE Lengths)
    /\ enc = "signatures" => value <= 255
    /\ header = NONE
    /\ read = NONE

Write ==
    /\ header = NONE
    /\ header' \in Written(enc, value)
    /\ UNCHANGED <<enc, value, read>>

Read ==
    /\ header \notin {NONE, ERROR} /\ read = NONE
    /\ read' = Taken(enc, header)
    /\ UNCHANGED <<enc, value, header>>

CodecNext == Write \/ Read

CodecSpec == CodecInit /\ [][CodecNext]_codecVars

-----------------------------------------------------------------------------

\* What each encoding gets wrong: TLVs, APDUs and pushes stop at 64 KB; a push
\* of nothing is not read; of the
\* signatures of a multisig transaction those from the first on that starts
\* beyond byte 255 are taken from the wrong place; a contract finds zeros where
\* less than 32 bytes should be, and has lengths of one byte; and a path may not
\* have a number that is taken for a hardened one.
OutOfReach(e, x) ==
    CASE e \in {"tlv", "apdu"} -> x >= 65536
      [] e = "push"           -> x = 0 \/ x >= 65536
      [] e = "signatures"     -> x * (SigLen + 1) > 256 + SigLen
      [] e = "abi"            -> x \in 1..31 \/ x > 255
      [] e = "path"           -> \E i \in DOMAIN x : x[i].index >= HARDENED
      [] OTHER                -> FALSE

\* What is read back is what was written, in bytes, exactly when it is not out
\* of reach for the encoding; also at the lengths where the form changes.  It
\* is never a path to another key: one out of reach is refused.
ReadsBack ==
    read # NONE =>
        /\ enc # "abi" => \A i \in DOMAIN header : header[i] \in Bytes
        /\ (read = value) <=> ~OutOfReach(enc, value)
        /\ enc = "path" => read \in {value, ERROR}
=============================================================================
