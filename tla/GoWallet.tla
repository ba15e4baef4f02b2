------------------------------ MODULE GoWallet ------------------------------
(***************************************************************************)
(* The Go wallet: one mnemonic, encrypted under a password, in one         *)
(* keystore file.  GenerateMnWallet replaces it, HDSignRawTransaction      *)
(* reads it back and signs.                                                *)
(*                                                                         *)
(* One call runs at a time.  What survives a crash is the file, which is   *)
(* truncated before it is written; what does not is the word list of the   *)
(* bip39 package, a global that every call sets and not every call resets. *)
(*                                                                         *)
(* Encryption is abstracted to what it lets through: with the password the *)
(* file was written under, the mnemonic, and with another one an error.    *)
(* The bip39, btcutil and txscript packages are external.                  *)
(***************************************************************************)
EXTENDS Integers, Sequences

CONSTANTS
    Passwords,
    Requests,       \* the SignInputs a caller may pass, see SignInput
    UNREADABLE,     \* a request that cannot be unzipped, or is no JSON
    Half,           \* an int64 is below it: 2^63
    MaxWallets,     \* bound: wallets generated
    ABSENT, TORN,   \* a keystore file that is missing, and one cut short
    NULL

Lists == {"english", "korean", "chinese_simplified", "chinese_traditional"}

Int64 == -Half..(Half - 1)

\* OutPutItem: what an input offers, whether its transaction hash can be read,
\* and whether its script is in hex: of one that is not, the part before the
\* mistake is taken ("partial"), which need not be a script ("bad").
OutPutItem ==
    [Value : Int64, TxHash : {"good", "bad"}, Pkscript : {"good", "partial", "bad"}]

\* SignInput, already read from its JSON: whether the coin is one coinMap knows
\* and whether DestAddr is an address of Net.  Nothing is known of its numbers.
SignInput == [Coin : {"btc", "other"}, DestAddr : {"good", "bad"}, Amount : Int64,
              Change : Int64, Fee : Int64, Inputs : Seq(OutPutItem)]

\* What a keystore file holds.  `simplified`: the words, whatever their list,
\* are also a valid mnemonic of the simplified Chinese list.
Wallet == [id : 1..MaxWallets, list : Lists, password : Passwords, simplified : BOOLEAN]

ASSUME WalletAssumption ==
    /\ Requests \subseteq SignInput
    /\ UNREADABLE \notin SignInput \cup {NULL}
    /\ Half \in Nat \ {0}
    /\ MaxWallets \in Nat
    /\ Wallet \cap {NULL, ABSENT, TORN} = {}
    /\ ABSENT # TORN

VARIABLES
    file,           \* keystore.txt: ABSENT, TORN or a Wallet
    wordList,       \* the list bip39 works with
    pc,             \* of the process: "dead", "idle", or in writeKeyStoreFile
    draft,          \* the wallet being written
    \* history
    attempts,       \* mnemonics made so far
    opened,         \* the last of them the file was opened for
    reported,       \* the last wallet GenerateMnWallet returned true for
    last            \* how the last call ended, and what it did

vars == <<file, wordList, pc, draft, attempts, opened, reported, last>>

\* signer: the wallet that signed; request: what for, or what the call died over;
\* used: how many inputs were signed; password: the one the call died over.
Ended(outcome) ==
    [outcome |-> outcome, signer |-> NULL, request |-> NULL, used |-> 0,
     password |-> NULL]

-----------------------------------------------------------------------------
(* The word list *)

\* Mutant of ListAfter: any language is taken.
ListAfterAny(language) == language

\* setLanguage: a language it does not know changes nothing.
ListAfter(language) == IF language \in Lists THEN language ELSE wordList

\* Mutant of Detected: no detection, as when Options.Language is left alone.
DetectedNever(w) == wordList

\* The list NewKey chooses from the letters of the mnemonic w: Han characters
\* are always simplified Chinese to it.
Detected(w) == IF w.list = "chinese_traditional" THEN "chinese_simplified" ELSE w.list

\* NewSeedWithErrorChecking accepts w when bip39 works with list l.
ValidIn(w, l) == l = w.list \/ (l = "chinese_simplified" /\ w.simplified)

-----------------------------------------------------------------------------
(* GenerateMnWallet *)

\* The request is not zipped, or making or encrypting the mnemonic fails.
GenerateRefused ==
    /\ pc = "idle"
    /\ wordList' \in Lists
    /\ last' = Ended("false")
    /\ UNCHANGED <<file, pc, draft, attempts, opened, reported>>

\* What is unzipped is no JSON, or null: JsonToCreateAccount returns nil, and
\* GenerateMnWallet takes the length of it.
GeneratePanics ==
    /\ pc = "idle"
    /\ pc' = "dead"
    /\ last' = [Ended("panic") EXCEPT !.request = UNREADABLE]
    /\ UNCHANGED <<file, wordList, draft, attempts, opened, reported>>

\* NewMnemonic sets the language and draws a mnemonic from the list bip39 then
\* has; EncryptKey seals it.  WriteFile has yet to open the file.
NewMnemonic(language, password) ==
    /\ pc = "idle"
    /\ attempts < MaxWallets
    /\ wordList' = ListAfter(language)
    /\ attempts' = attempts + 1
    /\ \E b \in BOOLEAN :
        /\ wordList' = "chinese_simplified" => b
        /\ wordList' \in {"english", "korean"} => ~b
        /\ draft' = [id |-> attempts + 1, list |-> wordList', password |-> password,
                     simplified |-> b]
    /\ pc' = "open"
    /\ last' = Ended("none")
    /\ UNCHANGED <<file, opened, reported>>

\* Opening the file truncates it.
OpenFile ==
    /\ pc = "open"
    /\ file' = TORN
    /\ opened' = draft.id
    /\ pc' = "write"
    /\ UNCHANGED <<wordList, draft, attempts, reported, last>>

OpenFails ==
    /\ pc = "open"
    /\ pc' = "idle"
    /\ last' = Ended("false")
    /\ UNCHANGED <<file, wordList, draft, attempts, opened, reported>>

WriteAll ==
    /\ pc = "write"
    /\ file' = draft
    /\ pc' = "idle"
    /\ reported' = draft
    /\ last' = Ended("true")
    /\ UNCHANGED <<wordList, draft, attempts, opened>>

\* Mutant of WriteFails: the error of writeKeyStoreFile is dropped.
WriteFailsUnnoticed ==
    /\ pc = "write"
    /\ pc' = "idle"
    /\ reported' = draft
    /\ last' = Ended("true")
    /\ UNCHANGED <<file, wordList, draft, attempts, opened>>

\* The write fails, or is short: the file stays cut off.
WriteFails ==
    /\ pc = "write"
    /\ pc' = "idle"
    /\ last' = Ended("false")
    /\ UNCHANGED <<file, wordList, draft, attempts, opened, reported>>

\* The process is killed between two steps, the last of which may be the write
\* that completes the file: the caller then hears nothing of it.
Crash ==
    /\ pc # "dead"
    /\ pc' = "dead"
    /\ file' \in IF pc = "write" THEN {TORN, draft} ELSE {file}
    /\ last' = Ended("none")
    /\ UNCHANGED <<wordList, draft, attempts, opened, reported>>

Restart ==
    /\ pc = "dead"
    /\ pc' = "idle"
    /\ wordList' = "english"
    /\ UNCHANGED <<file, draft, attempts, opened, reported, last>>

-----------------------------------------------------------------------------
(* HDSignRawTransaction *)

\* The sum of two int64s, which may wrap.
Plus(x, y) ==
    CASE x + y >= Half                   -> x + y - 2 * Half
      [] x + y < -Half                   -> x + y + 2 * Half
      [] -Half <= x + y /\ x + y < Half  -> x + y

\* spendValue after the first n of the inputs s, and what it is compared with.
Spent(s, n) ==
    LET sum[i \in 0..n] == IF i = 0 THEN 0 ELSE Plus(sum[i - 1], s[i].Value)
    IN  sum[n]

\* Mutant of Needed: the fee is not asked for.
NeededWithoutFee(r) == Plus(r.Change, r.Amount)

Needed(r) == Plus(Plus(r.Change, r.Amount), r.Fee)

Enough(r, n) == Spent(r.Inputs, n) >= Needed(r)

\* How many inputs the loop of SignRawTransaction takes: one, whatever is
\* needed, and then as many as it needs; all of them when they do not suffice.
Selected(r) ==
    IF \E n \in 1..Len(r.Inputs) : Enough(r, n)
    THEN CHOOSE n \in 1..Len(r.Inputs) : Enough(r, n) /\ \A k \in 1..(n - 1) : ~Enough(r, k)
    ELSE Len(r.Inputs)

\* SignRawTransaction returns no error.  Inputs it does not take are not read,
\* and a script that is not hex is no error: its own is dropped, and the one of
\* an earlier call looked at instead.
Signable(r) ==
    /\ r.DestAddr = "good"
    /\ \A i \in 1..Selected(r) : r.Inputs[i].TxHash = "good" /\ r.Inputs[i].Pkscript # "bad"

\* DecryptKey: the mnemonic, or "" (here NULL) from a file that is missing, cut
\* short or sealed under another password.
Decrypted(password) ==
    IF file \notin {ABSENT, TORN} /\ file.password = password THEN file ELSE NULL

SignUnknownCoin(r) ==
    /\ pc = "idle"
    /\ r.Coin # "btc"
    /\ last' = Ended("res0")
    /\ UNCHANGED <<file, wordList, pc, draft, attempts, opened, reported>>

\* BLEDeviceDataUnzip returns "" or no JSON: JsonToSignInput returns nil, and
\* HDSignRawTransaction looks up its coin.
SignUnreadable ==
    /\ pc = "idle"
    /\ pc' = "dead"
    /\ last' = [Ended("panic") EXCEPT !.request = UNREADABLE]
    /\ UNCHANGED <<file, wordList, draft, attempts, opened, reported>>

\* NewKey fails, and HDSignRawTransaction goes on with a nil master key.  With
\* no mnemonic no language is set, and the empty one is never valid.
SignPanics(r, password) ==
    /\ pc = "idle"
    /\ r.Coin = "btc"
    /\ LET w == Decrypted(password)
       IN  \/ /\ w = NULL
              /\ UNCHANGED wordList
           \/ /\ w # NULL
              /\ wordList' = Detected(w)
              /\ ~ValidIn(w, wordList')
    /\ pc' = "dead"
    /\ last' = [Ended("panic") EXCEPT !.password = password]
    /\ UNCHANGED <<file, draft, attempts, opened, reported>>

SignRawTransaction(r, password) ==
    /\ pc = "idle"
    /\ r.Coin = "btc"
    /\ LET w == Decrypted(password)
       IN  /\ w # NULL
           /\ wordList' = Detected(w)
           /\ ValidIn(w, wordList')
           /\ last' = IF Signable(r)
                      THEN [Ended("res1") EXCEPT !.signer = w, !.request = r,
                                                 !.used = Selected(r)]
                      ELSE Ended("res0")
    /\ UNCHANGED <<file, pc, draft, attempts, opened, reported>>

Init ==
    /\ file = ABSENT
    /\ wordList = "english"
    /\ pc = "idle"
    /\ draft = NULL
    /\ attempts = 0
    /\ opened = 0
    /\ reported = NULL
    /\ last = Ended("none")

GenerateMnWallet ==
    \/ GenerateRefused \/ GeneratePanics
    \/ \E language \in Lists \cup {"other"}, p \in Passwords : NewMnemonic(language, p)
    \/ OpenFile \/ OpenFails \/ WriteAll \/ WriteFails

HDSignRawTransaction ==
    \/ SignUnreadable
    \/ \E r \in Requests, p \in Passwords :
        SignUnknownCoin(r) \/ SignPanics(r, p) \/ SignRawTransaction(r, p)

Next == GenerateMnWallet \/ HDSignRawTransaction \/ Crash \/ Restart

Spec == Init /\ [][Next]_vars

-----------------------------------------------------------------------------
(* Properties *)

\* The file, the word list, the process and the history keep their types.
TypeOK ==
    /\ file \in {ABSENT, TORN} \cup Wallet
    /\ wordList \in Lists
    /\ pc \in {"dead", "idle", "open", "write"}
    /\ draft \in {NULL} \cup Wallet
    /\ attempts \in 0..MaxWallets
    /\ opened \in 0..attempts
    /\ reported \in {NULL} \cup Wallet
    /\ last.outcome \in {"none", "true", "false", "res0", "res1", "panic"}
    /\ last.signer \in {NULL} \cup Wallet
    /\ last.request \in {NULL, UNREADABLE} \cup Requests
    /\ last.used \in Nat
    /\ last.password \in {NULL} \cup Passwords

\* A wallet GenerateMnWallet has returned true for is there, and is the one that
\* signs, whatever crashes and whatever calls fail, until a later call opens the
\* file.  (From then on it is gone, even if that call fails.)
CreatedIsKept ==
    (reported # NULL /\ opened = reported.id)
        => /\ file = reported
           /\ last.outcome = "res1" => last.signer = reported

\* The process dies only over a request that cannot be read, over a file that is
\* missing or cut short, over another password than the file's, or over traditional
\* Chinese words: never because of the language an earlier call left in the bip39
\* package.
PanicsOnlyOver ==
    last.outcome = "panic" =>
        \/ last.request = UNREADABLE
        \/ file \in {ABSENT, TORN}
        \/ file.password # last.password
        \/ file.list = "chinese_traditional" /\ ~file.simplified

\* The value of the first n of the inputs s, and what the outputs and the fee
\* come to: a change that is not positive has no output.
Total(s, n) ==
    LET sum[i \in 0..n] == IF i = 0 THEN 0 ELSE sum[i - 1] + s[i].Value
    IN  sum[n]

Paid(r) == r.Amount + (IF r.Change > 0 THEN r.Change ELSE 0) + r.Fee

\* An int64 is too narrow for what is needed or for what is offered.
Wraps(r) ==
    \/ r.Change + r.Amount + r.Fee \notin Int64
    \/ \E n \in 1..Len(r.Inputs) : Total(r.Inputs, n) \notin Int64

\* The inputs signed cover the outputs and the fee whenever the ones offered do,
\* and are no more than needed: what a signed transaction pays the miners beyond
\* Fee is less than its last input, unless it has only one and nothing is to be
\* paid.  That is so of all numbers but those that wrap, and a change below 0.
\* (When the inputs offered do not suffice, SignRawTransaction signs them all,
\* and returns 1 too.)
SpendsJustEnough ==
    last.outcome = "res1" =>
        LET r == last.request
            spent == Total(r.Inputs, last.used)
        IN  \/ Wraps(r)
            \/ r.Change < 0
            \/ /\ Total(r.Inputs, Len(r.Inputs)) >= Paid(r) => spent >= Paid(r)
               /\ (last.used > 0 /\ spent >= Paid(r)) =>
                    \/ spent - Paid(r) < r.Inputs[last.used].Value
                    \/ last.used = 1 /\ Paid(r) <= 0

=============================================================================
