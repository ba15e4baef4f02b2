------------------------------ MODULE Exchange ------------------------------
(***************************************************************************)
(* What a half-duplex transport promises its caller, in terms of whole     *)
(* commands and whole answers.                                             *)
(*                                                                         *)
(* Commands are numbered in the order they are issued.  A call ends        *)
(* exactly once, either with an error or with an answer.  The answer may   *)
(* be a late one, meant for an earlier command that ended with an error,   *)
(* because nothing on the wire names the command it belongs to; but no     *)
(* answer is handed out twice, and none is older than one already handed   *)
(* out that came over the same connection: once that is so, an answer that *)
(* has been passed over may as well be counted as handed out.              *)
(***************************************************************************)
EXTENDS Naturals

CONSTANTS
    MaxCmds,        \* how many commands a behaviour may issue, a natural number
    MaxConns        \* how many connections it may make

VARIABLES
    issued,         \* number of the command issued last, 0 before the first
    pending,        \* a call is under way
    answered,       \* the connection over which each answer has been handed out
                    \* or passed over, 0 before
    outcome         \* how the last call ended

vars == <<issued, pending, answered, outcome>>

TypeOK ==
    /\ issued \in 0..MaxCmds
    /\ pending \in BOOLEAN
    /\ answered \in [1..MaxCmds -> 0..MaxConns]
    /\ outcome \in {"none", "answer", "error"}

Init ==
    /\ issued = 0
    /\ pending = FALSE
    /\ answered = [k \in 1..MaxCmds |-> 0]
    /\ outcome = "none"

\* The caller issues the next command.
Request ==
    /\ ~pending
    /\ issued < MaxCmds
    /\ issued' = issued + 1
    /\ pending' = TRUE
    /\ outcome' = "none"
    /\ UNCHANGED answered

\* The call ends at once, before the command is issued.
Refuse ==
    /\ ~pending
    /\ outcome' = "error"
    /\ UNCHANGED <<issued, pending, answered>>

\* The call ends with the answer to command k, which came over connection c;
\* answers to earlier commands have been passed over there.
Answer(k, c) ==
    /\ pending
    /\ k <= issued
    /\ answered[k] = 0
    /\ \A j \in 1..MaxCmds : answered[j] = c => j < k
    /\ pending' = FALSE
    /\ answered' \in [1..MaxCmds -> 0..MaxConns]
    /\ answered'[k] = c
    /\ \A j \in 1..MaxCmds \ {k} :
          answered'[j] # answered[j] => j < k /\ answered[j] = 0 /\ answered'[j] = c
    /\ outcome' = "answer"
    /\ UNCHANGED issued

\* The call ends with an error.
Fail ==
    /\ pending
    /\ pending' = FALSE
    /\ outcome' = "error"
    /\ UNCHANGED <<issued, answered>>

Next ==
    \/ Request
    \/ Refuse
    \/ \E k \in 1..MaxCmds, c \in 1..MaxConns : Answer(k, c)
    \/ Fail

Spec ==
    /\ Init /\ [][Next]_vars
    /\ WF_vars(Fail \/ \E k \in 1..MaxCmds, c \in 1..MaxConns : Answer(k, c))
=============================================================================
