----------------------------- MODULE SigningCall -----------------------------
(***************************************************************************)
(* What a call that has a device sign a transaction promises its caller.   *)
(*                                                                         *)
(* The device signs at most one transaction of a call, the one that was    *)
(* asked for, and the user confirms it there.  A call that ends with a     *)
(* signature hands out what the device has signed for this very call; one  *)
(* that ends with a cancellation has signed nothing; one that ends with an *)
(* error may have had the transaction signed all the same, or still have   *)
(* it signed when the user gets round to it.                               *)
(*                                                                         *)
(* A call that meets too many answers of earlier calls cannot tell whose   *)
(* they are.  Its outcome is "unknown": it promises nothing.               *)
(***************************************************************************)
EXTENDS Naturals

CONSTANTS
    Requests,       \* the transactions a caller may ask to have signed
    Lengths,        \* the lengths of a signed transaction
    NULL

VARIABLES
    call,           \* number of the call, 0 before the first
    request,        \* what it has been asked to sign
    signed,         \* what the device has signed for this call, or NULL
    returned,       \* what the call has handed out, or NULL
    outcome         \* "none" while the call is under way

vars == <<call, request, signed, returned, outcome>>

Init ==
    /\ call = 0
    /\ request = NULL
    /\ signed = NULL
    /\ returned = NULL
    /\ outcome = "idle"

Begin(r) ==
    /\ outcome # "none"
    /\ call' = call + 1
    /\ request' = r
    /\ signed' = NULL
    /\ returned' = NULL
    /\ outcome' = "none"

\* The user confirms the transaction on the device, while the call waits for it
\* or after it has stopped waiting.
Confirm ==
    /\ outcome \in {"none", "error", "unknown"}
    /\ signed = NULL
    /\ \E n \in Lengths : signed' = [request |-> request, len |-> n]
    /\ UNCHANGED <<call, request, returned, outcome>>

End(o, s) ==
    /\ outcome = "none"
    /\ outcome' = o
    /\ returned' = s
    /\ UNCHANGED <<call, request, signed>>

Deliver == signed # NULL /\ End("signature", signed)
Cancel == signed = NULL /\ End("cancelled", NULL)
Fail == End("error", NULL)
Disown == End("unknown", NULL)

\* A call that is refused at once leaves all as it was but for its outcome.
Refuse ==
    /\ outcome # "none"
    /\ outcome' = "error"
    /\ returned' = NULL
    /\ UNCHANGED <<call, request, signed>>

Next ==
    \/ \E r \in Requests : Begin(r)
    \/ Confirm
    \/ Deliver
    \/ Cancel
    \/ Fail
    \/ Disown
    \/ Refuse

Spec == Init /\ [][Next]_vars
=============================================================================
