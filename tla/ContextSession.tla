--------------------------- MODULE ContextSession ---------------------------
(***************************************************************************)
(* Contexts and the session state of the devices behind them.              *)
(*                                                                         *)
(* A device has one selected applet, one timeout, one unit and one coin    *)
(* type.  Every context of the SDK wants its own, so before a call with a  *)
(* context runs, AutoContextManager::GetOne sends the device the APDUs of  *)
(* the context's ActiveSelf, except when the context is the one it looked  *)
(* up last (_last).  This module follows _last, the table of contexts, the *)
(* objects the table points to, and what has become of each device.        *)
(*                                                                         *)
(* The SDK serialises nothing and starts no thread here: one call runs at  *)
(* a time.  A call sends several APDUs, and each may fail, with or without *)
(* having had its effect on the device (the answer is lost).               *)
(*                                                                         *)
(* The device is external.  An address is where a context object lives;    *)
(* the allocator may hand out an address again once it is freed.           *)
(***************************************************************************)
EXTENDS Naturals

CONSTANTS
    Devices,        \* device IDs, each with its token
    Addresses,      \* bound: where a context object can live
    NULL,
    MaxID,          \* the last ID before the counter starts again: 65535
    MaxCreated,     \* bound: contexts created
    Units, mBTC,    \* display units, and the one a new context has
    Coins,          \* coin types of a BTC context
    Timeouts, t120  \* timeouts, and the one a new context has

Kinds == {"BTC", "ETH"}

Context == [kind : Kinds, device : Devices, coin : Coins, unit : Units,
            timeout : Timeouts]

ASSUME SessionAssumption ==
    /\ NULL \notin Addresses \cup Context
    /\ MaxID \in Nat \ {0}
    /\ MaxCreated \in Nat
    /\ mBTC \in Units
    /\ t120 \in Timeouts

\* What a device keeps, and the applet version its token remembers.
Device == [applet : {"main"} \cup Kinds, version : {"none"} \cup Kinds,
           timeout : Timeouts, unit : Units, coin : Coins]

VARIABLES
    heap,           \* the context object at each address, or NULL
    mapList,        \* _mapList: the address each ID stands for, or NULL
    last,           \* _last: an address, perhaps of a deleted object, or NULL
    nextID,         \* _ID
    dev,            \* the session state of each device
    \* history
    created,        \* contexts entered in the table so far
    given,          \* the object the caller was given each ID for, or NULL
    undone          \* the activation of the context at `last` has failed, or
                    \* something other than that context has used its device

table == <<mapList, nextID, created, given>>
vars == <<heap, table, last, dev, undone>>

IDs == 1..MaxID

-----------------------------------------------------------------------------
(* The device *)

\* The state of a device with the settings of context c.
Configured(c, s) ==
    /\ s.applet = c.kind
    /\ s.timeout = c.timeout
    /\ c.kind = "BTC" => /\ s.version = "BTC"
                         /\ s.unit = c.unit
                         /\ s.coin = c.coin

\* The APDUs of ActiveSelf by position: BTC contexts send four, ETH contexts
\* three, of which the second selects the applet again.
Length(c) == IF c.kind = "BTC" THEN 4 ELSE 3

\* The device s once the first n APDUs of c's ActiveSelf had their effect;
\* the token reads the applet's version off the answer to the first.
Applied(c, s, n, answered) ==
    [applet  |-> IF n >= 1 THEN c.kind ELSE s.applet,
     version |-> IF answered THEN c.kind ELSE s.version,
     timeout |-> IF n >= (IF c.kind = "BTC" THEN 2 ELSE 3) THEN c.timeout ELSE s.timeout,
     unit    |-> IF c.kind = "BTC" /\ n >= 3 THEN c.unit ELSE s.unit,
     coin    |-> IF c.kind = "BTC" /\ n >= 4 THEN c.coin ELSE s.coin]

\* How ActiveSelf leaves device s when all goes well, and how it can leave it
\* otherwise: it stops at the first APDU that fails, which may or may not have
\* had its effect.
Activated(c, s) == [s |-> Applied(c, s, Length(c), TRUE), ok |-> TRUE]

Interrupted(c, s) ==
    {[s |-> Applied(c, s, n, n > 1 \/ (n = 1 /\ answered)), ok |-> FALSE] :
        n \in 0..Length(c), answered \in BOOLEAN}

ActiveSelf(c, s) == {Activated(c, s)} \cup Interrupted(c, s)

-----------------------------------------------------------------------------
(* AutoContextManager *)

\* GetOne, for the context at address a: how it can leave the context's
\* device, and whether the device may be left unconfigured.  It skips
\* ActiveSelf for the context looked up last, and ignores its result.
GetOne(a) ==
    LET c == heap[a]
        s == dev[c.device]
    IN  IF last = a
        THEN {[s |-> s, undone |-> undone]}
        ELSE {[s |-> r.s, undone |-> ~r.ok] : r \in ActiveSelf(c, s)}

\* Mutants of AddOne: the counter is not kept, and it does not come round.
AddOneForgetsCount(a) ==
    LET id == (IF nextID = MaxID THEN 0 ELSE nextID) + 1
    IN  /\ mapList' = [mapList EXCEPT ![id] = IF @ = NULL THEN a ELSE @]
        /\ given' = [given EXCEPT ![id] = a]
        /\ created' = created + 1
        /\ UNCHANGED nextID

AddOneRunsOn(a) ==
    LET id == nextID + 1
    IN  /\ nextID' = id
        /\ mapList' = [mapList EXCEPT ![id] = IF @ = NULL THEN a ELSE @]
        /\ given' = [given EXCEPT ![id] = a]
        /\ created' = created + 1

\* AddOne(x), for the object at address a.  std::map::insert keeps an old entry.
AddOne(a) ==
    LET id == (IF nextID = MaxID THEN 0 ELSE nextID) + 1
    IN  /\ nextID' = id
        /\ mapList' = [mapList EXCEPT ![id] = IF @ = NULL THEN a ELSE @]
        /\ given' = [given EXCEPT ![id] = a]
        /\ created' = created + 1

-----------------------------------------------------------------------------
(* The calls *)

NewContext(kind, d, coin) ==
    [kind |-> kind, device |-> d, coin |-> coin, unit |-> mBTC, timeout |-> t120]

\* Whether another object now has the device of the context at `last`.  (If
\* that context is gone, there is nothing left to undo.)
Displaced(d) == last # NULL /\ heap[last] # NULL /\ heap[last].device = d

\* What is left of `undone` when a context is created at address a on device d.
UndoneBy(a, d, ok) == IF a = last THEN ~ok ELSE undone \/ Displaced(d)

\* JUB_CreateContextBTC, for one signer or several.  When an APDU fails the
\* object stays allocated and is not entered in the table.
CreateContextBTC(a, d, coin) ==
    LET c == NewContext("BTC", d, coin)
    IN  /\ heap[a] = NULL
        /\ created < MaxCreated
        /\ heap' = [heap EXCEPT ![a] = c]
        /\ \E r \in ActiveSelf(c, dev[d]) :
              /\ dev' = [dev EXCEPT ![d] = r.s]
              /\ undone' = UndoneBy(a, d, r.ok)
              /\ IF r.ok THEN AddOne(a) ELSE UNCHANGED table
        /\ UNCHANGED last

\* JUB_CreateContextETH: the context is entered, then activated; whether that
\* worked is not looked at.
CreateContextETH(a, d, coin) ==
    LET c == NewContext("ETH", d, coin)
    IN  /\ heap[a] = NULL
        /\ created < MaxCreated
        /\ heap' = [heap EXCEPT ![a] = c]
        /\ AddOne(a)
        /\ \E r \in ActiveSelf(c, dev[d]) :
              /\ dev' = [dev EXCEPT ![d] = r.s]
              /\ undone' = UndoneBy(a, d, r.ok)
        /\ UNCHANGED last

\* Mutant of ClearContext: the object is deleted and its entry stays.
ClearContextKeepsEntry(id) ==
    /\ mapList[id] # NULL
    /\ heap' = [heap EXCEPT ![mapList[id]] = NULL]
    /\ UNCHANGED <<table, last, dev, undone>>

\* JUB_ClearContext: the object is deleted, and _last keeps its address.
ClearContext(id) ==
    /\ mapList[id] # NULL
    /\ heap' = [heap EXCEPT ![mapList[id]] = NULL]
    /\ mapList' = [mapList EXCEPT ![id] = NULL]
    /\ given' = [given EXCEPT ![id] = NULL]
    /\ UNCHANGED <<nextID, created, last, dev, undone>>

\* Every call that reads, shows or signs something with a context; also a call
\* that is refused after GetOne: one for the other kind of context, and
\* JUB_SetTimeOut with more than 600 seconds.
UseContext(id) ==
    LET a == mapList[id]
    IN  /\ a # NULL
        /\ last' = a
        /\ \E r \in GetOne(a) :
              /\ dev' = [dev EXCEPT ![heap[a].device] = r.s]
              /\ undone' = r.undone
        /\ UNCHANGED <<heap, table>>

\* JUB_SetUnitBTC and JUB_SetTimeOut: the context takes the value first, and
\* keeps it whatever becomes of the APDU.
SetUnitBTC(id, u) ==
    LET a == mapList[id]
        d == heap[a].device
    IN  /\ a # NULL
        /\ heap[a].kind = "BTC"
        /\ last' = a
        /\ heap' = [heap EXCEPT ![a].unit = u]
        /\ \E r \in GetOne(a) :
              \/ /\ dev' = [dev EXCEPT ![d] = [r.s EXCEPT !.unit = u]]
                 /\ undone' = r.undone
              \/ /\ dev' = [dev EXCEPT ![d] = r.s]
                 /\ undone' = TRUE
        /\ UNCHANGED table

SetTimeOut(id, t) ==
    LET a == mapList[id]
        d == heap[a].device
    IN  /\ a # NULL
        /\ last' = a
        /\ heap' = [heap EXCEPT ![a].timeout = t]
        /\ \E r \in GetOne(a) :
              \/ /\ dev' = [dev EXCEPT ![d] = [r.s EXCEPT !.timeout = t]]
                 /\ undone' = r.undone
              \/ /\ dev' = [dev EXCEPT ![d] = r.s]
                 /\ undone' = TRUE
        /\ UNCHANGED table

\* Mutant of IsBootLoader: _last is not forgotten.
IsBootLoaderKeepsLast(d) ==
    /\ \/ dev' = [dev EXCEPT ![d].applet = "main"]
       \/ UNCHANGED dev
    /\ UNCHANGED <<heap, table, last, undone>>

\* JUB_IsBootLoader, and with it JUB_GetDeviceInfo and JUB_GetDeviceCert: it
\* selects the main security domain, and has _last forgotten before.
IsBootLoader(d) ==
    /\ last' = NULL
    /\ \/ dev' = [dev EXCEPT ![d].applet = "main"]
       \/ UNCHANGED dev
    /\ UNCHANGED <<heap, table, undone>>

\* JUB_EnumApplets, Jub_EnumSupportCoins, JUB_GetAppletVersion and
\* JUB_SendOneApdu select an applet as well, and leave _last alone.
SelectBehind(d) ==
    /\ \E app \in {"main"} \cup Kinds : dev' = [dev EXCEPT ![d].applet = app]
    /\ undone' = (undone \/ Displaced(d))
    /\ UNCHANGED <<heap, table, last>>

\* The device is switched off and on, or loses its connection: it forgets its
\* settings, and its token, which stays, does not.
DeviceReset(d) ==
    /\ \E t \in Timeouts, u \in Units, coin \in Coins :
          dev' = [dev EXCEPT ![d] = [applet |-> "main", version |-> dev[d].version,
                                     timeout |-> t, unit |-> u, coin |-> coin]]
    /\ undone' = (undone \/ Displaced(d))
    /\ UNCHANGED <<heap, table, last>>

Init ==
    /\ heap = [a \in Addresses |-> NULL]
    /\ mapList = [id \in IDs |-> NULL]
    /\ last = NULL
    /\ nextID = 0
    /\ dev \in [Devices -> {s \in Device : s.version = "none"}]
    /\ created = 0
    /\ given = [id \in IDs |-> NULL]
    /\ undone = FALSE

Create ==
    \E a \in Addresses, d \in Devices, coin \in Coins :
        CreateContextBTC(a, d, coin) \/ CreateContextETH(a, d, coin)

WithContext ==
    \E id \in IDs :
        \/ ClearContext(id)
        \/ UseContext(id)
        \/ \E u \in Units : SetUnitBTC(id, u)
        \/ \E t \in Timeouts : SetTimeOut(id, t)

WithDevice ==
    \E d \in Devices : IsBootLoader(d) \/ SelectBehind(d) \/ DeviceReset(d)

Next == Create \/ WithContext \/ WithDevice

Spec == Init /\ [][Next]_vars

-----------------------------------------------------------------------------
(* Properties *)

\* The types of the manager's members, the objects and the devices.
TypeOK ==
    /\ heap \in [Addresses -> Context \cup {NULL}]
    /\ mapList \in [IDs -> Addresses \cup {NULL}]
    /\ last \in Addresses \cup {NULL}
    /\ nextID \in 0..MaxID
    /\ dev \in [Devices -> Device]
    /\ created \in 0..MaxCreated
    /\ given \in [IDs -> Addresses \cup {NULL}]
    /\ undone \in BOOLEAN

\* What skipping ActiveSelf relies on: the device of the context looked up
\* last has that context's applet, timeout, unit and coin type, whatever
\* contexts of other devices were used in between, whatever settings it was
\* given, and even if _last is the address of a deleted context that a new one
\* has taken over.  The ways to lose this are the ones `undone` records: an
\* activation or a setting that failed, another context created on the same
\* device, an applet selected behind the manager's back, a device reset.
LastIsConfigured ==
    (last # NULL /\ heap[last] # NULL /\ ~undone)
        => Configured(heap[last], dev[heap[last].device])

\* No two live IDs stand for one context, and until the counter has come round
\* the context an ID stands for is the one its caller was given it for.
IDsNameContexts ==
    /\ \A i, j \in IDs : mapList[i] # NULL /\ mapList[i] = mapList[j] => i = j
    /\ created <= MaxID => mapList = given

\* The table never points to an object that has been deleted.
NoDanglingEntry == \A id \in IDs : mapList[id] # NULL => heap[mapList[id]] # NULL
=============================================================================
