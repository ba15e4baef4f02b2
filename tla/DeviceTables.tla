---------------------------- MODULE DeviceTables ----------------------------
(***************************************************************************)
(* Which device a device ID stands for.                                    *)
(*                                                                         *)
(* The SDK is built for HID (desktop) or for Bluetooth (mobile).           *)
(*                                                                         *)
(* For HID, JUB_ListDeviceHid compares the table of tokens with the paths  *)
(* the library enumerates: it drops the tokens whose path is gone and adds *)
(* one for each new path.  A path is a USB port, not a device; the library *)
(* is external, and so is whoever moves the devices between the ports.     *)
(*                                                                         *)
(* For Bluetooth, JUB_connectDevice gives every connection an ID of its    *)
(* own (BLE_device_map) and a token, but all tokens share the one          *)
(* JubiterBLEDevice and its one _handle.  No ID is ever taken back.        *)
(*                                                                         *)
(* xManager gives the IDs out in turn, and starts again after MaxID.       *)
(***************************************************************************)
EXTENDS Naturals, Sequences, FiniteSets, SequencesExt

CONSTANTS
    Devices,        \* the physical devices
    Paths,          \* the USB ports
    MAX_DEVICE,     \* how many IDs a listing returns: 8
    MaxID,          \* the last ID before the counter starts again: 65535
    MaxPlugs,       \* bound: how often a device is plugged in or connected
    NULL

ASSUME TablesAssumption ==
    /\ IsFiniteSet(Paths)
    /\ NULL \notin Devices \cup Paths
    /\ NULL \notin [path : Devices \cup Paths, plug : Nat]
    /\ NULL \notin [dev : Devices, plug : Nat]
    /\ MAX_DEVICE \in Nat \ {0} /\ MaxID \in Nat \ {0} /\ MaxPlugs \in Nat

VARIABLES
    build,          \* what the SDK is built for: "HID" or "BLE"
    nextID,         \* _ID
    table,          \* _mapList: what each ID stands for, or NULL
    known,          \* HID: the IDs whose device has its _path, from an earlier Connect
    handle,         \* Bluetooth: _handle of the one device, or 0
    \* the devices
    attached,       \* HID: at each path, the device there and since which plug
    links,          \* Bluetooth: the connections that are up, by handle
    plugs,          \* the devices plugged in or connected so far, in order
    \* history
    given,          \* the device each ID was first given out for, or NULL
    unseen,         \* HID: the IDs whose path was empty at some time, but at no listing
    wrapped,        \* IDs have started again
    listing,        \* what the listing that has just ended returned, or NULL
    reached         \* the ID last used and the device the command went to

ids == <<nextID, table, given, wrapped>>
vars == <<build, ids, known, handle, attached, links, plugs, unseen, listing, reached>>

IDs == 1..MaxID

Nobody == [id |-> 0, dev |-> NULL]

-----------------------------------------------------------------------------
(* xManager *)

NextID(i) == IF i = MaxID THEN 1 ELSE i + 1

\* Mutant of AddOne: the entry that has the ID already is replaced.
AddOneReplaces(s, e, d) ==
    LET i == NextID(s.nextID)
    IN  [nextID  |-> i,
         table   |-> [s.table EXCEPT ![i] = e],
         given   |-> IF s.given[i] = NULL THEN [s.given EXCEPT ![i] = d] ELSE s.given,
         wrapped |-> s.wrapped \/ i <= s.nextID]

\* AddOne, for entry e, which stands for device d: map::insert leaves the entry
\* that has the ID already.
AddOne(s, e, d) ==
    LET i == NextID(s.nextID)
    IN  [nextID  |-> i,
         table   |-> IF s.table[i] = NULL THEN [s.table EXCEPT ![i] = e] ELSE s.table,
         given   |-> IF s.given[i] = NULL THEN [s.given EXCEPT ![i] = d] ELSE s.given,
         wrapped |-> s.wrapped \/ i <= s.nextID]

Manager == [nextID |-> nextID, table |-> table, given |-> given, wrapped |-> wrapped]

Becomes(s) ==
    /\ nextID' = s.nextID
    /\ table' = s.table
    /\ given' = s.given
    /\ wrapped' = s.wrapped

-----------------------------------------------------------------------------
(* HID *)

Plugged == {p \in Paths : attached[p] # NULL}

\* Mutants of RemoveUnplugged: the tokens stay; they are deleted but not erased.
RemoveNone(t) == t

DeleteUnplugged(t) ==
    [i \in IDs |->
        IF t[i] # NULL /\ t[i].path \notin Plugged THEN [t[i] EXCEPT !.path = NULL] ELSE t[i]]

\* "deal removed key"
RemoveUnplugged(t) ==
    [i \in IDs |-> IF t[i] # NULL /\ t[i].path \notin Plugged THEN NULL ELSE t[i]]

\* Mutant of IsInManager: only the token with the lowest ID is looked at.
IsFirstInManager(p, t) ==
    \E i \in IDs : /\ t[i] # NULL /\ t[i].path = p
                   /\ \A j \in 1..(i - 1) : t[j] = NULL

IsInManager(p, t) == \E i \in IDs : t[i] # NULL /\ t[i].path = p

\* The orders in which the library may enumerate the paths P.
Orders(P) == {o \in [1..Cardinality(P) -> P] : ToSet(o) = P}

Token(p) == [path |-> p, plug |-> 0]

\* What a listing returns of the table t: the lowest IDs.
Returned(t) ==
    LET used == {i \in IDs : t[i] # NULL}
    IN  {i \in used : Cardinality({j \in used : j < i}) < MAX_DEVICE}

JUB_ListDeviceHid ==
    /\ build = "HID"
    /\ LET kept == RemoveUnplugged(table)
       IN  \E o \in Orders({p \in Plugged : ~IsInManager(p, kept)}) :
            LET s == FoldLeft(LAMBDA acc, p : AddOne(acc, Token(p), attached[p].dev),
                              [Manager EXCEPT !.table = kept], o)
            IN  /\ Becomes(s)
                /\ listing' = Returned(s.table)
    /\ unseen' = {i \in unseen : table[i].path \in Plugged}
    /\ known' = {i \in known : table[i].path \in Plugged}
    /\ reached' = Nobody
    /\ UNCHANGED <<build, handle, attached, links, plugs>>

\* What hid_open_path may return for a path: a handle on the device that is
\* there, which dies with that plug, or none.
Opened(p) == {0} \cup {attached[q].plug : q \in Plugged \cap {p}}

\* One that fails leaves no handle, also where there was one.
JUB_ConnetDeviceHid(i) ==
    /\ build = "HID" /\ table[i] # NULL
    /\ \E h \in Opened(table[i].path) :
        /\ table' = [table EXCEPT ![i].plug = h]
        /\ known' = known \cup (IF h = 0 THEN {} ELSE {i})
    /\ listing' = NULL /\ reached' = Nobody
    /\ UNCHANGED <<build, nextID, given, wrapped, handle, attached, links, plugs, unseen>>

JUB_DisconnetDeviceHid(i) ==
    /\ build = "HID" /\ table[i] # NULL
    /\ table' = [table EXCEPT ![i].plug = 0]
    /\ listing' = NULL /\ reached' = Nobody
    /\ UNCHANGED <<build, nextID, given, wrapped, known, handle, attached, links, plugs, unseen>>

\* "auto connect": the handles that a command for ID i may go over.  Without one
\* SendData opens its _path again, if it has one.
Handles(i) ==
    IF table[i].plug = 0 /\ i \in known THEN Opened(table[i].path) ELSE {table[i].plug}

\* Any call that sends the device of ID i a command: it reaches the device at
\* its path, if the handle is one on it.  Every error closes the handle, those
\* after the command has reached the device too.
UseHid(i) ==
    /\ build = "HID" /\ table[i] # NULL
    /\ \E h \in Handles(i) :
        LET there == {q \in Plugged : q = table[i].path /\ attached[q].plug = h}
        IN  \/ /\ \E q \in there : reached' = [id |-> i, dev |-> attached[q].dev]
               /\ \E left \in {0, h} : table' = [table EXCEPT ![i].plug = left]
            \/ /\ there = {}
               /\ reached' = [id |-> i, dev |-> NULL]
               /\ table' = [table EXCEPT ![i].plug = 0]
    /\ listing' = NULL
    /\ UNCHANGED <<build, nextID, given, wrapped, known, handle, attached, links, plugs, unseen>>

Plug(d, p) ==
    /\ build = "HID" /\ Len(plugs) < MaxPlugs
    /\ attached[p] = NULL /\ \A q \in Plugged : attached[q].dev # d
    /\ attached' = [attached EXCEPT ![p] = [dev |-> d, plug |-> Len(plugs) + 1]]
    /\ plugs' = Append(plugs, d)
    /\ listing' = NULL /\ reached' = Nobody
    /\ UNCHANGED <<build, ids, known, handle, links, unseen>>

Unplug(p) ==
    /\ p \in Plugged
    /\ attached' = [attached EXCEPT ![p] = NULL]
    /\ unseen' = unseen \cup {i \in IDs : table[i] # NULL /\ table[i].path = p}
    /\ listing' = NULL /\ reached' = Nobody
    /\ UNCHANGED <<build, ids, known, handle, links, plugs>>

-----------------------------------------------------------------------------
(* Bluetooth *)

\* FT_BLE_ConnDev succeeds with a new handle, whether or not others are up.
\* Both tables take the new entry under the ID that BLE_device_map gives; an
\* entry with that ID stays in both.
JUB_connectDevice(d) ==
    /\ build = "BLE" /\ Len(plugs) < MaxPlugs
    /\ LET h == Len(plugs) + 1
       IN  /\ Becomes(AddOne(Manager, [path |-> d, plug |-> h], d))
           /\ handle' = h
           /\ links' = links \cup {h}
    /\ plugs' = Append(plugs, d)
    /\ listing' = NULL /\ reached' = Nobody
    /\ UNCHANGED <<build, known, attached, unseen>>

\* FT_BLE_DisConn on the handle of that ID may succeed, also when the link is
\* down; _handle goes whichever connection it is of.
JUB_disconnectDevice(i) ==
    /\ build = "BLE" /\ table[i] # NULL
    /\ links' = links \ {table[i].plug}
    /\ handle' = 0
    /\ listing' = NULL /\ reached' = Nobody
    /\ UNCHANGED <<build, ids, known, attached, plugs, unseen>>

\* A link goes down: BLE_DiscCallBack forgets _handle, whichever link it was.
LinkDrops(h) ==
    /\ h \in links
    /\ links' = links \ {h}
    /\ handle' = 0
    /\ listing' = NULL /\ reached' = Nobody
    /\ UNCHANGED <<build, ids, known, attached, plugs, unseen>>

\* JUB_cancelConnect, of a device: a link to it that is up goes down.
JUB_cancelConnect(d) ==
    /\ build = "BLE" /\ plugs # <<>>
    /\ links' = {h \in links : plugs[h] # d}
    /\ handle' = 0
    /\ listing' = NULL /\ reached' = Nobody
    /\ UNCHANGED <<build, ids, known, attached, plugs, unseen>>

\* Any call that sends the device of ID i a command: it goes over the one _handle
\* of the Bluetooth device, whichever ID it is for.
UseBle(i) ==
    /\ build = "BLE" /\ table[i] # NULL
    /\ reached' = [id |-> i, dev |-> IF handle \in links THEN plugs[handle] ELSE NULL]
    /\ listing' = NULL
    /\ UNCHANGED <<build, ids, known, handle, attached, links, plugs, unseen>>

-----------------------------------------------------------------------------

Init ==
    /\ build \in {"HID", "BLE"}
    /\ nextID = 0
    /\ table = [i \in IDs |-> NULL]
    /\ known = {}
    /\ handle = 0
    /\ attached = [p \in Paths |-> NULL]
    /\ links = {}
    /\ plugs = <<>>
    /\ given = [i \in IDs |-> NULL]
    /\ unseen = {}
    /\ wrapped = FALSE
    /\ listing = NULL
    /\ reached = Nobody

Next ==
    \/ JUB_ListDeviceHid
    \/ \E i \in IDs :
        \/ JUB_ConnetDeviceHid(i)
        \/ JUB_DisconnetDeviceHid(i)
        \/ UseHid(i)
        \/ JUB_disconnectDevice(i)
        \/ UseBle(i)
    \/ \E d \in Devices :
        \/ JUB_connectDevice(d)
        \/ JUB_cancelConnect(d)
        \/ \E p \in Paths : Plug(d, p)
    \/ \E p \in Paths : Unplug(p)
    \/ \E h \in links : LinkDrops(h)

Spec == Init /\ [][Next]_vars

-----------------------------------------------------------------------------
(* Properties *)

\* The tables, the devices and the history keep their types.
TypeOK ==
    LET Entry == [path : IF build = "HID" THEN Paths ELSE Devices, plug : 0..MaxPlugs]
    IN  /\ nextID \in 0..MaxID
        /\ table \in [IDs -> Entry \cup {NULL}]
        /\ known \subseteq IDs
        /\ handle \in 0..Len(plugs)
        /\ attached \in [Paths -> [dev : Devices, plug : 1..MaxPlugs] \cup {NULL}]
        /\ links \subseteq 1..Len(plugs)
        /\ plugs \in Seq(Devices) /\ Len(plugs) <= MaxPlugs
        /\ given \in [IDs -> Devices \cup {NULL}]
        /\ unseen \subseteq IDs
        /\ wrapped \in BOOLEAN
        /\ listing = NULL \/ listing \subseteq IDs
        /\ reached.id \in 0..MaxID /\ reached.dev \in Devices \cup {NULL}

\* A listing names every device that is plugged in by exactly one ID, and no
\* other, as long as there are no more than it can return and the IDs have not
\* started again (then a new device may be left out: its token is lost).
ListingComplete ==
    listing # NULL =>
        /\ \A i, j \in listing : table[i].path = table[j].path => i = j
        /\ \A i \in listing : table[i].path \in Plugged
        /\ ~wrapped /\ Cardinality(Plugged) <= MAX_DEVICE =>
            \A p \in Plugged : \E i \in listing : table[i].path = p

\* A command for an ID reaches the device that ID was given out for, or none,
\* but for three cases: the IDs have started again; the device was unplugged
\* and another plugged in at its place with no listing in between, which is then
\* opened by the caller or by the command itself; or, over Bluetooth, another
\* device has been connected since.
WrongDeviceOnlyOver ==
    (reached.dev # NULL /\ reached.dev # given[reached.id]) =>
        \/ wrapped
        \/ build = "HID" /\ reached.id \in unseen
        \/ build = "BLE" /\ table[reached.id].plug < handle

\* A listing takes nothing from a device that stays plugged in: its token keeps
\* its ID and its handle, also when the IDs start again, and its ID, if the
\* listing before could return it, is among those this one returns until they do.
StaysListed ==
    [][listing' # NULL =>
        \A i \in IDs : (table[i] # NULL /\ table[i].path \in Plugged) =>
            /\ table'[i] = table[i]
            /\ (i \in Returned(table) /\ ~wrapped') => i \in listing']_vars
=============================================================================
