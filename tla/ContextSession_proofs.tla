----------------------- MODULE ContextSession_proofs -----------------------
(***************************************************************************)
(* Proofs about ContextSession, for every set of devices, addresses,       *)
(* settings and bounds: its types, that its table is sound, and that the   *)
(* device behind _last is configured.                                      *)
(*                                                                         *)
(* The induction is one over three facts together, Inv below.  That _last  *)
(* is configured (LastIsConfigured) is preserved by a call with a context  *)
(* only if the table points to live objects (NoDanglingEntry), and that in *)
(* turn only if no two IDs stand for one object (OneIDEach), since         *)
(* ClearContext deletes the object of one ID.                              *)
(***************************************************************************)
EXTENDS ContextSession, TLAPS

HeapTypes ==
    /\ heap \in [Addresses -> Context \cup {NULL}]
    /\ last \in Addresses \cup {NULL}

TableTypes ==
    /\ mapList \in [IDs -> Addresses \cup {NULL}]
    /\ nextID \in 0..MaxID
    /\ created \in 0..MaxCreated
    /\ given \in [IDs -> Addresses \cup {NULL}]

DeviceTypes ==
    /\ dev \in [Devices -> Device]
    /\ undone \in BOOLEAN

OneIDEach == \A i, j \in IDs : mapList[i] # NULL /\ mapList[i] = mapList[j] => i = j

\* TypeOK in its three parts.
LEMMA TypeParts == TypeOK <=> HeapTypes /\ TableTypes /\ DeviceTypes
BY DEF TypeOK, HeapTypes, TableTypes, DeviceTypes

-----------------------------------------------------------------------------
(* The device and the manager's lookup *)

\* APDUs leave a device in a state a device can have.
LEMMA AppliedType ==
    ASSUME NEW c \in Context, NEW s \in Device, NEW n, NEW answered
    PROVE  Applied(c, s, n, answered) \in Device
<1>1. /\ c.kind \in Kinds
      /\ c.timeout \in Timeouts
      /\ c.unit \in Units
      /\ c.coin \in Coins
  BY DEF Context
<1>2. /\ s.applet \in {"main"} \cup Kinds
      /\ s.version \in {"none"} \cup Kinds
      /\ s.timeout \in Timeouts
      /\ s.unit \in Units
      /\ s.coin \in Coins
  BY DEF Device
<1> QED
  BY <1>1, <1>2 DEF Applied, Device

\* An ActiveSelf that reports success has configured the device.
LEMMA ActiveSelfOutcome ==
    ASSUME NEW c \in Context, NEW s \in Device, NEW r \in ActiveSelf(c, s)
    PROVE  /\ r.s \in Device
           /\ r.ok \in BOOLEAN
           /\ r.ok => Configured(c, r.s)
<1>1. CASE r = Activated(c, s)
  <2>1. r.s \in Device /\ r.ok \in BOOLEAN
    BY <1>1, AppliedType DEF Activated
  <2>2. c.kind \in Kinds
    BY DEF Context
  <2>3. Configured(c, Applied(c, s, Length(c), TRUE))
    BY <2>2 DEF Configured, Applied, Length, Kinds
  <2> QED
    BY <1>1, <2>1, <2>3 DEF Activated
<1>2. CASE r \in Interrupted(c, s)
  <2>1. PICK n, answered : r = [s |-> Applied(c, s, n, answered), ok |-> FALSE]
    BY <1>2 DEF Interrupted
  <2> QED
    BY <2>1, AppliedType
<1> QED
  BY <1>1, <1>2 DEF ActiveSelf

\* What GetOne's caller may rely on: the device has the context's settings,
\* unless the activation failed or was undone before.
LEMMA GetOneOutcome ==
    ASSUME HeapTypes, DeviceTypes, LastIsConfigured,
           NEW a \in Addresses, heap[a] # NULL, NEW r \in GetOne(a)
    PROVE  /\ heap[a] \in Context
           /\ heap[a].device \in Devices
           /\ r.s \in Device
           /\ r.undone \in BOOLEAN
           /\ ~r.undone => Configured(heap[a], r.s)
<1>1. heap[a] \in Context
  BY DEF HeapTypes
<1>2. heap[a].device \in Devices
  BY <1>1 DEF Context
<1>3. dev[heap[a].device] \in Device
  BY <1>2 DEF DeviceTypes
<1>4. CASE last = a
  <2>1. r = [s |-> dev[heap[a].device], undone |-> undone]
    BY <1>4 DEF GetOne
  <2>2. a # NULL
    BY SessionAssumption
  <2> QED
    BY <1>1, <1>2, <1>3, <1>4, <2>1, <2>2 DEF DeviceTypes, LastIsConfigured
<1>5. CASE last # a
  <2>1. PICK q \in ActiveSelf(heap[a], dev[heap[a].device]) :
               r = [s |-> q.s, undone |-> ~q.ok]
    BY <1>5 DEF GetOne
  <2>2. /\ q.s \in Device
        /\ q.ok \in BOOLEAN
        /\ q.ok => Configured(heap[a], q.s)
    BY <1>1, <1>3, ActiveSelfOutcome
  <2> QED
    BY <1>1, <1>2, <2>1, <2>2
<1> QED
  BY <1>4, <1>5

-----------------------------------------------------------------------------
(* The table *)

\* Until the counter has come round, IDs are handed out in order.
Numbered ==
    created <= MaxID =>
        /\ nextID = created
        /\ \A id \in IDs : id > created => mapList[id] = NULL
        /\ mapList = given

TableInv == TableTypes /\ OneIDEach /\ Numbered

\* AddOne, for an object no ID stands for yet.
LEMMA AddOneStep ==
    ASSUME TableInv, NEW a \in Addresses, AddOne(a), created < MaxCreated,
           \A j \in IDs : mapList[j] # a
    PROVE  /\ TableInv'
           /\ \A j \in IDs : mapList'[j] = mapList[j] \/ mapList'[j] = a
<1> DEFINE id == (IF nextID = MaxID THEN 0 ELSE nextID) + 1
<1>1. /\ MaxID \in Nat \ {0}
      /\ MaxCreated \in Nat
      /\ a # NULL
  BY SessionAssumption
<1>2. id \in IDs
  BY <1>1 DEF TableInv, TableTypes, IDs
<1>3. /\ nextID' = id
      /\ mapList' = [mapList EXCEPT ![id] = IF mapList[id] = NULL THEN a ELSE mapList[id]]
      /\ given' = [given EXCEPT ![id] = a]
      /\ created' = created + 1
  BY DEF AddOne
<1> HIDE DEF id
<1>4. TableTypes'
  <2>1. nextID' \in 0..MaxID
    BY <1>1, <1>2, <1>3 DEF IDs
  <2>2. created' \in 0..MaxCreated
    BY <1>1, <1>3 DEF TableInv, TableTypes
  <2>3. mapList' \in [IDs -> Addresses \cup {NULL}]
    BY <1>2, <1>3 DEF TableInv, TableTypes
  <2>4. given' \in [IDs -> Addresses \cup {NULL}]
    BY <1>2, <1>3 DEF TableInv, TableTypes
  <2> QED
    BY <2>1, <2>2, <2>3, <2>4 DEF TableTypes
<1>5. \A j \in IDs : mapList'[j] = IF j = id /\ mapList[j] = NULL THEN a ELSE mapList[j]
  BY <1>2, <1>3 DEF TableInv, TableTypes
<1>6. OneIDEach'
  BY <1>5 DEF TableInv, OneIDEach
<1>7. Numbered'
  <2> SUFFICES ASSUME created' <= MaxID
               PROVE  /\ nextID' = created'
                      /\ \A j \in IDs : j > created' => mapList'[j] = NULL
                      /\ mapList' = given'
    BY DEF Numbered
  <2>1. created \in Nat /\ nextID \in Nat
    BY <1>1 DEF TableInv, TableTypes
  <2>2. /\ created < MaxID
        /\ nextID = created
        /\ \A j \in IDs : j > created => mapList[j] = NULL
        /\ mapList = given
    BY <1>1, <1>3, <2>1 DEF TableInv, Numbered
  <2>3. id = created + 1
    BY <2>1, <2>2, <1>1 DEF id
  <2>4. mapList[id] = NULL
    BY <1>2, <2>1, <2>2, <2>3
  <2>5. mapList' = given'
    BY <1>3, <2>2, <2>4
  <2>6. \A j \in IDs : j > created' => mapList'[j] = NULL
    <3> SUFFICES ASSUME NEW j \in IDs, j > created'
                 PROVE  mapList'[j] = NULL
      OBVIOUS
    <3>1. j \in Nat /\ created' = created + 1
      BY <1>1, <1>3 DEF IDs
    <3>2. j > created /\ j # id
      BY <2>1, <2>3, <3>1
    <3> QED
      BY <1>5, <2>2, <3>2
  <2> QED
    BY <1>3, <2>3, <2>5, <2>6
<1> QED
  BY <1>4, <1>5, <1>6, <1>7 DEF TableInv

\* Steps that leave the table alone.
LEMMA TableStutter == ASSUME TableInv, UNCHANGED table PROVE TableInv'
BY DEF TableInv, TableTypes, OneIDEach, Numbered, table

\* A new object is put where none was, and perhaps entered in the table.
LEMMA EnterStep ==
    ASSUME HeapTypes, TableInv, NoDanglingEntry,
           NEW a \in Addresses, NEW c \in Context,
           heap[a] = NULL, created < MaxCreated,
           heap' = [heap EXCEPT ![a] = c], UNCHANGED last,
           AddOne(a) \/ UNCHANGED table
    PROVE  HeapTypes' /\ TableInv' /\ NoDanglingEntry'
<1>1. HeapTypes'
  BY DEF HeapTypes
<1>2. \A j \in IDs : mapList[j] # a
  BY SessionAssumption DEF NoDanglingEntry
<1>3. c # NULL
  BY SessionAssumption
<1>4. CASE AddOne(a)
  <2>1. /\ TableInv'
        /\ \A j \in IDs : mapList'[j] = mapList[j] \/ mapList'[j] = a
    BY <1>2, <1>4, AddOneStep
  <2>2. NoDanglingEntry'
    BY <1>3, <2>1 DEF NoDanglingEntry, HeapTypes, TableInv, TableTypes
  <2> QED
    BY <1>1, <2>1, <2>2
<1>5. CASE UNCHANGED table
  <2>1. TableInv' /\ mapList' = mapList
    BY <1>5, TableStutter DEF table
  <2>2. NoDanglingEntry'
    BY <1>2, <1>3, <2>1 DEF NoDanglingEntry, HeapTypes, TableInv, TableTypes
  <2> QED
    BY <1>1, <2>1, <2>2
<1> QED
  BY <1>4, <1>5

\* The object of one ID is deleted.
LEMMA ClearStep ==
    ASSUME HeapTypes, TableInv, NoDanglingEntry, NEW id \in IDs, ClearContext(id)
    PROVE  HeapTypes' /\ TableInv' /\ NoDanglingEntry'
<1>1. /\ mapList[id] \in Addresses
      /\ heap' = [heap EXCEPT ![mapList[id]] = NULL]
      /\ mapList' = [mapList EXCEPT ![id] = NULL]
      /\ given' = [given EXCEPT ![id] = NULL]
      /\ UNCHANGED <<nextID, created, last>>
  BY DEF ClearContext, TableInv, TableTypes
<1>2. HeapTypes'
  BY <1>1 DEF HeapTypes
<1>3. TableTypes'
  BY <1>1 DEF TableInv, TableTypes
<1>4. \A j \in IDs : mapList'[j] = IF j = id THEN NULL ELSE mapList[j]
  BY <1>1 DEF TableInv, TableTypes
<1>5. OneIDEach'
  BY <1>4 DEF TableInv, OneIDEach
<1>6. Numbered'
  BY <1>1, <1>4 DEF TableInv, Numbered
<1>7. NoDanglingEntry'
  <2> SUFFICES ASSUME NEW j \in IDs, mapList'[j] # NULL
               PROVE  heap'[mapList'[j]] # NULL
    BY DEF NoDanglingEntry
  <2>1. j # id /\ mapList'[j] = mapList[j]
    BY <1>4
  <2>2. mapList[j] # mapList[id]
    BY <2>1 DEF TableInv, OneIDEach
  <2>3. mapList[j] \in Addresses /\ heap[mapList[j]] # NULL
    BY <2>1 DEF NoDanglingEntry, TableInv, TableTypes
  <2> QED
    BY <1>1, <2>1, <2>2, <2>3 DEF HeapTypes
<1> QED
  BY <1>2, <1>3, <1>5, <1>6, <1>7 DEF TableInv

-----------------------------------------------------------------------------
(* The device behind _last *)

\* A context is created at address a, and activated with outcome r.
LEMMA CreateStep ==
    ASSUME HeapTypes, DeviceTypes, LastIsConfigured,
           NEW a \in Addresses, NEW c \in Context, NEW r \in ActiveSelf(c, dev[c.device]),
           heap' = [heap EXCEPT ![a] = c], UNCHANGED last,
           dev' = [dev EXCEPT ![c.device] = r.s],
           undone' = UndoneBy(a, c.device, r.ok)
    PROVE  DeviceTypes' /\ LastIsConfigured'
<1>1. c.device \in Devices /\ dev[c.device] \in Device
  BY DEF Context, DeviceTypes
<1>2. /\ r.s \in Device
      /\ r.ok \in BOOLEAN
      /\ r.ok => Configured(c, r.s)
  BY <1>1, ActiveSelfOutcome
<1>3. undone' \in BOOLEAN
  BY <1>2 DEF UndoneBy, Displaced, DeviceTypes
<1>4. DeviceTypes'
  BY <1>1, <1>2, <1>3 DEF DeviceTypes
<1>5. LastIsConfigured'
  <2> SUFFICES ASSUME last # NULL, heap'[last] # NULL, ~undone'
               PROVE  Configured(heap'[last], dev'[heap'[last].device])
    BY DEF LastIsConfigured
  <2>1. CASE last = a
    <3>1. r.ok
      BY <1>2, <2>1 DEF UndoneBy
    <3>2. heap'[last] = c /\ dev'[c.device] = r.s
      BY <1>1, <2>1 DEF HeapTypes, DeviceTypes
    <3> QED
      BY <1>2, <3>1, <3>2
  <2>2. CASE last # a
    <3>1. ~undone /\ ~Displaced(c.device)
      BY <2>2 DEF UndoneBy
    <3>2. heap'[last] = heap[last] /\ last \in Addresses
      BY <2>2 DEF HeapTypes
    <3>3. Configured(heap[last], dev[heap[last].device])
      BY <3>1, <3>2 DEF LastIsConfigured
    <3>4. heap[last].device # c.device
      BY <3>1, <3>2 DEF Displaced
    <3>5. heap[last].device \in Devices
      BY <3>2 DEF HeapTypes, Context
    <3>6. dev'[heap[last].device] = dev[heap[last].device]
      BY <1>1, <3>4, <3>5 DEF DeviceTypes
    <3> QED
      BY <3>2, <3>3, <3>6
  <2> QED
    BY <2>1, <2>2
<1> QED
  BY <1>4, <1>5

\* The context at address a is looked up with outcome r, and used.
LEMMA UseStep ==
    ASSUME HeapTypes, DeviceTypes, LastIsConfigured,
           NEW a \in Addresses, heap[a] # NULL, NEW r \in GetOne(a),
           UNCHANGED heap, last' = a,
           dev' = [dev EXCEPT ![heap[a].device] = r.s], undone' = r.undone
    PROVE  HeapTypes' /\ DeviceTypes' /\ LastIsConfigured'
<1>1. /\ heap[a].device \in Devices
      /\ r.s \in Device
      /\ r.undone \in BOOLEAN
      /\ ~r.undone => Configured(heap[a], r.s)
  BY GetOneOutcome
<1>2. HeapTypes' /\ DeviceTypes'
  BY <1>1 DEF HeapTypes, DeviceTypes
<1>3. dev'[heap[a].device] = r.s
  BY <1>1 DEF DeviceTypes
<1> QED
  BY <1>1, <1>2, <1>3 DEF LastIsConfigured

\* The context at address a becomes c, with another unit or timeout.  Its
\* device, left as in r by the lookup, gets the setting too and is then in
\* state s, or does not.
LEMMA SettingStep ==
    ASSUME HeapTypes, DeviceTypes,
           NEW a \in Addresses, heap[a] # NULL, NEW c \in Context,
           c.device = heap[a].device,
           heap' = [heap EXCEPT ![a] = c], last' = a,
           NEW r, NEW s \in Device,
           r.s \in Device, r.undone \in BOOLEAN, ~r.undone => Configured(c, s),
           \/ dev' = [dev EXCEPT ![c.device] = s] /\ undone' = r.undone
           \/ dev' = [dev EXCEPT ![c.device] = r.s] /\ undone' = TRUE
    PROVE  HeapTypes' /\ DeviceTypes' /\ LastIsConfigured'
<1>1. c.device \in Devices
  BY DEF Context
<1>2. HeapTypes' /\ DeviceTypes'
  BY <1>1 DEF HeapTypes, DeviceTypes
<1>3. heap'[a] = c
  BY DEF HeapTypes
<1>4. CASE dev' = [dev EXCEPT ![c.device] = s] /\ undone' = r.undone
  <2>1. dev'[c.device] = s
    BY <1>1, <1>4 DEF DeviceTypes
  <2> QED
    BY <1>2, <1>3, <1>4, <2>1 DEF LastIsConfigured
<1>5. CASE undone' = TRUE
  BY <1>2, <1>5 DEF LastIsConfigured
<1> QED
  BY <1>4, <1>5

\* JUB_SetUnitBTC keeps the device behind _last configured.
LEMMA UnitStep ==
    ASSUME HeapTypes, TableInv, DeviceTypes, NoDanglingEntry, LastIsConfigured,
           NEW id \in IDs, NEW u \in Units, SetUnitBTC(id, u)
    PROVE  HeapTypes' /\ DeviceTypes' /\ LastIsConfigured'
<1> DEFINE a == mapList[id]
           c == [heap[a] EXCEPT !.unit = u]
<1>1. a \in Addresses /\ heap[a] # NULL
  BY DEF SetUnitBTC, TableInv, TableTypes, NoDanglingEntry
<1>2. heap[a] \in Context
  BY <1>1 DEF HeapTypes
<1>3. c \in Context /\ c.device = heap[a].device
  BY <1>2 DEF Context
<1>4. heap' = [heap EXCEPT ![a] = c] /\ last' = a
  BY <1>1, <1>2 DEF SetUnitBTC, HeapTypes
<1>5. PICK r \in GetOne(a) :
          \/ /\ dev' = [dev EXCEPT ![heap[a].device] = [r.s EXCEPT !.unit = u]]
             /\ undone' = r.undone
          \/ /\ dev' = [dev EXCEPT ![heap[a].device] = r.s]
             /\ undone' = TRUE
  BY DEF SetUnitBTC
<1>6. /\ r.s \in Device
      /\ r.undone \in BOOLEAN
      /\ ~r.undone => Configured(heap[a], r.s)
  BY <1>1, GetOneOutcome
<1>7. [r.s EXCEPT !.unit = u] \in Device
  BY <1>6 DEF Device
<1>8. ~r.undone => Configured(c, [r.s EXCEPT !.unit = u])
  BY <1>2, <1>6 DEF Configured, Context, Device
<1> HIDE DEF a, c
<1> QED
  BY <1>1, <1>3, <1>4, <1>5, <1>6, <1>7, <1>8, SettingStep

\* So does JUB_SetTimeOut.
LEMMA TimeOutStep ==
    ASSUME HeapTypes, TableInv, DeviceTypes, NoDanglingEntry, LastIsConfigured,
           NEW id \in IDs, NEW t \in Timeouts, SetTimeOut(id, t)
    PROVE  HeapTypes' /\ DeviceTypes' /\ LastIsConfigured'
<1> DEFINE a == mapList[id]
           c == [heap[a] EXCEPT !.timeout = t]
<1>1. a \in Addresses /\ heap[a] # NULL
  BY DEF SetTimeOut, TableInv, TableTypes, NoDanglingEntry
<1>2. heap[a] \in Context
  BY <1>1 DEF HeapTypes
<1>3. c \in Context /\ c.device = heap[a].device
  BY <1>2 DEF Context
<1>4. heap' = [heap EXCEPT ![a] = c] /\ last' = a
  BY <1>1, <1>2 DEF SetTimeOut, HeapTypes
<1>5. PICK r \in GetOne(a) :
          \/ /\ dev' = [dev EXCEPT ![heap[a].device] = [r.s EXCEPT !.timeout = t]]
             /\ undone' = r.undone
          \/ /\ dev' = [dev EXCEPT ![heap[a].device] = r.s]
             /\ undone' = TRUE
  BY DEF SetTimeOut
<1>6. /\ r.s \in Device
      /\ r.undone \in BOOLEAN
      /\ ~r.undone => Configured(heap[a], r.s)
  BY <1>1, GetOneOutcome
<1>7. [r.s EXCEPT !.timeout = t] \in Device
  BY <1>6 DEF Device
<1>8. ~r.undone => Configured(c, [r.s EXCEPT !.timeout = t])
  BY <1>2, <1>6 DEF Configured, Context, Device
<1> HIDE DEF a, c
<1> QED
  BY <1>1, <1>3, <1>4, <1>5, <1>6, <1>7, <1>8, SettingStep

\* Something other than the context at _last does something to device d.
LEMMA DisturbStep ==
    ASSUME HeapTypes, DeviceTypes, LastIsConfigured,
           NEW d \in Devices, NEW s \in Device,
           dev' = [dev EXCEPT ![d] = s], undone' = (undone \/ Displaced(d)),
           UNCHANGED <<heap, last>>
    PROVE  DeviceTypes' /\ LastIsConfigured'
<1>1. DeviceTypes'
  BY DEF DeviceTypes, Displaced
<1>2. LastIsConfigured'
  <2> SUFFICES ASSUME last # NULL, heap[last] # NULL, ~undone'
               PROVE  Configured(heap[last], dev'[heap[last].device])
    BY DEF LastIsConfigured
  <2>1. ~undone /\ heap[last].device # d
    BY DEF Displaced
  <2>2. heap[last].device \in Devices
    BY DEF HeapTypes, Context
  <2>3. dev'[heap[last].device] = dev[heap[last].device]
    BY <2>1, <2>2 DEF DeviceTypes
  <2> QED
    BY <2>1, <2>3 DEF LastIsConfigured
<1> QED
  BY <1>1, <1>2

-----------------------------------------------------------------------------
(* The invariant *)

Inv ==
    /\ HeapTypes
    /\ TableInv
    /\ DeviceTypes
    /\ NoDanglingEntry
    /\ LastIsConfigured

\* The manager begins with an empty table and nothing looked up.
LEMMA InitInv == Init => Inv
<1> SUFFICES ASSUME Init PROVE Inv
  OBVIOUS
<1>1. HeapTypes
  BY DEF Init, HeapTypes
<1>2. TableTypes
  <2>1. 0 \in 0..MaxID /\ 0 \in 0..MaxCreated
    BY SessionAssumption
  <2> QED
    BY <2>1 DEF Init, TableTypes
<1>3. TableInv
  BY <1>2 DEF Init, TableInv, OneIDEach, Numbered
<1>4. DeviceTypes
  BY DEF Init, DeviceTypes
<1>5. NoDanglingEntry /\ LastIsConfigured
  BY DEF Init, NoDanglingEntry, LastIsConfigured
<1> QED
  BY <1>1, <1>3, <1>4, <1>5 DEF Inv

\* A context as it is created.
LEMMA NewContextType ==
    ASSUME NEW kind \in Kinds, NEW d \in Devices, NEW coin \in Coins
    PROVE  /\ NewContext(kind, d, coin) \in Context
           /\ NewContext(kind, d, coin).device = d
BY SessionAssumption DEF NewContext, Context

\* Every call preserves the invariant.
LEMMA NextInv == Inv /\ [Next]_vars => Inv'
<1> SUFFICES ASSUME Inv, [Next]_vars PROVE Inv'
  OBVIOUS
<1> USE DEF Inv
<1>1. ASSUME NEW a \in Addresses, NEW d \in Devices, NEW coin \in Coins,
             CreateContextBTC(a, d, coin)
      PROVE  Inv'
  <2> DEFINE c == NewContext("BTC", d, coin)
  <2>1. c \in Context /\ c.device = d
    BY NewContextType DEF Kinds
  <2>2. PICK r \in ActiveSelf(c, dev[d]) :
            /\ dev' = [dev EXCEPT ![d] = r.s]
            /\ undone' = UndoneBy(a, d, r.ok)
            /\ IF r.ok THEN AddOne(a) ELSE UNCHANGED table
    BY <1>1 DEF CreateContextBTC
  <2>3. /\ heap[a] = NULL
        /\ created < MaxCreated
        /\ heap' = [heap EXCEPT ![a] = c]
        /\ UNCHANGED last
    BY <1>1 DEF CreateContextBTC
  <2> HIDE DEF c
  <2>4. HeapTypes' /\ TableInv' /\ NoDanglingEntry'
    BY <2>1, <2>2, <2>3, EnterStep
  <2>5. DeviceTypes' /\ LastIsConfigured'
    BY <2>1, <2>2, <2>3, CreateStep
  <2> QED
    BY <2>4, <2>5
<1>2. ASSUME NEW a \in Addresses, NEW d \in Devices, NEW coin \in Coins,
             CreateContextETH(a, d, coin)
      PROVE  Inv'
  <2> DEFINE c == NewContext("ETH", d, coin)
  <2>1. c \in Context /\ c.device = d
    BY NewContextType DEF Kinds
  <2>2. PICK r \in ActiveSelf(c, dev[d]) :
            /\ dev' = [dev EXCEPT ![d] = r.s]
            /\ undone' = UndoneBy(a, d, r.ok)
    BY <1>2 DEF CreateContextETH
  <2>3. /\ heap[a] = NULL
        /\ created < MaxCreated
        /\ heap' = [heap EXCEPT ![a] = c]
        /\ AddOne(a)
        /\ UNCHANGED last
    BY <1>2 DEF CreateContextETH
  <2> HIDE DEF c
  <2>4. HeapTypes' /\ TableInv' /\ NoDanglingEntry'
    BY <2>1, <2>2, <2>3, EnterStep
  <2>5. DeviceTypes' /\ LastIsConfigured'
    BY <2>1, <2>2, <2>3, CreateStep
  <2> QED
    BY <2>4, <2>5
<1>3. ASSUME NEW id \in IDs, ClearContext(id)
      PROVE  Inv'
  <2>1. HeapTypes' /\ TableInv' /\ NoDanglingEntry'
    BY <1>3, ClearStep
  <2>2. UNCHANGED <<last, dev, undone>>
    BY <1>3 DEF ClearContext
  <2>3. \A b \in Addresses : heap'[b] # NULL => heap'[b] = heap[b]
    BY <1>3 DEF ClearContext, HeapTypes, TableInv, TableTypes
  <2>4. DeviceTypes'
    BY <2>2 DEF DeviceTypes
  <2>5. LastIsConfigured'
    BY <2>2, <2>3 DEF LastIsConfigured, HeapTypes
  <2> QED
    BY <2>1, <2>4, <2>5
<1>4. ASSUME NEW id \in IDs, UseContext(id)
      PROVE  Inv'
  <2>1. /\ mapList[id] \in Addresses
        /\ heap[mapList[id]] # NULL
        /\ last' = mapList[id]
        /\ UNCHANGED <<heap, table>>
    BY <1>4 DEF UseContext, NoDanglingEntry, TableInv, TableTypes
  <2>2. PICK r \in GetOne(mapList[id]) :
            /\ dev' = [dev EXCEPT ![heap[mapList[id]].device] = r.s]
            /\ undone' = r.undone
    BY <1>4 DEF UseContext
  <2>3. HeapTypes' /\ DeviceTypes' /\ LastIsConfigured'
    BY <2>1, <2>2, UseStep
  <2>4. TableInv' /\ NoDanglingEntry'
    BY <2>1, TableStutter DEF NoDanglingEntry, table
  <2> QED
    BY <2>3, <2>4
<1>5. ASSUME NEW id \in IDs, NEW u \in Units, SetUnitBTC(id, u)
      PROVE  Inv'
  <2>1. HeapTypes' /\ DeviceTypes' /\ LastIsConfigured'
    BY <1>5, UnitStep
  <2>2. /\ UNCHANGED table
        /\ mapList[id] \in Addresses
        /\ heap' = [heap EXCEPT ![mapList[id]].unit = u]
    BY <1>5 DEF SetUnitBTC, TableInv, TableTypes
  <2>3. NoDanglingEntry'
    <3>1. \A b \in Addresses : heap[b] # NULL => heap'[b] # NULL
      BY <2>1, <2>2, SessionAssumption DEF HeapTypes, Context
    <3> QED
      BY <2>2, <3>1 DEF NoDanglingEntry, TableInv, TableTypes, table
  <2> QED
    BY <2>1, <2>2, <2>3, TableStutter
<1>6. ASSUME NEW id \in IDs, NEW t \in Timeouts, SetTimeOut(id, t)
      PROVE  Inv'
  <2>1. HeapTypes' /\ DeviceTypes' /\ LastIsConfigured'
    BY <1>6, TimeOutStep
  <2>2. /\ UNCHANGED table
        /\ mapList[id] \in Addresses
        /\ heap' = [heap EXCEPT ![mapList[id]].timeout = t]
    BY <1>6 DEF SetTimeOut, TableInv, TableTypes
  <2>3. NoDanglingEntry'
    <3>1. \A b \in Addresses : heap[b] # NULL => heap'[b] # NULL
      BY <2>1, <2>2, SessionAssumption DEF HeapTypes, Context
    <3> QED
      BY <2>2, <3>1 DEF NoDanglingEntry, TableInv, TableTypes, table
  <2> QED
    BY <2>1, <2>2, <2>3, TableStutter
<1>7. ASSUME NEW d \in Devices, IsBootLoader(d)
      PROVE  Inv'
  <2>1. UNCHANGED <<heap, table>> /\ last' = NULL
    BY <1>7 DEF IsBootLoader
  <2>2. HeapTypes' /\ LastIsConfigured'
    BY <2>1 DEF HeapTypes, LastIsConfigured
  <2>3. TableInv' /\ NoDanglingEntry'
    BY <2>1, TableStutter DEF NoDanglingEntry, table
  <2>4. DeviceTypes'
    BY <1>7 DEF IsBootLoader, DeviceTypes, Device
  <2> QED
    BY <2>2, <2>3, <2>4
<1>8. ASSUME NEW d \in Devices, NEW s \in Device,
             dev' = [dev EXCEPT ![d] = s], undone' = (undone \/ Displaced(d)),
             UNCHANGED <<heap, table, last>>
      PROVE  Inv'
  <2>1. DeviceTypes' /\ LastIsConfigured'
    BY <1>8, DisturbStep
  <2>2. HeapTypes' /\ NoDanglingEntry'
    BY <1>8 DEF HeapTypes, NoDanglingEntry, table
  <2>3. TableInv'
    BY <1>8, TableStutter
  <2> QED
    BY <2>1, <2>2, <2>3
<1>9. ASSUME NEW d \in Devices, SelectBehind(d)
      PROVE  Inv'
  <2>1. PICK app \in {"main"} \cup Kinds : dev' = [dev EXCEPT ![d].applet = app]
    BY <1>9 DEF SelectBehind
  <2>2. [dev[d] EXCEPT !.applet = app] \in Device
    BY DEF DeviceTypes, Device
  <2>3. dev' = [dev EXCEPT ![d] = [dev[d] EXCEPT !.applet = app]]
    BY <2>1 DEF DeviceTypes
  <2> QED
    BY <1>8, <1>9, <2>2, <2>3 DEF SelectBehind
<1>10. ASSUME NEW d \in Devices, DeviceReset(d)
       PROVE  Inv'
  <2>1. PICK t \in Timeouts, u \in Units, coin \in Coins :
          dev' = [dev EXCEPT ![d] = [applet |-> "main", version |-> dev[d].version,
                                     timeout |-> t, unit |-> u, coin |-> coin]]
    BY <1>10 DEF DeviceReset
  <2>2. [applet |-> "main", version |-> dev[d].version,
         timeout |-> t, unit |-> u, coin |-> coin] \in Device
    BY DEF DeviceTypes, Device
  <2> QED
    BY <1>8, <1>10, <2>1, <2>2 DEF DeviceReset
<1>11. CASE UNCHANGED vars
  BY <1>11, TableStutter
     DEF vars, table, HeapTypes, DeviceTypes, NoDanglingEntry, LastIsConfigured
<1> QED
  BY <1>1, <1>2, <1>3, <1>4, <1>5, <1>6, <1>7, <1>9, <1>10, <1>11
     DEF Next, Create, WithContext, WithDevice

-----------------------------------------------------------------------------
(* The theorems *)

\* The invariant holds throughout.
LEMMA Invariance == Spec => []Inv
BY InitInv, NextInv, PTL DEF Spec

\* The manager's members, the context objects and the devices keep their
\* types through every call.
THEOREM TypeCorrect == Spec => []TypeOK
<1>1. Inv => TypeOK
  BY TypeParts DEF Inv, TableInv
<1> QED
  BY <1>1, Invariance, PTL

\* No call leaves an ID that stands for a deleted context object, and so no
\* call with a context uses one.
THEOREM TableIsSound == Spec => []NoDanglingEntry
<1>1. Inv => NoDanglingEntry
  BY DEF Inv
<1> QED
  BY <1>1, Invariance, PTL

\* An ID stands for the context its caller was given it for, until the
\* counter has come round, and no two IDs ever stand for the same.
THEOREM IDsAreNames == Spec => []IDsNameContexts
<1>1. Inv => IDsNameContexts
  BY DEF Inv, TableInv, OneIDEach, Numbered, IDsNameContexts
<1> QED
  BY <1>1, Invariance, PTL

\* When a call skips ActiveSelf, because its context is the one looked up
\* last, the device has that context's applet and settings; the exceptions
\* are those `undone` records.
THEOREM SkippingIsSafe == Spec => []LastIsConfigured
<1>1. Inv => LastIsConfigured
  BY DEF Inv
<1> QED
  BY <1>1, Invariance, PTL
=============================================================================
