------------------------------ MODULE CodecBus ------------------------------
(***************************************************************************)
(* The codecs as child devices of the bus (fdo.cpp, sgpc.cpp, buspdo.cpp)  *)
(* and the unsolicited responses their drivers register for (hdaudio.cpp,  *)
(* HDAFlushRIRB of hdac_controller.cpp).                                   *)
(*                                                                         *)
(* A codec found is described to the framework, which creates a device for *)
(* the description unless it equals one that is present, and later deletes *)
(* the device of a description that was marked missing.  codecs[addr]      *)
(* points to the device created last at an address; nothing clears it.     *)
(* The codec shared with the graphics device comes and goes with the power *)
(* state of the graphics component, whose callbacks come one at a time.    *)
(*                                                                         *)
(* Function drivers register and unregister callbacks for unsolicited      *)
(* responses under the interrupt lock; the DPC copies an entry without it. *)
(* Reading the context of a deleted device has no defined outcome: it ends *)
(* the behaviour (badRead), and nothing is claimed of what follows.        *)
(***************************************************************************)
EXTENDS Integers, Sequences, FiniteSets

CONSTANTS
    Addrs, Gfx,  \* codec addresses; GraphicsCodecAddress
    Junk,        \* what the bytes of a CODEC_IDS nobody assigns may hold
    Threads,     \* threads of function drivers, each with a callback of its own
    Tags,        \* 0 .. MAX_UNSOLICIT_CALLBACKS - 1
    MaxChildren, \* bound: devices described
    NULL

ASSUME AddrAssumption == Gfx \in Addrs /\ Tags \subseteq Nat /\ MaxChildren \in Nat
ASSUME NullAssumption == NULL \notin Threads

VARIABLES
    scan,       \* addresses SelfManagedIoInit has still to look at
    children,   \* descriptions with their devices, in the order they were made
    codecs,     \* [Addrs -> index of a child, 0 for NULL]
    connected,  \* GraphicsCodecConnected
    inF0,       \* history: the component's last callback said it is in F0
    eject, ids, \* EjectGraphicsCodec: where it is, the ids it copied
    lock,       \* who holds the interrupt lock
    unsolitCallbacks, \* [child -> [Tags -> entry]]
    pc, child, tag, todo, \* per thread: its call, on which device and entry,
                \* the fields it has still to store
    dpc, from, to, at, \* HDAFlushRIRB: the response's address, the device and entry
    copy, toCopy, \* the local copy of the entry, the fields still missing
    disturbed,  \* history: a thread was at work on that entry meanwhile
    badRead     \* history: the context of a deleted device was read

busVars == <<scan, children, codecs, connected, inF0, eject, ids>>
clientVars == <<unsolitCallbacks, pc, child, tag, todo>>
dpcVars == <<dpc, from, to, at, copy, toCopy>>
vars == <<busVars, lock, clientVars, dpcVars, disturbed, badRead>>

Fields == {"inUse", "Context", "Routine"}
EmptyEntry == [inUse |-> FALSE, Context |-> NULL, Routine |-> NULL]
EntryOf(t) == [inUse |-> TRUE, Context |-> t, Routine |-> t]
Kids == 1 .. MaxChildren
NoIds == [addr |-> Gfx, junk |-> NULL]

Init ==
    /\ scan = Addrs /\ children = <<>> /\ codecs = [a \in Addrs |-> 0]
    /\ connected = FALSE /\ inF0 = FALSE /\ eject = "idle" /\ ids = NoIds
    /\ lock = NULL
    /\ unsolitCallbacks = [i \in Kids |-> [k \in Tags |-> EmptyEntry]]
    /\ pc = [t \in Threads |-> "none"] /\ todo = [t \in Threads |-> {}]
    /\ child = [t \in Threads |-> 0] /\ tag = [t \in Threads |-> 0]
    /\ dpc = "idle" /\ from = Gfx /\ to = 0 /\ at = 0 /\ copy = EmptyEntry /\ toCopy = {}
    /\ disturbed = FALSE /\ badRead = FALSE
-----------------------------------------------------------------------------
(* Descriptions and devices. *)

\* Bus_EvtChildListIdentificationDescriptionCompare: RtlCompareMemory over the
\* whole of CodecIds.  The ids that are read from the codec are the address'.
Same(d, e) == d.addr = e.addr /\ d.junk = e.junk

\* Mutant of Describe: the framework is not asked whether the device is known.
Describe_Always(a) ==
    \/ UNCHANGED children
    \/ \E k \in Junk :
          /\ Len(children) < MaxChildren
          /\ children' = Append(children, [addr |-> a, junk |-> k, present |-> TRUE, dev |-> "pending"])

\* Fdo_EnumerateCodec: a description of its own unless an equal one is present;
\* nothing when the codec does not answer.
Describe(a) ==
    \/ UNCHANGED children
    \/ \E k \in Junk :
          LET d == [addr |-> a, junk |-> k, present |-> TRUE, dev |-> "pending"]
          IN  /\ Len(children) < MaxChildren
              /\ \A i \in DOMAIN children : children[i].present => ~Same(children[i], d)
              /\ children' = Append(children, d)

\* Fdo_EvtDeviceSelfManagedIoInit: codecs of codecMask, the graphics codec left out.
ScanAddr(a) ==
    /\ a \in scan /\ scan' = scan \ {a}
    /\ codecs' = [codecs EXCEPT ![a] = 0]
    /\ IF a = Gfx THEN UNCHANGED children ELSE Describe(a)
    /\ UNCHANGED <<connected, inF0, eject, ids, lock, clientVars, dpcVars, disturbed, badRead>>

\* Mutant of CreatePdo: the pointer of an earlier device is kept.
CreatePdo_KeepsOld(i) ==
    /\ scan = {} /\ children[i].dev = "pending" /\ children[i].present
    /\ children' = [children EXCEPT ![i].dev = "created"]
    /\ codecs' = [codecs EXCEPT ![children[i].addr] = IF @ = 0 THEN i ELSE @]
    /\ UNCHANGED <<scan, connected, inF0, eject, ids, lock, clientVars, dpcVars, disturbed, badRead>>

\* Mutant of CreatePdo: the pointer is to the device after it.
CreatePdo_Next(i) ==
    /\ scan = {} /\ children[i].dev = "pending" /\ children[i].present
    /\ children' = [children EXCEPT ![i].dev = "created"]
    /\ codecs' = [codecs EXCEPT ![children[i].addr] = i + 1]
    /\ UNCHANGED <<scan, connected, inF0, eject, ids, lock, clientVars, dpcVars, disturbed, badRead>>

\* Bus_CreatePdo, when the framework reports the children.
CreatePdo(i) ==
    /\ scan = {} /\ children[i].dev = "pending" /\ children[i].present
    /\ children' = [children EXCEPT ![i].dev = "created"]
    /\ codecs' = [codecs EXCEPT ![children[i].addr] = i]
    /\ UNCHANGED <<scan, connected, inF0, eject, ids, lock, clientVars, dpcVars, disturbed, badRead>>

\* The framework deletes a missing device, once its driver has unregistered.
RemovePdo(i) ==
    /\ children[i].dev \in {"pending", "created"} /\ ~children[i].present
    /\ \A t \in Threads : pc[t] # "none" => child[t] # i
    /\ children' = [children EXCEPT ![i].dev = "freed"]
    /\ UNCHANGED <<scan, codecs, connected, inF0, eject, ids, lock, clientVars, dpcVars,
                   disturbed, badRead>>
-----------------------------------------------------------------------------
(* The graphics component enters F0, or is about to leave it.              *)

\* EnumerateGraphicsCodec
GraphicsOn ==
    /\ scan = {} /\ eject = "idle"
    /\ connected' = TRUE /\ inF0' = TRUE /\ Describe(Gfx)
    /\ UNCHANGED <<scan, codecs, eject, ids, lock, clientVars, dpcVars, disturbed, badRead>>

\* EjectGraphicsCodec, `if (!codecs[GraphicsCodecAddress]) return': nobody tells
\* the framework, although a device may be about to be created.
EjectDropped ==
    /\ scan = {} /\ eject = "idle" /\ codecs[Gfx] = 0
    /\ inF0' = FALSE
    /\ UNCHANGED <<scan, children, codecs, connected, eject, ids, lock, clientVars, dpcVars,
                   disturbed, badRead>>

\* EjectGraphicsCodec goes on when codecs[] has a device.
EjectCheck ==
    /\ scan = {} /\ eject = "idle" /\ codecs[Gfx] # 0
    /\ connected' = FALSE /\ inF0' = FALSE /\ eject' = "read"
    /\ UNCHANGED <<scan, children, codecs, ids, lock, clientVars, dpcVars, disturbed, badRead>>

\* Mutant of EjectRead: the description is filled in anew.
EjectRead_Anew ==
    /\ eject = "read" /\ eject' = "mark"
    /\ \E k \in Junk : ids' = [addr |-> Gfx, junk |-> k]
    /\ UNCHANGED <<scan, children, codecs, connected, inF0, lock, clientVars, dpcVars, disturbed, badRead>>

\* RtlCopyMemory(&description.CodecIds, &codecs[GraphicsCodecAddress]->CodecIds)
EjectRead ==
    /\ eject = "read" /\ eject' = "mark"
    /\ LET d == children[codecs[Gfx]]
       IN  IF d.dev = "freed"
             THEN badRead' = TRUE /\ UNCHANGED ids
             ELSE ids' = [addr |-> d.addr, junk |-> d.junk] /\ UNCHANGED badRead
    /\ UNCHANGED <<scan, children, codecs, connected, inF0, lock, clientVars, dpcVars, disturbed>>

\* What WdfChildListUpdateChildDescriptionAsMissing makes of a description.
Missing(c) == [c EXCEPT !.present = @ /\ ~Same(c, ids)]

\* Mutant of EjectMark: the pointer to the device is cleared with it.
EjectMark_Nulls ==
    /\ eject = "mark" /\ lock = NULL
    /\ children' = [i \in DOMAIN children |-> Missing(children[i])]
    /\ codecs' = [codecs EXCEPT ![Gfx] = 0]
    /\ eject' = "idle" /\ ids' = NoIds
    /\ UNCHANGED <<scan, connected, inF0, lock, clientVars, dpcVars, disturbed, badRead>>

\* The description is reported missing, under the interrupt lock.
EjectMark ==
    /\ eject = "mark" /\ lock = NULL
    /\ children' = [i \in DOMAIN children |-> Missing(children[i])]
    /\ eject' = "idle" /\ ids' = NoIds
    /\ UNCHANGED <<scan, codecs, connected, inF0, lock, clientVars, dpcVars, disturbed, badRead>>

Bus ==
    \/ \E a \in Addrs : ScanAddr(a)
    \/ \E i \in DOMAIN children : CreatePdo(i) \/ RemovePdo(i)
    \/ GraphicsOn \/ EjectDropped \/ EjectCheck \/ EjectRead \/ EjectMark
-----------------------------------------------------------------------------
(* HDA_RegisterEventCallback and HDA_UnregisterEventCallback.              *)

Disturbs(i, k) == disturbed' = (disturbed \/ (dpc # "idle" /\ to = i /\ at = k))

\* Mutant of FreeTag: the first entry, in use or not.
FreeTag_First(i, k) == \A l \in Tags : k <= l

\* The first entry of the device that is not in use.
FreeTag(i, k) ==
    /\ ~unsolitCallbacks[i][k].inUse
    /\ \A l \in Tags : ~unsolitCallbacks[i][l].inUse => k <= l

\* Mutant of Register: without the lock.
Register_NoLock(t) ==
    /\ pc[t] = "none" /\ UNCHANGED lock
    /\ \E i \in DOMAIN children, k \in Tags :
          /\ children[i].dev = "created" /\ FreeTag(i, k)
          /\ child' = [child EXCEPT ![t] = i] /\ tag' = [tag EXCEPT ![t] = k]
          /\ Disturbs(i, k)
    /\ pc' = [pc EXCEPT ![t] = "storing"] /\ todo' = [todo EXCEPT ![t] = Fields]
    /\ UNCHANGED <<busVars, unsolitCallbacks, dpcVars, badRead>>

\* The lock is taken; with no free entry it is given back and nothing changes.
Register(t) ==
    /\ pc[t] = "none" /\ lock = NULL /\ lock' = t
    /\ \E i \in DOMAIN children, k \in Tags :
          /\ children[i].dev = "created" /\ FreeTag(i, k)
          /\ child' = [child EXCEPT ![t] = i] /\ tag' = [tag EXCEPT ![t] = k]
          /\ Disturbs(i, k)
    /\ pc' = [pc EXCEPT ![t] = "storing"] /\ todo' = [todo EXCEPT ![t] = Fields]
    /\ UNCHANGED <<busVars, unsolitCallbacks, dpcVars, badRead>>

\* `if (!unsolitCallbacks[Tag].inUse) return', then the lock.
Unregister(t) ==
    /\ pc[t] = "registered" /\ unsolitCallbacks[child[t]][tag[t]].inUse
    /\ lock = NULL /\ lock' = t
    /\ Disturbs(child[t], tag[t])
    /\ pc' = [pc EXCEPT ![t] = "zeroing"] /\ todo' = [todo EXCEPT ![t] = Fields]
    /\ UNCHANGED <<busVars, unsolitCallbacks, child, tag, dpcVars, badRead>>

\* The three stores of either call are plain: another processor may see them
\* in any order.
Store(t, f) ==
    /\ f \in todo[t] /\ todo' = [todo EXCEPT ![t] = @ \ {f}]
    /\ LET e == IF pc[t] = "storing" THEN EntryOf(t) ELSE EmptyEntry
       IN  unsolitCallbacks' = [unsolitCallbacks EXCEPT ![child[t]][tag[t]][f] = e[f]]
    /\ UNCHANGED <<busVars, lock, pc, child, tag, dpcVars, disturbed, badRead>>

\* The lock is released: STATUS_SUCCESS.
Return(t) ==
    /\ pc[t] \in {"storing", "zeroing"} /\ todo[t] = {} /\ lock' = NULL
    /\ IF pc[t] = "storing"
         THEN pc' = [pc EXCEPT ![t] = "registered"] /\ UNCHANGED <<child, tag>>
         ELSE /\ pc' = [pc EXCEPT ![t] = "none"]
              /\ child' = [child EXCEPT ![t] = 0] /\ tag' = [tag EXCEPT ![t] = 0]
    /\ UNCHANGED <<busVars, unsolitCallbacks, todo, dpcVars, disturbed, badRead>>

Client(t) == Register(t) \/ Unregister(t) \/ Return(t) \/ \E f \in Fields : Store(t, f)
-----------------------------------------------------------------------------
(* HDAFlushRIRB, for an unsolicited response of codec a with tag k. *)

Working(i, k) == \E t \in Threads : pc[t] \in {"storing", "zeroing"} /\ child[t] = i /\ tag[t] = k

\* codec = codecs[addr]; the response is dropped when there is none.
DpcTake(a, k) ==
    /\ dpc = "idle" /\ codecs[a] # 0
    /\ IF children[codecs[a]].dev = "freed"
         THEN badRead' = TRUE /\ UNCHANGED <<dpcVars, disturbed>>
         ELSE /\ dpc' = "copy" /\ from' = a /\ to' = codecs[a] /\ at' = k /\ toCopy' = Fields
              /\ disturbed' = Working(codecs[a], k) /\ UNCHANGED <<copy, badRead>>
    /\ UNCHANGED <<busVars, lock, clientVars>>

\* callback = codec->unsolitCallbacks[Tag]
DpcCopy(f) ==
    /\ f \in toCopy
    /\ IF children[to].dev = "freed"
         THEN badRead' = TRUE /\ UNCHANGED <<copy, toCopy>>
         ELSE /\ copy' = [copy EXCEPT ![f] = unsolitCallbacks[to][at][f]]
              /\ toCopy' = toCopy \ {f} /\ UNCHANGED badRead
    /\ UNCHANGED <<busVars, lock, clientVars, dpc, from, to, at, disturbed>>

\* `if (callback.inUse && callback.Routine)'
Calls == copy.inUse /\ copy.Routine # NULL

\* callback.Routine(response, callback.Context), if it is called.
DpcCall ==
    /\ dpc = "copy" /\ toCopy = {}
    /\ dpc' = "idle" /\ from' = Gfx /\ to' = 0 /\ at' = 0 /\ copy' = EmptyEntry
    /\ disturbed' = FALSE
    /\ UNCHANGED <<busVars, lock, clientVars, toCopy, badRead>>

Dpc ==
    \/ \E a \in Addrs, k \in Tags : DpcTake(a, k)
    \/ \E f \in Fields : DpcCopy(f)
    \/ DpcCall
-----------------------------------------------------------------------------
Undefined == badRead /\ UNCHANGED vars

Run == Bus \/ Dpc \/ \E t \in Threads : Client(t)

Next == (~badRead /\ Run) \/ Undefined

Spec == Init /\ [][Next]_vars
-----------------------------------------------------------------------------
Entries == [inUse : BOOLEAN, Context : Threads \cup {NULL}, Routine : Threads \cup {NULL}]

TypeOK ==
    /\ scan \subseteq Addrs
    /\ children \in Seq([addr : Addrs, junk : Junk, present : BOOLEAN,
                         dev : {"pending", "created", "freed"}])
    /\ Len(children) <= MaxChildren /\ codecs \in [Addrs -> 0 .. Len(children)]
    /\ connected \in BOOLEAN /\ inF0 \in BOOLEAN /\ eject \in {"idle", "read", "mark"}
    /\ ids \in [addr : {Gfx}, junk : Junk \cup {NULL}] /\ lock \in Threads \cup {NULL}
    /\ unsolitCallbacks \in [Kids -> [Tags -> Entries]]
    /\ pc \in [Threads -> {"none", "storing", "registered", "zeroing"}]
    /\ child \in [Threads -> 0 .. Len(children)] /\ tag \in [Threads -> Tags \cup {0}]
    /\ todo \in [Threads -> SUBSET Fields]
    /\ dpc \in {"idle", "copy"} /\ from \in Addrs /\ to \in 0 .. Len(children)
    /\ at \in Tags \cup {0} /\ copy \in Entries /\ toCopy \subseteq Fields
    /\ disturbed \in BOOLEAN /\ badRead \in BOOLEAN

\* Descriptions of one codec with different bytes in the fields nobody assigns.
Mixed(a) ==
    Cardinality({children[i].junk : i \in {j \in DOMAIN children : children[j].addr = a}}) > 1

\* Between calls each registered callback has an entry of its own, whole, and
\* the other entries are empty: whatever threads of a function driver call at
\* once, and on however many devices.
TagsAreOwn ==
    \A i \in Kids, k \in Tags :
       LET holders == {t \in Threads : pc[t] = "registered" /\ child[t] = i /\ tag[t] = k}
       IN  /\ Cardinality(holders) <= 1
           /\ ~Working(i, k) =>
                 \/ holders = {} /\ unsolitCallbacks[i][k] = EmptyEntry
                 \/ \E t \in holders : unsolitCallbacks[i][k] = EntryOf(t)

\* The DPC, which copies without the lock, calls whoever is registered for the
\* tag on a device of that codec, with his own context, and nobody when nobody
\* is, unless a thread was at work on that entry since the copy began.
ResponsesReachTheirCallback ==
    dpc = "copy" /\ toCopy = {} /\ ~disturbed =>
       LET holders == {t \in Threads : pc[t] = "registered" /\ child[t] = to /\ tag[t] = at}
       IN  /\ children[to].addr = from
           /\ Calls <=> holders # {}
           /\ \A t \in holders : copy = EntryOf(t)

\* As long as the unassigned bytes of its descriptions agree, a codec has one
\* device at most that is present, and codecs[] points to it once it is
\* created: the DPC does not serve a device that went while one is there.
PointersFollow ==
    \A i \in DOMAIN children :
       LET c == children[i]
       IN  c.present /\ ~Mixed(c.addr) =>
              /\ \A j \in DOMAIN children : children[j].present /\ children[j].addr = c.addr => j = i
              /\ c.dev = "created" => codecs[c.addr] = i

\* Once EjectGraphicsCodec has returned, no device of the graphics codec stays
\* present, also when it had been enumerated again and the new device was not
\* created yet.  The one ejection that is dropped, because codecs[] names no
\* device (sgpc.cpp:100), is one of the first device the codec ever had:
\* GraphicsCodecConnected still says so, and no ejection of a later device is
\* dropped.  All this if the unassigned bytes agree and the context read was not
\* a deleted one.
GoneWhenEjected ==
    eject = "idle" /\ ~inF0 /\ ~badRead /\ ~Mixed(Gfx) =>
       LET ofGfx == {i \in DOMAIN children : children[i].addr = Gfx}
       IN  \/ \A i \in ofGfx : ~children[i].present
           \/ connected /\ \A i, j \in ofGfx : i = j
=============================================================================
