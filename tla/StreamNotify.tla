---------------------------- MODULE StreamNotify ----------------------------
(***************************************************************************)
(* Whom a stream tells that a buffer is complete: the two tables of the    *)
(* stream, registeredCallbacks and registeredEvents, the operations of     *)
(* hdaudio.cpp that fill and empty them, and the part of hda_dpc           *)
(* (hdac_controller.cpp) that goes through them.                           *)
(*                                                                         *)
(* No lock protects the tables.  The driver that owns the stream makes one *)
(* call at a time; the DPC runs on another processor.  Every store into a  *)
(* callback's entry and every load from it is a step of its own, and as    *)
(* they are plain accesses they may take effect in any order between the   *)
(* test or the interlocked operation before and after them.  InterruptPath *)
(* says how irqReceived gets to the DPC.                                   *)
(***************************************************************************)
EXTENDS Integers, FiniteSets

CONSTANTS
    MaxNotif,   \* MAX_NOTIF_EVENTS
    Regs,       \* registrations a client makes: [Fdo, cb, ctx]
    Events,     \* event objects it registers
    MaxDone,    \* bound: buffers completed
    NULL

ASSUME TableAssumption == MaxNotif \in Nat \ {0} /\ MaxDone \in Nat
ASSUME RegAssumption ==
    \A r \in Regs : r = [Fdo |-> r.Fdo, cb |-> r.cb, ctx |-> r.ctx]
                    /\ NULL \notin {r.Fdo, r.cb}
ASSUME NullAssumption == NULL \notin Events /\ IsFiniteSet(Regs)

Slots == 0 .. MaxNotif - 1
Fields == {"InUse", "cb", "ctx"} \* what the DPC reads; Fdo is stored with InUse
Fdos == {r.Fdo : r \in Regs}
EmptyEntry == [InUse |-> FALSE, Fdo |-> NULL, cb |-> NULL, ctx |-> NULL]
EntryOf(r) == [InUse |-> TRUE, Fdo |-> r.Fdo, cb |-> r.cb, ctx |-> r.ctx]
Entries == {EntryOf(r) : r \in Regs} \cup {EmptyEntry}

VARIABLES
    registeredCallbacks, \* [Slots -> [InUse, Fdo, NotificationCallback, CallbackContext]]
    registeredEvents,    \* [Slots -> Events or NULL]
    ReferenceCount,      \* [Fdos -> Fdo->ReferenceCount, less the others' references]
    op, arg, at, todo,   \* the call: what it does, to which registration, the
                         \* entry it changes and the fields it has still to store
    irqReceived,         \* stream->irqReceived
    dpc, j,              \* where the DPC is, its loop index
    toLoad, loaded,      \* fields it has still to load, what it loaded
    \* history
    done,                \* buffers completed
    inForce, set,        \* registrations and events the client may rely on
    owed, owedEvents,    \* those not notified since the last completion
    changed,             \* the entry at j changed since the DPC came to it
    amiss,               \* an unregistration hit another entry than its own
    halted               \* the system stopped: "no", or the null pointer used

tableVars == <<registeredCallbacks, registeredEvents, ReferenceCount>>
callVars == <<op, arg, at, todo>>
dpcVars == <<dpc, j, toLoad, loaded>>
vars == <<tableVars, callVars, irqReceived, dpcVars, done, inForce, set, owed,
          owedEvents, changed, amiss, halted>>

Init ==
    /\ registeredCallbacks = [i \in Slots |-> EmptyEntry]
    /\ registeredEvents = [i \in Slots |-> NULL]
    /\ ReferenceCount = [f \in Fdos |-> 0]
    /\ op = "idle" /\ arg = EmptyEntry /\ at = 0 /\ todo = {}
    /\ irqReceived = FALSE
    /\ dpc = "idle" /\ j = 0 /\ toLoad = {} /\ loaded = [cb |-> NULL, ctx |-> NULL]
    /\ done = 0 /\ inForce = {} /\ set = {} /\ owed = {} /\ owedEvents = {}
    /\ changed = FALSE /\ amiss = FALSE /\ halted = "no"

\* The entry at which a loop over the table stops, for those of S.
First(S, i) == i \in S /\ \A k \in S : i <= k
-----------------------------------------------------------------------------
(* HDA_RegisterNotificationCallback and HDA_UnregisterNotificationCallback. *)

Unused(i) == ~registeredCallbacks[i].InUse

\* The first entry not in use; STATUS_INSUFFICIENT_RESOURCES, and nothing
\* happens, when there is none.
Register(r) ==
    /\ op = "idle" /\ r \notin inForce
    /\ \E i \in Slots : First({k \in Slots : Unused(k)}, i) /\ at' = i
    /\ op' = "register" /\ arg' = EntryOf(r) /\ todo' = Fields
    /\ changed' = (changed \/ at' = j)
    /\ UNCHANGED <<tableVars, irqReceived, dpcVars, done, inForce, set, owed, owedEvents,
                   amiss, halted>>

\* InUse, Fdo, NotificationCallback, CallbackContext, or the RtlZeroMemory.
Store(f) ==
    /\ op \in {"register", "zero"} /\ f \in todo
    /\ LET e == registeredCallbacks[at]
       IN  registeredCallbacks' = [registeredCallbacks EXCEPT ![at] =
              [e EXCEPT ![f] = arg[f], !.Fdo = IF f = "InUse" THEN arg.Fdo ELSE e.Fdo]]
    /\ todo' = todo \ {f}
    /\ UNCHANGED <<registeredEvents, ReferenceCount, op, arg, at, irqReceived, dpcVars,
                   done, inForce, set, owed, owedEvents, changed, amiss, halted>>

\* Mutant of Registered: the driver's device object is not referenced.
Registered_NoReference ==
    /\ op = "register" /\ todo = {}
    /\ inForce' = inForce \cup {r \in Regs : EntryOf(r) = arg}
    /\ op' = "idle" /\ arg' = EmptyEntry /\ at' = 0
    /\ UNCHANGED <<tableVars, todo, irqReceived, dpcVars, done, set, owed, owedEvents,
                   changed, amiss, halted>>

\* InterlockedIncrement(&Fdo->ReferenceCount), STATUS_SUCCESS.
Registered ==
    /\ op = "register" /\ todo = {}
    /\ ReferenceCount' = [ReferenceCount EXCEPT ![arg.Fdo] = @ + 1]
    /\ inForce' = inForce \cup {r \in Regs : EntryOf(r) = arg}
    /\ op' = "idle" /\ arg' = EmptyEntry /\ at' = 0
    /\ UNCHANGED <<registeredCallbacks, registeredEvents, todo, irqReceived, dpcVars,
                   done, set, owed, owedEvents, changed, amiss, halted>>

\* What the loop does not skip: `InUse && NotificationCallback != ... &&
\* CallbackContext != ...' leaves out neither a free entry nor one that
\* shares the callback or the context.
Taken(r, i) ==
    LET e == registeredCallbacks[i]
    IN  ~(e.InUse /\ e.cb # r.cb /\ e.ctx # r.ctx)

\* Mutant of Unregister: the entry's reference is not given back.
Unregister_KeepsReference(r) ==
    /\ op = "idle" /\ r \in inForce
    /\ inForce' = inForce \ {r} /\ owed' = owed \ {r}
    /\ \E i \in Slots : First({k \in Slots : Taken(r, k)}, i) /\ at' = i
    /\ LET e == registeredCallbacks[at']
       IN  /\ amiss' = (amiss \/ e # EntryOf(r))
           /\ IF e.Fdo = NULL
                THEN halted' = "Fdo" /\ UNCHANGED <<ReferenceCount, op, todo>>
                ELSE op' = "zero" /\ todo' = Fields /\ UNCHANGED <<ReferenceCount, halted>>
    /\ arg' = EmptyEntry /\ changed' = (changed \/ at' = j)
    /\ UNCHANGED <<registeredCallbacks, registeredEvents, irqReceived, dpcVars, done, set,
                   owedEvents>>

\* The first entry taken: InterlockedDecrement(&Fdo->ReferenceCount) through
\* the entry's Fdo, which is null in a free one, then RtlZeroMemory.
Unregister(r) ==
    /\ op = "idle" /\ r \in inForce
    /\ inForce' = inForce \ {r} /\ owed' = owed \ {r}
    /\ \E i \in Slots : First({k \in Slots : Taken(r, k)}, i) /\ at' = i
    /\ LET e == registeredCallbacks[at']
       IN  /\ amiss' = (amiss \/ e # EntryOf(r))
           /\ IF e.Fdo = NULL
                THEN halted' = "Fdo" /\ UNCHANGED <<ReferenceCount, op, todo>>
                ELSE /\ ReferenceCount' = [ReferenceCount EXCEPT ![e.Fdo] = @ - 1]
                     /\ op' = "zero" /\ todo' = Fields /\ UNCHANGED halted
    /\ arg' = EmptyEntry /\ changed' = (changed \/ at' = j)
    /\ UNCHANGED <<registeredCallbacks, registeredEvents, irqReceived, dpcVars, done, set,
                   owedEvents>>

\* STATUS_INVALID_PARAMETER: every entry is another's, this one's is gone.
UnregisterNone(r) ==
    /\ op = "idle" /\ r \in inForce /\ \A i \in Slots : ~Taken(r, i)
    /\ inForce' = inForce \ {r} /\ owed' = owed \ {r}
    /\ UNCHANGED <<tableVars, callVars, irqReceived, dpcVars, done, set, owedEvents,
                   changed, amiss, halted>>

Unregistered ==
    /\ op = "zero" /\ todo = {}
    /\ op' = "idle" /\ at' = 0
    /\ UNCHANGED <<tableVars, arg, todo, irqReceived, dpcVars, done, inForce, set, owed,
                   owedEvents, changed, amiss, halted>>

Client ==
    \/ \E r \in Regs : Register(r) \/ Unregister(r) \/ UnregisterNone(r)
    \/ Registered \/ Unregistered \/ \E f \in Fields : Store(f)
-----------------------------------------------------------------------------
(* HDA_RegisterNotificationEvent and HDA_UnregisterNotificationEvent: one   *)
(* store each.                                                             *)

RegisterEvent(e) ==
    /\ op = "idle" /\ e \notin set
    /\ \E i \in Slots :
          /\ First({k \in Slots : registeredEvents[k] = NULL}, i)
          /\ registeredEvents' = [registeredEvents EXCEPT ![i] = e]
    /\ set' = set \cup {e}
    /\ UNCHANGED <<registeredCallbacks, ReferenceCount, callVars, irqReceived, dpcVars,
                   done, inForce, owed, owedEvents, changed, amiss, halted>>

UnregisterEvent(e) ==
    /\ op = "idle" /\ e \in set
    /\ \E i \in Slots :
          /\ First({k \in Slots : registeredEvents[k] = e}, i)
          /\ registeredEvents' = [registeredEvents EXCEPT ![i] = NULL]
          /\ changed' = (changed \/ i = j)
    /\ set' = set \ {e} /\ owedEvents' = owedEvents \ {e}
    /\ UNCHANGED <<registeredCallbacks, ReferenceCount, callVars, irqReceived, dpcVars,
                   done, inForce, owed, amiss, halted>>
-----------------------------------------------------------------------------
(* The ISR and the DPC. *)

\* A buffer completes: stream->irqReceived = TRUE, and the DPC is queued.
Complete ==
    /\ done < MaxDone /\ done' = done + 1
    /\ irqReceived' = TRUE /\ owed' = inForce /\ owedEvents' = set
    /\ UNCHANGED <<tableVars, callVars, dpcVars, inForce, set, changed, amiss, halted>>

\* if (stream->irqReceived) stream->irqReceived = FALSE
DpcTake ==
    /\ dpc = "idle" /\ irqReceived
    /\ irqReceived' = FALSE /\ dpc' = "callbacks"
    /\ UNCHANGED <<tableVars, callVars, j, toLoad, loaded, done, inForce, set, owed,
                   owedEvents, changed, amiss, halted>>

\* `if (registeredCallbacks[j].InUse)'
DpcTest ==
    /\ dpc = "callbacks" /\ j < MaxNotif
    /\ IF registeredCallbacks[j].InUse
         THEN /\ dpc' = "load" /\ toLoad' = {"cb", "ctx"} /\ UNCHANGED j
              /\ changed' = (op # "idle" /\ at = j)
         ELSE j' = j + 1 /\ UNCHANGED <<dpc, toLoad, changed>>
    /\ UNCHANGED <<tableVars, callVars, irqReceived, loaded, done, inForce, set, owed,
                   owedEvents, amiss, halted>>

\* Mutant of DpcLoad: the context of the first entry.
DpcLoad_FirstContext(f) ==
    /\ dpc = "load" /\ f \in toLoad
    /\ loaded' = [loaded EXCEPT ![f] = registeredCallbacks[IF f = "ctx" THEN 0 ELSE j][f]]
    /\ toLoad' = toLoad \ {f}
    /\ UNCHANGED <<tableVars, callVars, irqReceived, dpc, j, done, inForce, set, owed,
                   owedEvents, changed, amiss, halted>>

\* The callback and its context, in either order.
DpcLoad(f) ==
    /\ dpc = "load" /\ f \in toLoad
    /\ loaded' = [loaded EXCEPT ![f] = registeredCallbacks[j][f]]
    /\ toLoad' = toLoad \ {f}
    /\ UNCHANGED <<tableVars, callVars, irqReceived, dpc, j, done, inForce, set, owed,
                   owedEvents, changed, amiss, halted>>

\* NotificationCallback(CallbackContext, ...)
DpcCall ==
    /\ dpc = "load" /\ toLoad = {}
    /\ IF loaded.cb = NULL
         THEN halted' = "callback" /\ UNCHANGED <<owed, dpc, j, loaded, changed>>
         ELSE /\ owed' = {r \in owed : r.cb # loaded.cb \/ r.ctx # loaded.ctx}
              /\ dpc' = "callbacks" /\ j' = j + 1 /\ UNCHANGED halted
              /\ loaded' = [cb |-> NULL, ctx |-> NULL] /\ changed' = FALSE
    /\ UNCHANGED <<tableVars, callVars, irqReceived, toLoad, done, inForce, set,
                   owedEvents, amiss>>

DpcEvents ==
    /\ dpc = "callbacks" /\ j = MaxNotif
    /\ dpc' = "events" /\ j' = 0
    /\ UNCHANGED <<tableVars, callVars, irqReceived, toLoad, loaded, done, inForce, set,
                   owed, owedEvents, changed, amiss, halted>>

\* `if (registeredEvents[j])'
DpcTestEvent ==
    /\ dpc = "events" /\ j < MaxNotif
    /\ IF registeredEvents[j] # NULL
         THEN dpc' = "set" /\ loaded' = [loaded EXCEPT !.cb = registeredEvents[j]]
              /\ changed' = FALSE /\ UNCHANGED j
         ELSE j' = j + 1 /\ UNCHANGED <<dpc, loaded, changed>>
    /\ UNCHANGED <<tableVars, callVars, irqReceived, toLoad, done, inForce, set, owed,
                   owedEvents, amiss, halted>>

\* KeSetEvent(registeredEvents[j]): loaded again, or kept from the test.
DpcSetEvent ==
    /\ dpc = "set"
    /\ \E e \in {registeredEvents[j], loaded.cb} :
          IF e = NULL
            THEN halted' = "event" /\ UNCHANGED <<owedEvents, dpc, j, loaded, changed>>
            ELSE /\ owedEvents' = owedEvents \ {e}
                 /\ dpc' = "events" /\ j' = j + 1 /\ UNCHANGED halted
                 /\ loaded' = [loaded EXCEPT !.cb = NULL] /\ changed' = FALSE
    /\ UNCHANGED <<tableVars, callVars, irqReceived, toLoad, done, inForce, set, owed, amiss>>

\* Mutant of DpcDone: irqReceived is cleared when everyone was notified.
DpcDone_ClearsFlag ==
    /\ dpc = "events" /\ j = MaxNotif
    /\ dpc' = "idle" /\ j' = 0 /\ irqReceived' = FALSE
    /\ UNCHANGED <<tableVars, callVars, toLoad, loaded, done, inForce, set,
                   owed, owedEvents, changed, amiss, halted>>

DpcDone ==
    /\ dpc = "events" /\ j = MaxNotif
    /\ dpc' = "idle" /\ j' = 0
    /\ UNCHANGED <<tableVars, callVars, irqReceived, toLoad, loaded, done, inForce, set,
                   owed, owedEvents, changed, amiss, halted>>

Dpc ==
    \/ DpcTake \/ DpcTest \/ DpcCall \/ DpcEvents \/ DpcTestEvent \/ DpcSetEvent \/ DpcDone
    \/ \E f \in {"cb", "ctx"} : DpcLoad(f)
-----------------------------------------------------------------------------
(* A null pointer used in the DPC or under the client stops the system. *)

Halted == halted # "no" /\ UNCHANGED vars

Run ==
    \/ Client
    \/ \E e \in Events : RegisterEvent(e) \/ UnregisterEvent(e)
    \/ Complete
    \/ Dpc

Next == (halted = "no" /\ Run) \/ Halted

Spec == Init /\ [][Next]_vars

\* A queued DPC runs, and no lock it takes is held for ever; the client owes
\* nothing.
FairSpec == Spec /\ WF_vars(halted = "no" /\ Dpc)
-----------------------------------------------------------------------------
TypeOK ==
    /\ registeredCallbacks \in [Slots -> [InUse : BOOLEAN, Fdo : Fdos \cup {NULL},
                                        cb : {r.cb : r \in Regs} \cup {NULL},
                                        ctx : {r.ctx : r \in Regs} \cup {NULL}]]
    /\ registeredEvents \in [Slots -> Events \cup {NULL}]
    /\ ReferenceCount \in [Fdos -> Nat]
    /\ op \in {"idle", "register", "zero"} /\ arg \in Entries
    /\ at \in Slots /\ todo \subseteq Fields /\ irqReceived \in BOOLEAN
    /\ dpc \in {"idle", "callbacks", "load", "events", "set"}
    /\ j \in 0 .. MaxNotif /\ toLoad \subseteq {"cb", "ctx"} /\ done \in 0 .. MaxDone
    /\ inForce \subseteq Regs /\ owed \subseteq inForce
    /\ set \subseteq Events /\ owedEvents \subseteq set
    /\ changed \in BOOLEAN /\ amiss \in BOOLEAN
    /\ halted \in {"no", "Fdo", "callback", "event"}

\* What the DPC calls is a registration the client has in force, the callback
\* with its own context, and what it sets is an event in force, unless a call
\* of the client was at work on that very entry since the DPC tested it: only
\* then can it call with half an entry, a registration just removed, or stop
\* the system with a null pointer.
CallsAreWhole ==
    ~changed /\ ~amiss =>
        /\ dpc = "load" /\ toLoad = {} =>
              \E r \in inForce : loaded = [cb |-> r.cb, ctx |-> r.ctx]
        /\ dpc = "set" => loaded.cb = registeredEvents[j] /\ loaded.cb \in set
        /\ halted = "no"

\* Between two calls of the client the table holds each registration in force
\* once and nothing else, and each driver's object has one reference per
\* registration: until an unregistration takes another entry than its own.
RegistrationsKept ==
    op = "idle" /\ ~amiss =>
        /\ \A r \in inForce : Cardinality({i \in Slots : registeredCallbacks[i] = EntryOf(r)}) = 1
        /\ \A i \in Slots : registeredCallbacks[i] \in {EntryOf(r) : r \in inForce} \cup {EmptyEntry}
        /\ \A f \in Fdos : ReferenceCount[f] = Cardinality({r \in inForce : r.Fdo = f})
        /\ \A e \in set : Cardinality({i \in Slots : registeredEvents[i] = e}) = 1

\* Every registration in force when a buffer completes is called after it, and
\* every event set, unless it is unregistered first, wherever the DPC was in
\* its loops when the buffer completed: irqReceived is cleared before them.
OwedAreCalled ==
    /\ \A r \in Regs : r \in owed ~> r \notin owed \/ amiss \/ halted # "no"
    /\ \A e \in Events : e \in owedEvents ~> e \notin owedEvents \/ halted # "no"
=============================================================================
