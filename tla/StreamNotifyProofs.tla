-------------------------- MODULE StreamNotifyProofs --------------------------
(***************************************************************************)
(* Theorems about StreamNotify, for tables of any length, any              *)
(* registrations and events, and any number of buffers completed.          *)
(*                                                                         *)
(* An entry is settled when no call of the client is at work on it.  What  *)
(* is settled is whole (TabInv), counted by its driver's object (RefInv)   *)
(* and in force as long as no unregistration went amiss (ForceInv); WorkInv *)
(* follows the stores of a call, EventInv the events, and DpcInv says what *)
(* the DPC knows of the entry it is at.                                    *)
(***************************************************************************)
EXTENDS StreamNotify, FiniteSetTheorems, TLAPS

Settled(i) == op = "idle" \/ i # at

\* A settled entry is empty or holds one registration.
TabInv == \A i \in Slots : Settled(i) => registeredCallbacks[i] \in Entries

\* A call fills an entry with a registration that is not in force yet or
\* empties one, and has done so for the fields it has not to store any more.
WorkInv ==
    /\ op = "idle" => todo = {}
    /\ op = "register" => \E r \in Regs \ inForce : arg = EntryOf(r)
    /\ op = "zero" => arg = EmptyEntry
    /\ op # "idle" =>
          /\ \A f \in Fields \ todo : registeredCallbacks[at][f] = arg[f]
          /\ "InUse" \notin todo => registeredCallbacks[at].Fdo = arg.Fdo

Holding(f) == {i \in Slots : Settled(i) /\ registeredCallbacks[i].Fdo = f}
InForceOf(f) == {r \in inForce : r.Fdo = f}

\* A driver's object has a reference for each settled entry of its.
RefInv == \A f \in Fdos : ReferenceCount[f] = Cardinality(Holding(f))

\* Entry i, and no other, is settled and holds r.
Holds(i, r) ==
    /\ Settled(i) /\ registeredCallbacks[i] = EntryOf(r)
    /\ \A k \in Slots : Settled(k) /\ registeredCallbacks[k] = EntryOf(r) => k = i

\* The settled entries that are not empty are the registrations in force.
ForceInv ==
    ~amiss =>
        /\ \A r \in inForce : \E i \in Slots : Holds(i, r)
        /\ \A i \in Slots : Settled(i) =>
              \/ registeredCallbacks[i] = EmptyEntry
              \/ \E r \in inForce : registeredCallbacks[i] = EntryOf(r)
        /\ \A f \in Fdos : ReferenceCount[f] = Cardinality(InForceOf(f))

\* The events in the table are those the client has set, each once.
EventInv ==
    /\ \A e \in set : \E i \in Slots :
          registeredEvents[i] = e /\ \A k \in Slots : registeredEvents[k] = e => k = i
    /\ \A i \in Slots : registeredEvents[i] \in set \cup {NULL}

\* Unless the entry it is at changed, the DPC has loaded what is in it.
DpcInv ==
    /\ loaded \in [cb : {r.cb : r \in Regs} \cup Events \cup {NULL},
                   ctx : {r.ctx : r \in Regs} \cup {NULL}]
    /\ dpc \in {"load", "set"} => j \in Slots
    /\ ~changed /\ ~amiss =>
          /\ halted = "no"
          /\ dpc = "load" =>
                /\ Settled(j) /\ registeredCallbacks[j].InUse
                /\ \A f \in {"cb", "ctx"} \ toLoad : loaded[f] = registeredCallbacks[j][f]
          /\ dpc = "set" => loaded.cb = registeredEvents[j] /\ loaded.cb # NULL
-----------------------------------------------------------------------------
(* Entries and registrations. *)

Entry == [InUse : BOOLEAN, Fdo : Fdos \cup {NULL}, cb : {r.cb : r \in Regs} \cup {NULL},
          ctx : {r.ctx : r \in Regs} \cup {NULL}]

\* A registration is read back from its entry, which is in use and is not the
\* empty one.
LEMMA EntryFacts ==
  /\ \A r \in Regs : EntryOf(r) \in Entry /\ EntryOf(r).InUse /\ EntryOf(r) # EmptyEntry
                     /\ EntryOf(r).Fdo \in Fdos /\ EntryOf(r).Fdo # NULL
  /\ \A r, s \in Regs : EntryOf(r) = EntryOf(s) => r = s
  /\ EmptyEntry \in Entry /\ ~EmptyEntry.InUse /\ EmptyEntry.Fdo = NULL
  /\ NULL \notin Fdos
<1>1. \A r \in Regs : EntryOf(r) \in Entry /\ EntryOf(r).InUse /\ EntryOf(r) # EmptyEntry
                      /\ EntryOf(r).Fdo \in Fdos /\ EntryOf(r).Fdo # NULL
  BY RegAssumption DEF EntryOf, EmptyEntry, Entry, Fdos
<1>2. \A r, s \in Regs : EntryOf(r) = EntryOf(s) => r = s
  BY RegAssumption DEF EntryOf
<1>3. EmptyEntry \in Entry /\ ~EmptyEntry.InUse /\ EmptyEntry.Fdo = NULL
  BY DEF EmptyEntry, Entry
<1>4. NULL \notin Fdos
  BY RegAssumption DEF Fdos
<1> QED
  BY <1>1, <1>2, <1>3, <1>4

\* Two entries are the same when their fields are.
LEMMA EntryEqual ==
  ASSUME NEW x \in Entry, NEW y \in Entry, x.Fdo = y.Fdo,
         \A f \in Fields : x[f] = y[f]
  PROVE x = y
BY DEF Entry, Fields
-----------------------------------------------------------------------------
(* What a call does to the table. *)

\* Nothing but these steps changes the table, the call or who is in force.
LEMMA TableSteps ==
  ASSUME [Next]_vars
  PROVE \/ \E r \in Regs : Register(r) \/ Unregister(r) \/ UnregisterNone(r)
        \/ Registered \/ Unregistered \/ \E f \in Fields : Store(f)
        \/ UNCHANGED <<registeredCallbacks, ReferenceCount, callVars, inForce, amiss>>
BY DEF Next, Run, Halted, Client, RegisterEvent, UnregisterEvent, Complete, Dpc, DpcTake,
       DpcTest, DpcLoad, DpcCall, DpcEvents, DpcTestEvent, DpcSetEvent, DpcDone,
       vars, tableVars, dpcVars

\* What the client is at keeps its type.
LEMMA CallTyped ==
  ASSUME TypeOK, [Next]_vars
  PROVE /\ registeredCallbacks' \in [Slots -> Entry]
        /\ op' \in {"idle", "register", "zero"} /\ arg' \in Entries
        /\ at' \in Slots /\ todo' \subseteq Fields /\ inForce' \subseteq Regs
<1> DEFINE Typed ==
      /\ registeredCallbacks' \in [Slots -> Entry]
      /\ op' \in {"idle", "register", "zero"} /\ arg' \in Entries
      /\ at' \in Slots /\ todo' \subseteq Fields /\ inForce' \subseteq Regs
<1>0. 0 \in Slots /\ EmptyEntry \in Entries /\ \A r \in Regs : EntryOf(r) \in Entries
  BY TableAssumption DEF Slots, Entries
<1>1. registeredCallbacks \in [Slots -> Entry]
  BY DEF TypeOK, Entry
<1>2. ASSUME NEW r \in Regs, Register(r) PROVE Typed
  BY <1>0, <1>1, <1>2 DEF Register, TypeOK, tableVars, First
<1>3. ASSUME NEW r \in Regs, Unregister(r) PROVE Typed
  BY <1>0, <1>1, <1>3 DEF Unregister, TypeOK, First
<1>4. ASSUME NEW r \in Regs, UnregisterNone(r) PROVE Typed
  BY <1>1, <1>4 DEF UnregisterNone, TypeOK, tableVars, callVars
<1>5. CASE Registered
  BY <1>0, <1>1, <1>5 DEF Registered, TypeOK
<1>6. CASE Unregistered
  BY <1>0, <1>1, <1>6 DEF Unregistered, TypeOK, tableVars
<1>7. ASSUME NEW f \in Fields, Store(f) PROVE Typed
  <2>1. arg \in Entry
    BY EntryFacts DEF TypeOK, Entries
  <2> DEFINE e == registeredCallbacks[at]
  <2>2. [e EXCEPT ![f] = arg[f], !.Fdo = IF f = "InUse" THEN arg.Fdo ELSE e.Fdo] \in Entry
    <3>1. CASE f = "InUse"
      BY <1>1, <2>1, <3>1 DEF TypeOK, Entry
    <3>2. CASE f = "cb"
      BY <1>1, <2>1, <3>2 DEF TypeOK, Entry
    <3>3. CASE f = "ctx"
      BY <1>1, <2>1, <3>3 DEF TypeOK, Entry
    <3> QED
      BY <3>1, <3>2, <3>3 DEF Fields
  <2>3. registeredCallbacks' \in [Slots -> Entry]
    BY <1>1, <1>7, <2>2 DEF Store
  <2> QED
    BY <1>7, <2>3 DEF Store, TypeOK
<1>8. CASE UNCHANGED <<registeredCallbacks, ReferenceCount, callVars, inForce, amiss>>
  BY <1>1, <1>8 DEF TypeOK, callVars
<1> QED
  BY <1>2, <1>3, <1>4, <1>5, <1>6, <1>7, <1>8, TableSteps

\* A call that has no more to store has made its entry what it meant to.
LEMMA WorkDone ==
  ASSUME TypeOK, WorkInv, op # "idle", todo = {}
  PROVE registeredCallbacks[at] = arg
<1>1. registeredCallbacks[at] \in Entry /\ arg \in Entry
  BY EntryFacts DEF TypeOK, Entry, Entries
<1> QED
  BY <1>1, EntryEqual DEF WorkInv

LEMMA WorkKept ==
  ASSUME TypeOK, WorkInv, [Next]_vars
  PROVE WorkInv'
<1> USE DEF TypeOK, WorkInv
<1>1. ASSUME NEW r \in Regs, Register(r) PROVE WorkInv'
  <2>1. op' = "register" /\ arg' = EntryOf(r) /\ todo' = Fields /\ inForce' = inForce
        /\ r \notin inForce
    BY <1>1 DEF Register
  <2>2. op' # "idle" /\ op' # "zero" /\ Fields \ todo' = {} /\ "InUse" \in todo'
    BY <2>1 DEF Fields
  <2> QED
    BY <2>1, <2>2
<1>2. ASSUME NEW r \in Regs, Unregister(r) PROVE WorkInv'
  <2>1. \/ op' = "idle" /\ todo' = {}
        \/ op' = "zero" /\ arg' = EmptyEntry /\ todo' = Fields
    BY <1>2 DEF Unregister
  <2> QED
    BY <2>1 DEF Fields
<1>3. ASSUME NEW r \in Regs, UnregisterNone(r) PROVE WorkInv'
  <2>1. op' = "idle" /\ todo' = {}
    BY <1>3 DEF UnregisterNone, callVars
  <2> QED
    BY <2>1
<1>4. CASE Registered \/ Unregistered
  BY <1>4 DEF Registered, Unregistered
<1>5. ASSUME NEW f \in Fields, Store(f) PROVE WorkInv'
  <2> DEFINE e == registeredCallbacks[at]
  <2>1. registeredCallbacks'[at] =
          [e EXCEPT ![f] = arg[f], !.Fdo = IF f = "InUse" THEN arg.Fdo ELSE e.Fdo]
    BY <1>5 DEF Store
  <2>2. registeredCallbacks[at] \in Entry
    BY DEF Entry
  <2>3. /\ registeredCallbacks'[at][f] = arg[f]
        /\ \A g \in Fields \ {f} : registeredCallbacks'[at][g] = registeredCallbacks[at][g]
        /\ registeredCallbacks'[at].Fdo =
              IF f = "InUse" THEN arg.Fdo ELSE registeredCallbacks[at].Fdo
    <3>1. CASE f = "InUse"
      BY <2>1, <2>2, <3>1 DEF Entry, Fields
    <3>2. CASE f = "cb"
      BY <2>1, <2>2, <3>2 DEF Entry, Fields
    <3>3. CASE f = "ctx"
      BY <2>1, <2>2, <3>3 DEF Entry, Fields
    <3> QED
      BY <3>1, <3>2, <3>3 DEF Fields
  <2> QED
    BY <1>5, <2>3 DEF Store
<1>6. CASE UNCHANGED <<registeredCallbacks, ReferenceCount, callVars, inForce, amiss>>
  BY <1>6 DEF callVars
<1> QED
  BY <1>1, <1>2, <1>3, <1>4, <1>5, <1>6, TableSteps

LEMMA TabKept ==
  ASSUME TypeOK, TabInv, WorkInv, [Next]_vars
  PROVE TabInv'
<1> USE DEF TypeOK, TabInv, Settled
<1>1. ASSUME NEW r \in Regs, Register(r) \/ Unregister(r) \/ UnregisterNone(r) PROVE TabInv'
  BY <1>1 DEF Register, Unregister, UnregisterNone, tableVars, callVars
<1>2. CASE Registered \/ Unregistered
  BY <1>2, WorkDone DEF Registered, Unregistered, tableVars
<1>3. ASSUME NEW f \in Fields, Store(f) PROVE TabInv'
  BY <1>3 DEF Store
<1>4. CASE UNCHANGED <<registeredCallbacks, ReferenceCount, callVars, inForce, amiss>>
  BY <1>4 DEF callVars
<1> QED
  BY <1>1, <1>2, <1>3, <1>4, TableSteps
-----------------------------------------------------------------------------
(* References. *)

LEMMA Finite ==
  ASSUME NEW f
  PROVE /\ IsFiniteSet(Holding(f)) /\ Cardinality(Holding(f)) \in Nat
        /\ inForce \subseteq Regs => IsFiniteSet(InForceOf(f))
                                     /\ Cardinality(InForceOf(f)) \in Nat
<1>1. IsFiniteSet(Slots)
  BY FS_Interval, TableAssumption DEF Slots
<1>2. Holding(f) \in SUBSET Slots
  BY DEF Holding
<1>3. IsFiniteSet(Holding(f))
  BY <1>1, <1>2, FS_Subset
<1>4. inForce \subseteq Regs => InForceOf(f) \in SUBSET Regs
  BY DEF InForceOf
<1>5. inForce \subseteq Regs => IsFiniteSet(InForceOf(f))
  BY <1>4, FS_Subset, NullAssumption
<1> QED
  BY <1>3, <1>5, FS_CardinalityType

\* What Unregister comes to: an empty entry and a stop, or one that holds a
\* registration, whose driver gives a reference back.
LEMMA UnregisterHits ==
  ASSUME TypeOK, TabInv, NEW r \in Regs, Unregister(r)
  PROVE \E i \in Slots :
          /\ at' = i
          /\ amiss' = (amiss \/ registeredCallbacks[i] # EntryOf(r))
          /\ \/ /\ registeredCallbacks[i] = EmptyEntry /\ halted' = "Fdo"
                /\ op' = "idle" /\ UNCHANGED ReferenceCount
             \/ /\ \E s \in Regs : registeredCallbacks[i] = EntryOf(s)
                /\ halted' = halted /\ op' = "zero"
                /\ ReferenceCount' = [ReferenceCount EXCEPT
                     ![registeredCallbacks[i].Fdo] = @ - 1]
<1>1. PICK i \in Slots : at' = i
  BY DEF Unregister
<1>2. registeredCallbacks[i] \in Entries
  BY DEF TabInv, Settled, Unregister
<1>3. CASE registeredCallbacks[i] = EmptyEntry
  BY <1>1, <1>3, EntryFacts DEF Unregister
<1>4. CASE \E s \in Regs : registeredCallbacks[i] = EntryOf(s)
  BY <1>1, <1>4, EntryFacts DEF Unregister
<1> QED
  BY <1>2, <1>3, <1>4 DEF Entries

\* What Register comes to: an empty entry is at work.
LEMMA RegisterHits ==
  ASSUME TypeOK, TabInv, NEW r \in Regs, Register(r)
  PROVE at' \in Slots /\ registeredCallbacks[at'] = EmptyEntry
<1>1. PICK i \in Slots : at' = i /\ ~registeredCallbacks[i].InUse
  BY DEF Register, First, Unused
<1>2. registeredCallbacks[i] \in Entries
  BY DEF TabInv, Settled, Register
<1> QED
  BY <1>1, <1>2, EntryFacts DEF Entries

LEMMA RefKept ==
  ASSUME TypeOK, TabInv, WorkInv, RefInv, [Next]_vars
  PROVE RefInv'
<1> USE DEF RefInv
<1>0. registeredCallbacks \in [Slots -> Entry] /\ ReferenceCount \in [Fdos -> Nat]
      /\ at \in Slots
  BY DEF TypeOK, Entry
<1>1. ASSUME ReferenceCount' = ReferenceCount, \A f \in Fdos : Holding(f)' = Holding(f)
      PROVE RefInv'
  BY <1>1
<1>2. ASSUME NEW r \in Regs, Register(r) PROVE RefInv'
  <2>1. registeredCallbacks[at'].Fdo \notin Fdos
    BY <1>2, RegisterHits, EntryFacts
  <2>2. ReferenceCount' = ReferenceCount /\ registeredCallbacks' = registeredCallbacks
        /\ op = "idle" /\ op' # "idle"
    BY <1>2 DEF Register, tableVars
  <2>3. \A f \in Fdos : Holding(f)' = Holding(f)
    BY <2>1, <2>2 DEF Holding, Settled
  <2> QED
    BY <1>1, <2>2, <2>3
<1>3. ASSUME NEW r \in Regs, Unregister(r) PROVE RefInv'
  <2>1. registeredCallbacks' = registeredCallbacks /\ op = "idle"
    BY <1>3 DEF Unregister
  <2>2. CASE op' = "idle" /\ UNCHANGED ReferenceCount
    <3>1. \A f \in Fdos : Holding(f)' = Holding(f)
      BY <2>1, <2>2 DEF Holding, Settled
    <3> QED
      BY <1>1, <2>2, <3>1
  <2>3. ASSUME NEW i \in Slots, at' = i, op' = "zero",
               NEW s \in Regs, registeredCallbacks[i] = EntryOf(s),
               ReferenceCount' = [ReferenceCount EXCEPT ![registeredCallbacks[i].Fdo] = @ - 1]
        PROVE RefInv'
    <3>1. ASSUME NEW f \in Fdos PROVE Holding(f)' = Holding(f) \ {i}
      BY <2>1, <2>3 DEF Holding, Settled
    <3>2. ASSUME NEW f \in Fdos PROVE i \in Holding(f) <=> f = registeredCallbacks[i].Fdo
      BY <2>1 DEF Holding, Settled
    <3>3. ASSUME NEW f \in Fdos
          PROVE Cardinality(Holding(f)') = IF f = registeredCallbacks[i].Fdo
                  THEN Cardinality(Holding(f)) - 1 ELSE Cardinality(Holding(f))
      BY <3>1, <3>2, Finite, FS_RemoveElement
    <3>4. registeredCallbacks[i].Fdo \in Fdos
      BY <2>3, EntryFacts
    <3> QED
      BY <1>0, <2>3, <3>3, <3>4
  <2> QED
    BY <1>3, <2>2, <2>3, UnregisterHits
<1>4. ASSUME NEW r \in Regs, UnregisterNone(r) PROVE RefInv'
  <2>1. UNCHANGED <<ReferenceCount, registeredCallbacks, op, at>>
    BY <1>4 DEF UnregisterNone, tableVars, callVars
  <2>2. \A f \in Fdos : Holding(f)' = Holding(f)
    BY <2>1 DEF Holding, Settled
  <2> QED
    BY <1>1, <2>1, <2>2
<1>5. CASE Registered
  <2>1. registeredCallbacks' = registeredCallbacks /\ op = "register" /\ op' = "idle"
        /\ todo = {} /\ ReferenceCount' = [ReferenceCount EXCEPT ![arg.Fdo] = @ + 1]
    BY <1>5 DEF Registered
  <2>2. registeredCallbacks[at] = arg
    BY <2>1, WorkDone
  <2>3. arg.Fdo \in Fdos
    BY <2>1, EntryFacts DEF WorkInv
  <2>4. ASSUME NEW f \in Fdos
        PROVE at \notin Holding(f)
              /\ Holding(f)' = IF f = arg.Fdo THEN Holding(f) \cup {at} ELSE Holding(f)
    BY <1>0, <2>1, <2>2 DEF Holding, Settled
  <2>5. ASSUME NEW f \in Fdos
        PROVE Cardinality(Holding(f)') = IF f = arg.Fdo
                THEN Cardinality(Holding(f)) + 1 ELSE Cardinality(Holding(f))
    BY <2>4, Finite, FS_AddElement
  <2> QED
    BY <1>0, <2>1, <2>3, <2>5
<1>6. CASE Unregistered
  <2>1. UNCHANGED <<ReferenceCount, registeredCallbacks>> /\ op = "zero" /\ op' = "idle"
        /\ todo = {}
    BY <1>6 DEF Unregistered, tableVars
  <2>2. registeredCallbacks[at].Fdo \notin Fdos
    BY <2>1, WorkDone, EntryFacts DEF WorkInv
  <2>3. \A f \in Fdos : Holding(f)' = Holding(f)
    BY <2>1, <2>2 DEF Holding, Settled
  <2> QED
    BY <1>1, <2>1, <2>3
<1>7. ASSUME NEW g \in Fields, Store(g) PROVE RefInv'
  <2>1. UNCHANGED <<ReferenceCount, op, at>> /\ op # "idle"
        /\ \A i \in Slots \ {at} : registeredCallbacks'[i] = registeredCallbacks[i]
    BY <1>0, <1>7 DEF Store
  <2>2. \A f \in Fdos : Holding(f)' = Holding(f)
    BY <2>1 DEF Holding, Settled
  <2> QED
    BY <1>1, <2>1, <2>2
<1>8. CASE UNCHANGED <<registeredCallbacks, ReferenceCount, callVars, inForce, amiss>>
  <2>1. \A f \in Fdos : Holding(f)' = Holding(f)
    BY <1>8 DEF Holding, Settled, callVars
  <2> QED
    BY <1>1, <1>8, <2>1
<1> QED
  BY <1>2, <1>3, <1>4, <1>5, <1>6, <1>7, <1>8, TableSteps
-----------------------------------------------------------------------------
(* Who is in force. *)

\* The registrations of ForceInv, and the references, one by one.
LEMMA ForceKept ==
  ASSUME TypeOK, TabInv, WorkInv, ForceInv, [Next]_vars
  PROVE ForceInv'
<1>0. registeredCallbacks \in [Slots -> Entry] /\ ReferenceCount \in [Fdos -> Nat]
      /\ at \in Slots /\ inForce \subseteq Regs
  BY DEF TypeOK, Entry
<1>1. ASSUME UNCHANGED <<ReferenceCount, inForce, amiss>>,
             \A i \in Slots : \/ Settled(i)' = Settled(i)
                                 /\ registeredCallbacks'[i] = registeredCallbacks[i]
                              \/ ~Settled(i) /\ Settled(i)'
                                 /\ registeredCallbacks'[i] = EmptyEntry
                              \/ Settled(i) /\ ~Settled(i)'
                                 /\ registeredCallbacks[i] = EmptyEntry
                              \/ ~Settled(i) /\ ~Settled(i)'
      PROVE ForceInv'
  <2> SUFFICES ASSUME ~amiss PROVE ForceInv'
    BY <1>1 DEF ForceInv
  <2>1. ASSUME NEW r \in inForce PROVE \E i \in Slots : Holds(i, r)'
    <3>1. PICK i \in Slots : Holds(i, r)
      BY DEF ForceInv
    <3>2. Holds(i, r)'
      BY <1>0, <1>1, <3>1, EntryFacts DEF Holds
    <3> QED
      BY <3>2
  <2>2. ASSUME NEW i \in Slots, Settled(i)'
        PROVE \/ registeredCallbacks'[i] = EmptyEntry
              \/ \E r \in inForce : registeredCallbacks'[i] = EntryOf(r)
    BY <1>1, <2>2 DEF ForceInv
  <2> QED
    BY <1>1, <2>1, <2>2 DEF ForceInv, InForceOf
<1>2. ASSUME NEW r \in Regs, Register(r) PROVE ForceInv'
  BY <1>1, <1>2, RegisterHits DEF Register, tableVars, Settled
<1>3. ASSUME NEW r \in Regs, Unregister(r) PROVE ForceInv'
  <2> SUFFICES ASSUME ~amiss' PROVE ForceInv'
    BY DEF ForceInv
  <2>1. PICK i \in Slots :
          /\ at' = i /\ ~amiss /\ registeredCallbacks[i] = EntryOf(r)
          /\ op' = "zero"
          /\ ReferenceCount' = [ReferenceCount EXCEPT ![registeredCallbacks[i].Fdo] = @ - 1]
    BY <1>3, UnregisterHits, EntryFacts
  <2>2. registeredCallbacks' = registeredCallbacks /\ op = "idle" /\ inForce' = inForce \ {r}
        /\ r \in inForce
    BY <1>3 DEF Unregister
  <2>3. \A k \in Slots : /\ Settled(k)
                         /\ Settled(k)' <=> k # i
    BY <2>1, <2>2 DEF Settled
  <2>4. \A k \in Slots : registeredCallbacks[k] = EntryOf(r) => k = i
    BY <2>1, <2>2, <2>3 DEF ForceInv, Holds
  <2>5. ASSUME NEW s \in inForce' PROVE \E k \in Slots : Holds(k, s)'
    <3>1. PICK k \in Slots : Holds(k, s)
      BY <2>1, <2>2 DEF ForceInv
    <3>2. k # i
      BY <1>0, <2>1, <2>2, <3>1, EntryFacts DEF Holds
    <3>3. Holds(k, s)'
      BY <2>2, <2>3, <3>1, <3>2 DEF Holds
    <3> QED
      BY <3>3
  <2>6. ASSUME NEW k \in Slots, Settled(k)'
        PROVE \/ registeredCallbacks'[k] = EmptyEntry
              \/ \E s \in inForce' : registeredCallbacks'[k] = EntryOf(s)
    BY <2>1, <2>2, <2>3, <2>4, <2>6 DEF ForceInv
  <2>7. ASSUME NEW f \in Fdos PROVE ReferenceCount'[f] = Cardinality(InForceOf(f)')
    <3>1. InForceOf(f)' = InForceOf(f) \ {r} /\ (r \in InForceOf(f) <=> f = r.Fdo)
      BY <2>2 DEF InForceOf
    <3>2. Cardinality(InForceOf(f)') =
            IF f = r.Fdo THEN Cardinality(InForceOf(f)) - 1 ELSE Cardinality(InForceOf(f))
      BY <1>0, <3>1, Finite, FS_RemoveElement
    <3>3. registeredCallbacks[i].Fdo = r.Fdo
      BY <2>1 DEF EntryOf
    <3> QED
      BY <1>0, <2>1, <3>2, <3>3 DEF ForceInv
  <2> QED
    BY <2>5, <2>6, <2>7 DEF ForceInv
<1>4. ASSUME NEW r \in Regs, UnregisterNone(r) PROVE ForceInv'
  <2> SUFFICES ASSUME ~amiss PROVE FALSE
    BY <1>4 DEF ForceInv, UnregisterNone
  <2>1. PICK i \in Slots : registeredCallbacks[i] = EntryOf(r)
    BY <1>4 DEF UnregisterNone, ForceInv, Holds
  <2>2. Taken(r, i)
    BY <2>1 DEF Taken, EntryOf
  <2> QED
    BY <1>4, <2>2 DEF UnregisterNone
<1>5. CASE Registered
  <2> SUFFICES ASSUME ~amiss PROVE ForceInv'
    BY <1>5 DEF ForceInv, Registered
  <2>1. registeredCallbacks' = registeredCallbacks /\ op = "register" /\ op' = "idle"
        /\ todo = {} /\ ReferenceCount' = [ReferenceCount EXCEPT ![arg.Fdo] = @ + 1]
    BY <1>5 DEF Registered
  <2>2. PICK r \in Regs \ inForce : arg = EntryOf(r)
    BY <2>1 DEF WorkInv
  <2>3. registeredCallbacks[at] = EntryOf(r)
    BY <2>1, <2>2, WorkDone
  <2>4. inForce' = inForce \cup {r}
    BY <1>0, <1>5, <2>2, EntryFacts DEF Registered
  <2>5. \A k \in Slots : /\ Settled(k)'
                         /\ Settled(k) <=> k # at
    BY <2>1 DEF Settled
  <2>6. \A k \in Slots : registeredCallbacks[k] = EntryOf(r) => k = at
    BY <1>0, <2>2, <2>5, EntryFacts DEF ForceInv
  <2>7. ASSUME NEW s \in inForce' PROVE \E k \in Slots : Holds(k, s)'
    <3>1. CASE s = r
      BY <1>0, <2>1, <2>3, <2>5, <2>6, <3>1 DEF Holds
    <3>2. CASE s \in inForce
      <4>1. PICK k \in Slots : Holds(k, s)
        BY <3>2 DEF ForceInv
      <4>2. registeredCallbacks[at] # EntryOf(s)
        BY <1>0, <2>2, <2>3, <3>2, EntryFacts
      <4>3. Holds(k, s)'
        BY <2>1, <2>5, <4>1, <4>2 DEF Holds
      <4> QED
        BY <4>3
    <3> QED
      BY <2>4, <3>1, <3>2
  <2>8. ASSUME NEW k \in Slots
        PROVE \/ registeredCallbacks'[k] = EmptyEntry
              \/ \E s \in inForce' : registeredCallbacks'[k] = EntryOf(s)
    BY <2>1, <2>3, <2>4, <2>5 DEF ForceInv
  <2>9. ASSUME NEW f \in Fdos PROVE ReferenceCount'[f] = Cardinality(InForceOf(f)')
    <3>1. /\ f = r.Fdo => InForceOf(f)' = InForceOf(f) \cup {r}
          /\ f # r.Fdo => InForceOf(f)' = InForceOf(f)
          /\ r \notin InForceOf(f)
      BY <2>2, <2>4 DEF InForceOf
    <3>2. Cardinality(InForceOf(f)') =
            IF f = r.Fdo THEN Cardinality(InForceOf(f)) + 1 ELSE Cardinality(InForceOf(f))
      BY <1>0, <3>1, Finite, FS_AddElement
    <3>3. arg.Fdo = r.Fdo
      BY <2>2 DEF EntryOf
    <3> QED
      BY <1>0, <2>1, <3>2, <3>3 DEF ForceInv
  <2> QED
    BY <2>7, <2>8, <2>9 DEF ForceInv
<1>6. CASE Unregistered
  <2>1. UNCHANGED <<ReferenceCount, registeredCallbacks, inForce, amiss>>
        /\ op = "zero" /\ op' = "idle" /\ todo = {}
    BY <1>6 DEF Unregistered, tableVars
  <2>2. registeredCallbacks[at] = EmptyEntry
    BY <2>1, WorkDone DEF WorkInv
  <2> QED
    BY <1>1, <2>1, <2>2 DEF Settled
<1>7. ASSUME NEW g \in Fields, Store(g) PROVE ForceInv'
  <2>1. UNCHANGED <<ReferenceCount, op, at, inForce, amiss>> /\ op # "idle"
        /\ \A i \in Slots \ {at} : registeredCallbacks'[i] = registeredCallbacks[i]
    BY <1>0, <1>7 DEF Store
  <2> QED
    BY <1>1, <2>1 DEF Settled
<1>8. CASE UNCHANGED <<registeredCallbacks, ReferenceCount, callVars, inForce, amiss>>
  BY <1>1, <1>8 DEF callVars, Settled
<1> QED
  BY <1>2, <1>3, <1>4, <1>5, <1>6, <1>7, <1>8, TableSteps

LEMMA EventKept ==
  ASSUME TypeOK, EventInv, [Next]_vars
  PROVE EventInv'
<1> USE DEF EventInv
<1>0. registeredEvents \in [Slots -> Events \cup {NULL}] /\ set \subseteq Events
      /\ NULL \notin Events
  BY NullAssumption DEF TypeOK
<1>1. ASSUME NEW e \in Events, RegisterEvent(e) PROVE EventInv'
  <2>1. PICK i \in Slots : registeredEvents[i] = NULL
                           /\ registeredEvents' = [registeredEvents EXCEPT ![i] = e]
    BY <1>1 DEF RegisterEvent, First
  <2>2. set' = set \cup {e} /\ e \notin set
    BY <1>1 DEF RegisterEvent
  <2>3. \A k \in Slots \ {i} : registeredEvents'[k] = registeredEvents[k]
    BY <1>0, <2>1
  <2>4. registeredEvents'[i] = e
    BY <1>0, <2>1
  <2>5. ASSUME NEW x \in set'
        PROVE \E k \in Slots : registeredEvents'[k] = x
                               /\ \A l \in Slots : registeredEvents'[l] = x => l = k
    <3>1. CASE x = e
      BY <1>0, <2>2, <2>3, <2>4, <3>1
    <3>2. CASE x \in set
      BY <1>0, <2>1, <2>2, <2>3, <2>4, <3>2
    <3> QED
      BY <2>2, <3>1, <3>2
  <2> QED
    BY <2>2, <2>3, <2>4, <2>5
<1>2. ASSUME NEW e \in Events, UnregisterEvent(e) PROVE EventInv'
  <2>1. PICK i \in Slots : registeredEvents[i] = e
                           /\ registeredEvents' = [registeredEvents EXCEPT ![i] = NULL]
    BY <1>2 DEF UnregisterEvent, First
  <2>2. set' = set \ {e} /\ e \in set
    BY <1>2 DEF UnregisterEvent
  <2>3. \A k \in Slots \ {i} : registeredEvents'[k] = registeredEvents[k]
    BY <1>0, <2>1
  <2>4. registeredEvents'[i] = NULL
    BY <1>0, <2>1
  <2>5. ASSUME NEW x \in set'
        PROVE \E k \in Slots : registeredEvents'[k] = x
                               /\ \A l \in Slots : registeredEvents'[l] = x => l = k
    BY <1>0, <2>1, <2>2, <2>3, <2>4
  <2>6. \A k \in Slots \ {i} : registeredEvents[k] # e
    BY <2>1, <2>2
  <2> QED
    BY <2>2, <2>3, <2>4, <2>5, <2>6
<1>3. CASE UNCHANGED <<registeredEvents, set>>
  BY <1>3
<1> QED
  BY <1>1, <1>2, <1>3
     DEF Next, Run, Halted, Client, Register, Unregister, UnregisterNone, Registered,
         Unregistered, Store, Complete, Dpc, DpcTake, DpcTest, DpcLoad, DpcCall, DpcEvents,
         DpcTestEvent, DpcSetEvent, DpcDone, vars, tableVars
-----------------------------------------------------------------------------
(* What the DPC knows. *)

\* What the client does to a table the DPC is reading: a step at another
\* entry, or one that marks the DPC's entry as changed.
LEMMA ClientDpc ==
  ASSUME TypeOK, TabInv, WorkInv, EventInv, DpcInv, halted = "no",
         Client \/ \E e \in Events : RegisterEvent(e) \/ UnregisterEvent(e)
  PROVE DpcInv'
<1>0. registeredCallbacks \in [Slots -> Entry] /\ at \in Slots /\ NULL \notin Events
      /\ registeredEvents \in [Slots -> Events \cup {NULL}]
  BY NullAssumption DEF TypeOK, Entry
<1>1. UNCHANGED <<dpc, j, toLoad, loaded>>
  BY DEF dpcVars, Client, Register, Unregister, UnregisterNone, Registered, Unregistered, Store,
         RegisterEvent, UnregisterEvent
<1> DEFINE Untouched ==
      ~changed' /\ ~amiss' =>
        /\ ~changed /\ ~amiss /\ halted' = "no"
        /\ dpc = "load" => Settled(j)' /\ registeredCallbacks'[j] = registeredCallbacks[j]
        /\ dpc = "set" => registeredEvents'[j] = registeredEvents[j]
<1>2. SUFFICES Untouched
  BY <1>1 DEF DpcInv
<1>3. ASSUME NEW r \in Regs, Register(r) PROVE Untouched
  <2>1. changed' = (changed \/ at' = j) /\ UNCHANGED <<tableVars, amiss, halted>>
    BY <1>3 DEF Register
  <2> QED
    BY <1>1, <2>1 DEF tableVars, Settled
<1>4. ASSUME NEW r \in Regs, Unregister(r) PROVE Untouched
  <2>1. changed' = (changed \/ at' = j) /\ UNCHANGED <<registeredCallbacks, registeredEvents>>
    BY <1>4 DEF Unregister
  <2>2. ~amiss' => ~amiss /\ halted' = halted
    BY <1>4, UnregisterHits, EntryFacts
  <2> QED
    BY <1>1, <2>1, <2>2 DEF Settled
<1>5. ASSUME NEW r \in Regs, UnregisterNone(r) PROVE Untouched
  BY <1>1, <1>5 DEF UnregisterNone, tableVars, callVars, Settled, DpcInv
<1>6. CASE Registered \/ Unregistered
  BY <1>6 DEF Registered, Unregistered, tableVars, Settled
<1>7. ASSUME NEW g \in Fields, Store(g) PROVE Untouched
  <2>1. UNCHANGED <<registeredEvents, op, at, changed, amiss, halted>> /\ op # "idle"
        /\ \A i \in Slots \ {at} : registeredCallbacks'[i] = registeredCallbacks[i]
    BY <1>0, <1>7 DEF Store
  <2> QED
    BY <1>1, <2>1 DEF DpcInv, Settled
<1>8. ASSUME NEW e \in Events, RegisterEvent(e) PROVE Untouched
  <2>1. PICK i \in Slots : registeredEvents[i] = NULL
                           /\ registeredEvents' = [registeredEvents EXCEPT ![i] = e]
    BY <1>8 DEF RegisterEvent, First
  <2>2. UNCHANGED <<registeredCallbacks, op, at, changed, amiss, halted>>
    BY <1>8 DEF RegisterEvent, callVars
  <2> QED
    BY <1>0, <1>1, <2>1, <2>2 DEF DpcInv, Settled
<1>9. ASSUME NEW e \in Events, UnregisterEvent(e) PROVE Untouched
  <2>1. PICK i \in Slots : changed' = (changed \/ i = j)
                           /\ registeredEvents' = [registeredEvents EXCEPT ![i] = NULL]
    BY <1>9 DEF UnregisterEvent, First
  <2>2. UNCHANGED <<registeredCallbacks, op, at, amiss, halted>>
    BY <1>9 DEF UnregisterEvent, callVars
  <2> QED
    BY <1>0, <1>1, <2>1, <2>2 DEF DpcInv, Settled
<1> QED
  BY <1>3, <1>4, <1>5, <1>6, <1>7, <1>8, <1>9 DEF Client

\* An entry the DPC found in use has a callback.
LEMMA InUseWhole ==
  ASSUME TabInv, NEW i \in Slots, Settled(i), registeredCallbacks[i].InUse
  PROVE \E r \in Regs : registeredCallbacks[i] = EntryOf(r) /\ EntryOf(r).cb # NULL
<1>1. PICK r \in Regs : registeredCallbacks[i] = EntryOf(r)
  BY EntryFacts DEF TabInv, Entries
<1>2. EntryOf(r).cb # NULL
  BY RegAssumption DEF EntryOf
<1> QED
  BY <1>1, <1>2

LEMMA DpcKept ==
  ASSUME TypeOK, TabInv, WorkInv, EventInv, DpcInv, [Next]_vars
  PROVE DpcInv'
<1>0. /\ registeredCallbacks \in [Slots -> Entry]
      /\ registeredEvents \in [Slots -> Events \cup {NULL}]
      /\ j \in 0 .. MaxNotif /\ MaxNotif \in Nat \ {0} /\ toLoad \subseteq {"cb", "ctx"}
  BY TableAssumption DEF TypeOK, Entry
<1>1. CASE UNCHANGED vars
  BY <1>1 DEF DpcInv, Settled, vars, tableVars, callVars, dpcVars
<1>2. CASE halted = "no" /\ (Client \/ \E e \in Events : RegisterEvent(e) \/ UnregisterEvent(e))
  BY <1>2, ClientDpc
<1>3. CASE halted = "no" /\ Complete
  BY <1>3 DEF DpcInv, Settled, Complete, tableVars, callVars, dpcVars
<1>4. CASE halted = "no" /\ Dpc
  <2> USE DEF tableVars, callVars, Settled
  <2>1. CASE DpcTake \/ DpcEvents \/ DpcDone
    BY <1>4, <2>1 DEF DpcInv, DpcTake, DpcEvents, DpcDone
  <2>2. CASE DpcTest
    <3>1. j \in Slots
      BY <1>0, <2>2 DEF DpcTest, Slots
    <3>2. CASE registeredCallbacks[j].InUse
      <4>1. dpc' = "load" /\ toLoad' = {"cb", "ctx"} /\ changed' = (op # "idle" /\ at = j)
            /\ UNCHANGED <<tableVars, callVars, j, loaded, halted>>
        BY <2>2, <3>2 DEF DpcTest
      <4>2. {"cb", "ctx"} \ toLoad' = {}
        BY <4>1
      <4> QED
        BY <1>4, <3>1, <3>2, <4>1, <4>2 DEF DpcInv
    <3>3. CASE ~registeredCallbacks[j].InUse
      BY <1>4, <2>2, <3>3 DEF DpcInv, DpcTest
    <3> QED
      BY <3>2, <3>3
  <2>3. ASSUME NEW f \in {"cb", "ctx"}, DpcLoad(f) PROVE DpcInv'
    <3>1. j \in Slots
      BY <2>3 DEF DpcInv, DpcLoad
    <3>2. loaded' = [loaded EXCEPT ![f] = registeredCallbacks[j][f]] /\ toLoad' = toLoad \ {f}
          /\ dpc = "load" /\ UNCHANGED <<tableVars, callVars, dpc, j, changed, amiss, halted>>
      BY <2>3 DEF DpcLoad
    <3>3. loaded' \in [cb : {r.cb : r \in Regs} \cup Events \cup {NULL},
                       ctx : {r.ctx : r \in Regs} \cup {NULL}]
      <4>1. CASE f = "cb"
        BY <1>0, <3>1, <3>2, <4>1 DEF DpcInv, Entry
      <4>2. CASE f = "ctx"
        BY <1>0, <3>1, <3>2, <4>2 DEF DpcInv, Entry
      <4> QED
        BY <4>1, <4>2
    <3>4. loaded'[f] = registeredCallbacks[j][f]
          /\ \A g \in {"cb", "ctx"} \ {f} : loaded'[g] = loaded[g]
      BY <3>2 DEF DpcInv
    <3> QED
      BY <3>1, <3>2, <3>3, <3>4 DEF DpcInv
  <2>4. CASE DpcCall
    <3>1. CASE loaded.cb # NULL
      BY <1>4, <2>4, <3>1 DEF DpcInv, DpcCall
    <3>2. CASE loaded.cb = NULL
      <4>1. UNCHANGED <<changed, amiss, loaded, dpc, j>> /\ dpc = "load" /\ toLoad = {}
        BY <2>4, <3>2 DEF DpcCall
      <4>2. changed \/ amiss
        BY <3>2, <4>1, InUseWhole DEF DpcInv
      <4> QED
        BY <4>1, <4>2 DEF DpcInv
    <3> QED
      BY <3>1, <3>2
  <2>5. CASE DpcTestEvent
    <3>1. j \in Slots
      BY <1>0, <2>5 DEF DpcTestEvent, Slots
    <3>2. CASE registeredEvents[j] # NULL
      BY <1>0, <1>4, <2>5, <3>1, <3>2 DEF DpcInv, DpcTestEvent
    <3>3. CASE registeredEvents[j] = NULL
      BY <1>4, <2>5, <3>3 DEF DpcInv, DpcTestEvent
    <3> QED
      BY <3>2, <3>3
  <2>6. CASE DpcSetEvent
    <3>1. PICK e \in {registeredEvents[j], loaded.cb} :
             IF e = NULL
               THEN halted' = "event" /\ UNCHANGED <<owedEvents, dpc, j, loaded, changed>>
               ELSE /\ owedEvents' = owedEvents \ {e}
                    /\ dpc' = "events" /\ j' = j + 1 /\ UNCHANGED halted
                    /\ loaded' = [loaded EXCEPT !.cb = NULL] /\ changed' = FALSE
      BY <2>6 DEF DpcSetEvent
    <3>2. dpc = "set" /\ UNCHANGED <<tableVars, callVars, amiss, toLoad>>
      BY <2>6 DEF DpcSetEvent
    <3>3. CASE e # NULL
      BY <1>4, <3>1, <3>2, <3>3 DEF DpcInv
    <3>4. CASE e = NULL
      BY <3>1, <3>2, <3>4 DEF DpcInv
    <3> QED
      BY <3>3, <3>4
  <2> QED
    BY <1>4, <2>1, <2>2, <2>3, <2>4, <2>5, <2>6 DEF Dpc
<1> QED
  BY <1>1, <1>2, <1>3, <1>4 DEF Next, Run, Halted
-----------------------------------------------------------------------------
(* Types. *)

LEMMA TypeInit == Init => TypeOK /\ TabInv /\ WorkInv /\ RefInv /\ ForceInv /\ EventInv /\ DpcInv
<1> SUFFICES ASSUME Init
             PROVE TypeOK /\ TabInv /\ WorkInv /\ RefInv /\ ForceInv /\ EventInv /\ DpcInv
  OBVIOUS
<1>0. 0 \in Slots /\ 0 \in 0 .. MaxNotif /\ 0 \in 0 .. MaxDone
      /\ registeredCallbacks \in [Slots -> Entry]
  BY TableAssumption, EntryFacts DEF Slots, Init
<1>1. TypeOK
  BY <1>0 DEF Init, TypeOK, Entries, Entry
<1>2. TabInv /\ WorkInv
  BY DEF Init, TabInv, WorkInv, Entries
<1>3. RefInv
  <2>1. \A f \in Fdos : Holding(f) = {}
    BY EntryFacts DEF Init, Holding
  <2> QED
    BY <2>1, FS_EmptySet DEF RefInv, Init
<1>4. ForceInv
  <2>1. \A f \in Fdos : InForceOf(f) = {}
    BY DEF Init, InForceOf
  <2> QED
    BY <2>1, FS_EmptySet DEF ForceInv, Init
<1>5. EventInv /\ DpcInv
  BY DEF Init, EventInv, DpcInv
<1> QED
  BY <1>1, <1>2, <1>3, <1>4, <1>5

\* The counts stay numbers: they are those of RefInv.
LEMMA CountTyped ==
  ASSUME TypeOK, TabInv, WorkInv, RefInv, [Next]_vars
  PROVE ReferenceCount' \in [Fdos -> Nat]
<1>1. ReferenceCount' \in [Fdos -> Int]
  <2>1. ReferenceCount \in [Fdos -> Int]
    BY DEF TypeOK
  <2>2. ASSUME NEW r \in Regs, Register(r) \/ Unregister(r) \/ UnregisterNone(r)
        PROVE ReferenceCount' \in [Fdos -> Int]
    BY <2>1, <2>2 DEF Register, Unregister, UnregisterNone, tableVars
  <2>3. CASE Registered \/ Unregistered
    BY <2>1, <2>3 DEF Registered, Unregistered, tableVars
  <2>4. CASE UNCHANGED ReferenceCount
    BY <2>1, <2>4
  <2> QED
    BY <2>2, <2>3, <2>4, TableSteps DEF Store
<1>2. \A f \in Fdos : ReferenceCount'[f] = Cardinality(Holding(f)')
  BY RefKept DEF RefInv
<1>3. ASSUME NEW f \in Fdos PROVE Cardinality(Holding(f)') \in Nat
  <2>1. IsFiniteSet(Slots) /\ Holding(f)' \in SUBSET Slots
    BY FS_Interval, TableAssumption DEF Slots, Holding
  <2> QED
    BY <2>1, FS_Subset, FS_CardinalityType
<1> QED
  BY <1>1, <1>2, <1>3

\* What the client may rely on.
LEMMA PromisesTyped ==
  ASSUME TypeOK, [Next]_vars
  PROVE /\ owed' \subseteq inForce' /\ owedEvents' \subseteq set' /\ set' \subseteq Events
        /\ registeredEvents' \in [Slots -> Events \cup {NULL}]
        /\ changed' \in BOOLEAN /\ amiss' \in BOOLEAN
        /\ halted' \in {"no", "Fdo", "callback", "event"}
        /\ irqReceived' \in BOOLEAN /\ done' \in 0 .. MaxDone
<1> DEFINE Typed ==
      /\ owed' \subseteq inForce' /\ owedEvents' \subseteq set' /\ set' \subseteq Events
      /\ registeredEvents' \in [Slots -> Events \cup {NULL}]
      /\ changed' \in BOOLEAN /\ amiss' \in BOOLEAN
      /\ halted' \in {"no", "Fdo", "callback", "event"}
      /\ irqReceived' \in BOOLEAN /\ done' \in 0 .. MaxDone
<1> USE DEF TypeOK, tableVars, callVars, dpcVars
<1>1. ASSUME NEW r \in Regs, Register(r) \/ UnregisterNone(r) PROVE Typed
  BY <1>1 DEF Register, UnregisterNone
<1>2. ASSUME NEW r \in Regs, Unregister(r) PROVE Typed
  BY <1>2 DEF Unregister
<1>3. CASE Registered \/ Unregistered
  BY <1>3 DEF Registered, Unregistered
<1>4. ASSUME NEW f \in Fields, Store(f) PROVE Typed
  BY <1>4 DEF Store
<1>5. ASSUME NEW e \in Events, RegisterEvent(e) \/ UnregisterEvent(e) PROVE Typed
  <2>1. PICK i \in Slots, x \in Events \cup {NULL} :
          registeredEvents' = [registeredEvents EXCEPT ![i] = x]
    BY <1>5 DEF RegisterEvent, UnregisterEvent
  <2>2. changed' \in BOOLEAN
    BY <1>5 DEF RegisterEvent, UnregisterEvent
  <2>3. CASE RegisterEvent(e)
    BY <2>1, <2>2, <2>3 DEF RegisterEvent
  <2>4. CASE UnregisterEvent(e)
    BY <2>1, <2>2, <2>4 DEF UnregisterEvent
  <2> QED
    BY <1>5, <2>3, <2>4
<1>6. CASE Complete
  BY <1>6, TableAssumption DEF Complete
<1>7. CASE DpcTake \/ DpcTest \/ DpcEvents \/ DpcTestEvent \/ DpcDone
           \/ \E f \in {"cb", "ctx"} : DpcLoad(f)
  BY <1>7 DEF DpcTake, DpcTest, DpcEvents, DpcTestEvent, DpcDone, DpcLoad
<1>8. CASE DpcCall
  BY <1>8 DEF DpcCall
<1>9. CASE DpcSetEvent
  BY <1>9 DEF DpcSetEvent
<1>10. CASE UNCHANGED vars
  BY <1>10 DEF vars
<1> QED
  BY <1>1, <1>2, <1>3, <1>4, <1>5, <1>6, <1>7, <1>8, <1>9, <1>10
     DEF Next, Run, Halted, Client, Dpc

\* Where the DPC is.
LEMMA DpcTyped ==
  ASSUME TypeOK, DpcInv, [Next]_vars
  PROVE /\ dpc' \in {"idle", "callbacks", "load", "events", "set"}
        /\ j' \in 0 .. MaxNotif /\ toLoad' \subseteq {"cb", "ctx"}
<1>0. /\ dpc \in {"idle", "callbacks", "load", "events", "set"}
      /\ j \in 0 .. MaxNotif /\ toLoad \subseteq {"cb", "ctx"} /\ MaxNotif \in Nat
      /\ dpc \in {"load", "set"} => j < MaxNotif
  BY TableAssumption DEF TypeOK, DpcInv, Slots
<1>1. CASE UNCHANGED <<dpc, j, toLoad>>
  BY <1>0, <1>1
<1>2. CASE DpcTake \/ DpcTest \/ DpcEvents \/ DpcTestEvent \/ DpcDone
           \/ \E f \in {"cb", "ctx"} : DpcLoad(f)
  BY <1>0, <1>2 DEF DpcTake, DpcTest, DpcEvents, DpcTestEvent, DpcDone, DpcLoad
<1>3. CASE DpcCall \/ DpcSetEvent
  BY <1>0, <1>3 DEF DpcCall, DpcSetEvent
<1> QED
  BY <1>1, <1>2, <1>3
     DEF Next, Run, Halted, Client, Register, Unregister, UnregisterNone, Registered,
         Unregistered, Store, RegisterEvent, UnregisterEvent, Complete, Dpc, vars, dpcVars

LEMMA TypeKept ==
  ASSUME TypeOK, TabInv, WorkInv, RefInv, DpcInv, [Next]_vars
  PROVE TypeOK'
BY CallTyped, CountTyped, PromisesTyped, DpcTyped DEF TypeOK, Entry
-----------------------------------------------------------------------------
(* The theorems. *)

Ind == TypeOK /\ TabInv /\ WorkInv /\ RefInv /\ ForceInv /\ EventInv /\ DpcInv

\* Ind holds at first and every step keeps it.
LEMMA IndHolds == Spec => []Ind
<1>1. Init => Ind
  BY TypeInit DEF Ind
<1>2. Ind /\ [Next]_vars => Ind'
  BY TypeKept, TabKept, WorkKept, RefKept, ForceKept, EventKept, DpcKept DEF Ind
<1> QED
  BY <1>1, <1>2, PTL DEF Spec

\* The tables, the client's call and the DPC keep their types; a driver's
\* reference count never goes below the references of others.
THEOREM TypeCorrect == Spec => []TypeOK
<1>1. Ind => TypeOK
  BY DEF Ind
<1> QED
  BY <1>1, IndHolds, PTL

\* hda_dpc calls a registration in force with its own context and sets an
\* event in force, and uses no null pointer, unless the client was at work on
\* that very entry since it was tested or an unregistration hit another's.
THEOREM CallsWhole == Spec => []CallsAreWhole
<1>1. Ind => CallsAreWhole
  <2> SUFFICES ASSUME Ind, ~changed, ~amiss
               PROVE /\ dpc = "load" /\ toLoad = {} =>
                           \E r \in inForce : loaded = [cb |-> r.cb, ctx |-> r.ctx]
                     /\ dpc = "set" => loaded.cb = registeredEvents[j] /\ loaded.cb \in set
                     /\ halted = "no"
    BY DEF CallsAreWhole
  <2>1. ASSUME dpc = "load", toLoad = {}
        PROVE \E r \in inForce : loaded = [cb |-> r.cb, ctx |-> r.ctx]
    <3>1. /\ j \in Slots /\ Settled(j) /\ registeredCallbacks[j].InUse
          /\ loaded.cb = registeredCallbacks[j].cb
          /\ loaded.ctx = registeredCallbacks[j].ctx
          /\ loaded = [cb |-> loaded.cb, ctx |-> loaded.ctx]
      BY <2>1 DEF Ind, DpcInv
    <3>2. PICK r \in inForce : registeredCallbacks[j] = EntryOf(r)
      BY <3>1, EntryFacts DEF Ind, ForceInv
    <3> QED
      BY <3>1, <3>2 DEF EntryOf
  <2>2. dpc = "set" => loaded.cb = registeredEvents[j] /\ loaded.cb \in set
    BY DEF Ind, DpcInv, EventInv
  <2> QED
    BY <2>1, <2>2 DEF Ind, DpcInv
<1> QED
  BY <1>1, IndHolds, PTL

\* Between two calls the table holds each registration once and nothing else,
\* and each driver's object has one reference per registration, until an
\* unregistration takes another entry than its own.
THEOREM RegistrationsAreKept == Spec => []RegistrationsKept
<1>1. Ind => RegistrationsKept
  <2> SUFFICES ASSUME Ind, op = "idle", ~amiss PROVE RegistrationsKept
    BY DEF RegistrationsKept
  <2>1. ASSUME NEW r \in inForce
        PROVE Cardinality({i \in Slots : registeredCallbacks[i] = EntryOf(r)}) = 1
    <3>1. PICK i \in Slots : {k \in Slots : registeredCallbacks[k] = EntryOf(r)} = {i}
      BY DEF Ind, ForceInv, Holds, Settled
    <3> QED
      BY <3>1, FS_Singleton
  <2>2. ASSUME NEW e \in set PROVE Cardinality({i \in Slots : registeredEvents[i] = e}) = 1
    <3>1. PICK i \in Slots : {k \in Slots : registeredEvents[k] = e} = {i}
      BY DEF Ind, EventInv
    <3> QED
      BY <3>1, FS_Singleton
  <2>3. \A i \in Slots :
          registeredCallbacks[i] \in {EntryOf(r) : r \in inForce} \cup {EmptyEntry}
    BY DEF Ind, ForceInv, Settled
  <2>4. \A f \in Fdos : ReferenceCount[f] = Cardinality({r \in inForce : r.Fdo = f})
    BY DEF Ind, ForceInv, InForceOf
  <2> QED
    BY <2>1, <2>2, <2>3, <2>4 DEF RegistrationsKept
<1> QED
  BY <1>1, IndHolds, PTL
=============================================================================
