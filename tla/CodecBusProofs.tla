---------------------------- MODULE CodecBusProofs ----------------------------
(***************************************************************************)
(* Theorems about CodecBus, for any codec addresses, any bytes in the      *)
(* fields nobody assigns, any number of threads, tags and devices.         *)
(*                                                                         *)
(* HoldInv and EntryInv say what the interrupt lock does for the tables of *)
(* callbacks, CopyInv what the DPC knows without it; ChildInv, OneDevice,  *)
(* EjectInv and FirstInv follow the descriptions and codecs[] through      *)
(* enumeration, creation, deletion and ejection.                           *)
(***************************************************************************)
EXTENDS CodecBus, FiniteSetTheorems, SequenceTheorems, TLAPS

Child == [addr : Addrs, junk : Junk, present : BOOLEAN,
          dev : {"pending", "created", "freed"}]

\* A thread in a call holds the lock; the device of a callback, registered or
\* about to be, is there; no two callbacks share an entry.
Active(t) == pc[t] \in {"storing", "zeroing"}
HoldInv ==
    /\ \A t \in Threads : Active(t) => lock = t
    /\ \A t \in Threads : ~Active(t) => todo[t] = {}
    /\ \A t \in Threads : pc[t] # "none" =>
          /\ child[t] \in DOMAIN children /\ children[child[t]].dev = "created"
          /\ tag[t] \in Tags
    /\ \A t, u \in Threads :
          pc[t] # "none" /\ pc[u] # "none" /\ child[t] = child[u] /\ tag[t] = tag[u] => t = u

Held(i, k) == \E t \in Threads : pc[t] # "none" /\ child[t] = i /\ tag[t] = k

\* What thread t makes of its entry.
Meant(t) == IF pc[t] = "storing" THEN EntryOf(t) ELSE EmptyEntry

\* An entry is its holder's, whole once he has returned, and empty without one.
EntryInv ==
    /\ \A t \in Threads : pc[t] = "registered" => unsolitCallbacks[child[t]][tag[t]] = EntryOf(t)
    /\ \A t \in Threads : Active(t) => \A f \in Fields \ todo[t] :
          unsolitCallbacks[child[t]][tag[t]][f] = Meant(t)[f]
    /\ \A i \in Kids, k \in Tags : ~Held(i, k) => unsolitCallbacks[i][k] = EmptyEntry

\* What the DPC has copied is what is there, unless a thread was at work on it.
CopyInv ==
    /\ dpc = "idle" => toCopy = {}
    /\ dpc = "copy" => to \in DOMAIN children /\ children[to].addr = from /\ at \in Tags
    /\ dpc = "copy" /\ ~disturbed =>
          /\ ~Working(to, at)
          /\ \A f \in Fields \ toCopy : copy[f] = unsolitCallbacks[to][at][f]

\* No device is created before the scan ends; codecs[] points to a device of
\* its address.
ChildInv ==
    /\ scan # {} => eject = "idle" /\ \A i \in DOMAIN children : children[i].dev # "created"
    /\ \A a \in Addrs : codecs[a] # 0 =>
          codecs[a] \in DOMAIN children /\ children[codecs[a]].addr = a

\* ~Mixed(a), without counting.
Uniform(a) ==
    \A i, j \in DOMAIN children :
       children[i].addr = a /\ children[j].addr = a => children[i].junk = children[j].junk

\* PointersFollow, with Uniform for ~Mixed.
OneDevice ==
    \A i \in DOMAIN children :
       children[i].present /\ Uniform(children[i].addr) =>
          /\ \A j \in DOMAIN children :
                children[j].present /\ children[j].addr = children[i].addr => j = i
          /\ children[i].dev = "created" => codecs[children[i].addr] = i

\* An ejection marks the description of a device of the graphics codec; until
\* then the component stays disconnected and the codec is not described again.
EjectInv ==
    /\ eject # "idle" => ~connected /\ scan = {}
    /\ eject = "read" => codecs[Gfx] # 0
    /\ eject = "mark" /\ ~badRead => \E i \in DOMAIN children :
          children[i].addr = Gfx /\ ids = [addr |-> Gfx, junk |-> children[i].junk]
    /\ eject = "idle" /\ ~connected /\ ~badRead /\ Uniform(Gfx) =>
          \A i \in DOMAIN children : children[i].present => children[i].addr # Gfx

\* codecs[] names no device of the graphics codec only as long as its first
\* one is to be created; an ejection that was dropped then left it alone.
OneOfGfx == \A i, j \in DOMAIN children : children[i].addr = Gfx /\ children[j].addr = Gfx => i = j
FirstInv ==
    /\ scan # {} => \A i \in DOMAIN children : children[i].addr # Gfx
    /\ codecs[Gfx] = 0 => \A i \in DOMAIN children : children[i].addr = Gfx =>
          children[i].present /\ children[i].dev = "pending"
    /\ eject # "idle" => codecs[Gfx] # 0
    /\ ~inF0 /\ connected /\ Uniform(Gfx) => OneOfGfx
-----------------------------------------------------------------------------
(* The descriptions. *)

\* The codec's descriptions agree exactly when they are not mixed.
LEMMA MixedUniform ==
  ASSUME TypeOK, NEW a
  PROVE Mixed(a) <=> ~Uniform(a)
<1> DEFINE K == {j \in DOMAIN children : children[j].addr = a}
           J == {children[i].junk : i \in K}
<1>1. DOMAIN children = 1 .. Len(children) /\ Len(children) \in Nat
  BY LenProperties DEF TypeOK
<1>2. IsFiniteSet(K)
  <2>1. IsFiniteSet(1 .. Len(children))
    BY <1>1, FS_Interval
  <2>2. K \in SUBSET (1 .. Len(children))
    BY <1>1
  <2> QED
    BY <2>1, <2>2, FS_Subset
<1>3. IsFiniteSet(J)
  <2> DEFINE junkOf == [i \in K |-> children[i].junk]
  <2>1. junkOf \in Surjection(K, J)
    BY DEF Surjection
  <2> QED
    BY <1>2, <2>1, FS_Surjection
<1>4. Cardinality(J) \in Nat
  BY <1>3, FS_CardinalityType
<1>5. Uniform(a) => J = {} \/ \E x : J = {x}
  BY DEF Uniform
<1>6. Uniform(a) => Cardinality(J) <= 1
  BY <1>4, <1>5, FS_EmptySet, FS_Singleton
<1>7. ASSUME Cardinality(J) <= 1 PROVE Uniform(a)
  <2>1. CASE Cardinality(J) = 0
    <3>1. J = {}
      BY <1>3, <2>1, FS_EmptySet
    <3> QED
      BY <3>1 DEF Uniform
  <2>2. CASE Cardinality(J) = 1
    <3>1. PICK x : J = {x}
      BY <1>3, <2>2, FS_Singleton
    <3> QED
      BY <3>1 DEF Uniform
  <2> QED
    BY <1>4, <1>7, <2>1, <2>2
<1> QED
  BY <1>4, <1>6, <1>7 DEF Mixed

LEMMA ChildType ==
  ASSUME TypeOK
  PROVE /\ children \in Seq(Child) /\ Len(children) \in Nat
        /\ DOMAIN children = 1 .. Len(children) /\ children \in [1 .. Len(children) -> Child]
        /\ DOMAIN children \subseteq Kids
<1>1. children \in Seq(Child)
  BY DEF TypeOK, Child
<1> QED
  BY <1>1, LenProperties, AddrAssumption DEF TypeOK, Kids

\* A new description is one that no present device equals.
LEMMA Described ==
  ASSUME TypeOK, NEW a \in Addrs, Describe(a), children' # children
  PROVE \E k \in Junk :
          /\ children' \in Seq(Child) /\ Len(children') = Len(children) + 1
          /\ Len(children') <= MaxChildren
          /\ \A i \in DOMAIN children : children'[i] = children[i]
          /\ children'[Len(children) + 1] =
                [addr |-> a, junk |-> k, present |-> TRUE, dev |-> "pending"]
          /\ \A i \in DOMAIN children :
                children[i].present => children[i].addr # a \/ children[i].junk # k
<1>1. PICK k \in Junk :
        LET d == [addr |-> a, junk |-> k, present |-> TRUE, dev |-> "pending"]
        IN  /\ Len(children) < MaxChildren
            /\ \A i \in DOMAIN children : children[i].present => ~Same(children[i], d)
            /\ children' = Append(children, d)
  BY DEF Describe
<1> DEFINE d == [addr |-> a, junk |-> k, present |-> TRUE, dev |-> "pending"]
<1>2. d \in Child
  BY DEF Child
<1>3. /\ Append(children, d) \in Seq(Child)
      /\ Len(Append(children, d)) = Len(children) + 1
      /\ \A i \in 1 .. Len(children) : Append(children, d)[i] = children[i]
      /\ Append(children, d)[Len(children) + 1] = d
  BY <1>2, ChildType, AppendProperties
<1>4. Len(children) + 1 <= MaxChildren
  <2>1. Len(children) < MaxChildren
    BY <1>1
  <2> QED
    BY <2>1, ChildType, AddrAssumption
<1>5. \A i \in DOMAIN children :
        children[i].present => children[i].addr # a \/ children[i].junk # k
  BY <1>1 DEF Same
<1> QED
  BY <1>1, <1>3, <1>4, <1>5, ChildType

\* A device that changes stays the device of its codec.
LEMMA Changed ==
  ASSUME TypeOK, NEW i \in DOMAIN children, NEW x \in {"pending", "created", "freed"},
         children' = [children EXCEPT ![i].dev = x]
  PROVE /\ children' \in Seq(Child) /\ Len(children') = Len(children)
        /\ DOMAIN children' = DOMAIN children
        /\ \A k \in DOMAIN children \ {i} : children'[k] = children[k]
        /\ children'[i] = [children[i] EXCEPT !.dev = x]
<1>1. [children[i] EXCEPT !.dev = x] \in Child
  BY ChildType DEF Child
<1>2. children' = [children EXCEPT ![i] = [children[i] EXCEPT !.dev = x]]
  BY ChildType
<1>3. children' \in Seq(Child) /\ Len(children') = Len(children)
  BY <1>1, <1>2, ChildType, ExceptSeq
<1>4. /\ \A k \in DOMAIN children \ {i} : children'[k] = children[k]
      /\ children'[i] = [children[i] EXCEPT !.dev = x]
  BY <1>2, ChildType
<1> QED
  BY <1>2, <1>3, <1>4, ChildType

\* The framework marks some descriptions as missing.
LEMMA Marked ==
  ASSUME TypeOK, EjectMark
  PROVE /\ children' \in Seq(Child) /\ Len(children') = Len(children)
        /\ DOMAIN children' = DOMAIN children
        /\ \A k \in DOMAIN children :
              children'[k] = [children[k] EXCEPT !.present = @ /\ ~Same(children[k], ids)]
<1> DEFINE e(k) == [children[k] EXCEPT !.present = @ /\ ~Same(children[k], ids)]
<1>1. children' = [k \in 1 .. Len(children) |-> e(k)]
  BY ChildType DEF EjectMark, Missing
<1>2. \A k \in 1 .. Len(children) : e(k) \in Child
  BY ChildType DEF Child
<1>3. children' \in [1 .. Len(children) -> Child]
  BY <1>1, <1>2
<1>4. children' \in Seq(Child) /\ Len(children') = Len(children)
  BY <1>3, ChildType, LenProperties, SeqDef
<1> QED
  BY <1>1, <1>4, ChildType

\* Nothing but these steps changes a description.
LEMMA ChildSteps ==
  ASSUME [Next]_vars
  PROVE \/ \E a \in Addrs : Describe(a)
        \/ \E i \in DOMAIN children : CreatePdo(i) \/ RemovePdo(i)
        \/ EjectMark
        \/ children' = children
<1>1. CASE Bus
  BY <1>1, AddrAssumption DEF Bus, ScanAddr, GraphicsOn, EjectDropped, EjectCheck, EjectRead
<1>2. CASE Dpc
  BY <1>2 DEF Dpc, DpcTake, DpcCopy, DpcCall, busVars
<1>3. ASSUME NEW t \in Threads, Client(t) PROVE children' = children
  BY <1>3 DEF Client, Register, Unregister, Store, Return, busVars
<1>4. CASE UNCHANGED vars
  BY <1>4 DEF vars, busVars
<1> QED
  BY <1>1, <1>2, <1>3, <1>4 DEF Next, Run, Undefined

\* Descriptions are only added, and keep their address and their bytes.
LEMMA ChildrenStay ==
  ASSUME TypeOK, [Next]_vars
  PROVE /\ children' \in Seq(Child)
        /\ Len(children') \in Len(children) .. MaxChildren
        /\ DOMAIN children \subseteq DOMAIN children'
        /\ DOMAIN children' = 1 .. Len(children')
        /\ \A i \in DOMAIN children :
              children'[i].addr = children[i].addr /\ children'[i].junk = children[i].junk
<1> DEFINE Stay ==
      /\ children' \in Seq(Child)
      /\ Len(children') \in Len(children) .. MaxChildren
      /\ \A i \in DOMAIN children :
            children'[i].addr = children[i].addr /\ children'[i].junk = children[i].junk
<1>0. Len(children) <= MaxChildren /\ MaxChildren \in Nat
  BY AddrAssumption DEF TypeOK
<1>1. CASE children' = children
  BY <1>0, <1>1, ChildType
<1>2. ASSUME NEW a \in Addrs, Describe(a), children' # children PROVE Stay
  <2>1. /\ children' \in Seq(Child) /\ Len(children') = Len(children) + 1
        /\ Len(children') <= MaxChildren
        /\ \A i \in DOMAIN children : children'[i] = children[i]
    BY <1>2, Described
  <2> QED
    BY <1>0, <2>1, ChildType
<1>3. ASSUME NEW i \in DOMAIN children, CreatePdo(i) \/ RemovePdo(i) PROVE Stay
  <2>1. PICK x \in {"pending", "created", "freed"} :
          children' = [children EXCEPT ![i].dev = x]
    BY <1>3 DEF CreatePdo, RemovePdo
  <2>2. children[i] \in Child
    BY ChildType
  <2>3. [children[i] EXCEPT !.dev = x].addr = children[i].addr
        /\ [children[i] EXCEPT !.dev = x].junk = children[i].junk
    BY <2>2 DEF Child
  <2>4. /\ children' \in Seq(Child) /\ Len(children') = Len(children)
        /\ \A k \in DOMAIN children \ {i} : children'[k] = children[k]
        /\ children'[i] = [children[i] EXCEPT !.dev = x]
    BY <2>1, Changed
  <2>5. ASSUME NEW k \in DOMAIN children
        PROVE children'[k].addr = children[k].addr /\ children'[k].junk = children[k].junk
    BY <2>3, <2>4
  <2>6. Len(children') \in Len(children) .. MaxChildren
    BY <1>0, <2>4, ChildType
  <2> QED
    BY <2>4, <2>5, <2>6
<1>4. CASE EjectMark
  <2>1. ASSUME NEW i \in DOMAIN children
        PROVE children'[i].addr = children[i].addr /\ children'[i].junk = children[i].junk
    <3>1. children[i] \in Child
      BY ChildType
    <3>2. children'[i] = [children[i] EXCEPT !.present = @ /\ ~Same(children[i], ids)]
      BY <1>4, Marked
    <3> QED
      BY <3>1, <3>2 DEF Child
  <2>2. children' \in Seq(Child) /\ Len(children') = Len(children)
    BY <1>4, Marked
  <2> QED
    BY <1>0, <2>1, <2>2, ChildType
<1>5. Stay
  BY <1>1, <1>2, <1>3, <1>4, ChildSteps
<1>6. DOMAIN children' = 1 .. Len(children')
  BY <1>5, LenProperties
<1> QED
  BY <1>5, <1>6, ChildType
-----------------------------------------------------------------------------
(* Enumeration, creation and ejection. *)

\* Function drivers and the DPC leave the bus alone.
LEMMA BusSteps ==
  ASSUME [Next]_vars
  PROVE \/ \E a \in Addrs : ScanAddr(a)
        \/ \E i \in DOMAIN children : CreatePdo(i) \/ RemovePdo(i)
        \/ GraphicsOn \/ EjectDropped \/ EjectCheck \/ EjectRead \/ EjectMark
        \/ UNCHANGED busVars /\ badRead' \in {badRead, TRUE}
<1>1. CASE Dpc
  BY <1>1 DEF Dpc, DpcTake, DpcCopy, DpcCall
<1>2. ASSUME NEW t \in Threads, Client(t) PROVE UNCHANGED <<busVars, badRead>>
  BY <1>2 DEF Client, Register, Unregister, Store, Return
<1>3. CASE UNCHANGED vars
  BY <1>3 DEF vars
<1> QED
  BY <1>1, <1>2, <1>3 DEF Next, Run, Undefined, Bus

\* A step that describes at most one codec.
LEMMA DescribedDev ==
  ASSUME TypeOK, NEW a \in Addrs, Describe(a) \/ children' = children,
         \A i \in DOMAIN children : children[i].dev # "created"
  PROVE \A i \in DOMAIN children' : children'[i].dev # "created"
<1>1. CASE children' = children
  BY <1>1
<1>2. CASE children' # children
  <2>1. PICK k \in Junk :
          /\ children' \in Seq(Child) /\ Len(children') = Len(children) + 1
          /\ \A i \in DOMAIN children : children'[i] = children[i]
          /\ children'[Len(children) + 1] =
                [addr |-> a, junk |-> k, present |-> TRUE, dev |-> "pending"]
    BY <1>2, Described
  <2>2. DOMAIN children' = DOMAIN children \cup {Len(children) + 1}
    BY <2>1, LenProperties, ChildType
  <2> QED
    BY <2>1, <2>2
<1> QED
  BY <1>1, <1>2

LEMMA ChildKept ==
  ASSUME TypeOK, ChildInv, [Next]_vars
  PROVE ChildInv'
<1> DEFINE PartOne == scan' # {} =>
             eject' = "idle" /\ \A i \in DOMAIN children' : children'[i].dev # "created"
           PartTwo == \A a \in Addrs : codecs'[a] # 0 =>
             codecs'[a] \in DOMAIN children' /\ children'[codecs'[a]].addr = a
<1>1. ASSUME UNCHANGED codecs PROVE PartTwo
  BY <1>1, ChildrenStay DEF ChildInv
<1>2. ASSUME NEW a \in Addrs, ScanAddr(a) PROVE ChildInv'
  <2>1. scan # {} /\ eject' = eject /\ (Describe(a) \/ children' = children)
    BY <1>2 DEF ScanAddr
  <2>2. \A i \in DOMAIN children' : children'[i].dev # "created"
    BY <2>1, DescribedDev DEF ChildInv
  <2>3. codecs' = [codecs EXCEPT ![a] = 0] /\ codecs \in [Addrs -> 0 .. Len(children)]
    BY <1>2 DEF ScanAddr, TypeOK
  <2>4. PartTwo
    BY <2>3, ChildrenStay DEF ChildInv
  <2> QED
    BY <2>1, <2>2, <2>4 DEF ChildInv
<1>3. ASSUME NEW i \in DOMAIN children, CreatePdo(i) PROVE ChildInv'
  <2>1. scan' = {} /\ codecs' = [codecs EXCEPT ![children[i].addr] = i]
    BY <1>3 DEF CreatePdo
  <2>2. codecs \in [Addrs -> 0 .. Len(children)]
    BY DEF TypeOK
  <2>3. PartTwo
    BY <2>1, <2>2, ChildrenStay DEF ChildInv
  <2> QED
    BY <2>1, <2>3 DEF ChildInv
<1>4. ASSUME NEW i \in DOMAIN children, RemovePdo(i) PROVE ChildInv'
  <2>1. UNCHANGED <<scan, eject, codecs>> /\ children' = [children EXCEPT ![i].dev = "freed"]
    BY <1>4 DEF RemovePdo
  <2>2. /\ DOMAIN children' = DOMAIN children
        /\ \A k \in DOMAIN children \ {i} : children'[k] = children[k]
        /\ children'[i] = [children[i] EXCEPT !.dev = "freed"]
    BY <2>1, Changed
  <2>3. children'[i].dev = "freed"
    BY <2>2, ChildType DEF Child
  <2>4. PartOne
    BY <2>1, <2>2, <2>3 DEF ChildInv
  <2> QED
    BY <1>1, <2>1, <2>4 DEF ChildInv
<1>5. CASE GraphicsOn \/ EjectDropped \/ EjectCheck \/ EjectRead
  <2>1. UNCHANGED <<scan, codecs>>
    BY <1>5 DEF GraphicsOn, EjectDropped, EjectCheck, EjectRead
  <2>2. scan' # {} => EjectRead
    BY <1>5, <2>1 DEF GraphicsOn, EjectDropped, EjectCheck
  <2>3. scan' = {}
    BY <2>1, <2>2 DEF ChildInv, EjectRead
  <2> QED
    BY <1>1, <2>1, <2>3 DEF ChildInv
<1>6. CASE EjectMark
  <2>1. UNCHANGED <<scan, codecs>> /\ scan = {}
    BY <1>6 DEF ChildInv, EjectMark
  <2> QED
    BY <1>1, <2>1 DEF ChildInv
<1>7. CASE UNCHANGED busVars
  BY <1>7 DEF ChildInv, busVars
<1> QED
  BY <1>2, <1>3, <1>4, <1>5, <1>6, <1>7, BusSteps

\* Bytes that agree agreed before.
LEMMA UniformBack ==
  ASSUME TypeOK, [Next]_vars, NEW a, Uniform(a)'
  PROVE Uniform(a)
BY ChildrenStay DEF Uniform

LEMMA OneDeviceKept ==
  ASSUME TypeOK, ChildInv, OneDevice, [Next]_vars
  PROVE OneDevice'
<1> SUFFICES ASSUME NEW i \in DOMAIN children', children'[i].present,
                    NEW c, c = children'[i].addr, Uniform(c)'
             PROVE /\ \A j \in DOMAIN children' :
                         children'[j].present /\ children'[j].addr = c => j = i
                   /\ children'[i].dev = "created" => codecs'[c] = i
  BY DEF OneDevice, Uniform
<1> DEFINE Goal ==
      /\ \A j \in DOMAIN children' :
            children'[j].present /\ children'[j].addr = c => j = i
      /\ children'[i].dev = "created" => codecs'[c] = i
<1>0. Uniform(c)
  BY UniformBack
\* Nobody becomes present, and a device created was before.
<1>1. ASSUME DOMAIN children' = DOMAIN children,
             \A k \in DOMAIN children : children'[k].present => children[k].present,
             children'[i].dev = "created" =>
                IF children[i].dev = "created"
                  THEN codecs'[children[i].addr] = codecs[children[i].addr]
                  ELSE codecs'[children[i].addr] = i
      PROVE Goal
  BY <1>0, <1>1, ChildrenStay DEF OneDevice
<1>2. ASSUME NEW a \in Addrs, Describe(a), children' # children,
             \A b \in Addrs \ {a} : codecs'[b] = codecs[b],
             codecs'[a] = codecs[a] \/ \A k \in DOMAIN children : children[k].dev # "created"
      PROVE Goal
  <2>1. PICK k \in Junk :
          /\ children' \in Seq(Child) /\ Len(children') = Len(children) + 1
          /\ \A l \in DOMAIN children : children'[l] = children[l]
          /\ children'[Len(children) + 1] =
                [addr |-> a, junk |-> k, present |-> TRUE, dev |-> "pending"]
          /\ \A l \in DOMAIN children :
                children[l].present => children[l].addr # a \/ children[l].junk # k
    BY <1>2, Described
  <2> DEFINE n == Len(children) + 1
  <2>2. /\ DOMAIN children' = DOMAIN children \cup {n} /\ n \notin DOMAIN children
        /\ children'[n].addr = a /\ children'[n].junk = k /\ children'[n].dev = "pending"
    BY <2>1, LenProperties, ChildType
  <2>3. Uniform(a)' => \A l \in DOMAIN children : children[l].present => children[l].addr # a
    <3> SUFFICES ASSUME Uniform(a)', NEW l \in DOMAIN children, children[l].present,
                        children[l].addr = a
                 PROVE FALSE
      OBVIOUS
    <3>1. children'[l] = children[l] /\ l \in DOMAIN children'
      BY <2>1, <2>2
    <3>2. children[l].junk = k
      BY <2>2, <3>1 DEF Uniform
    <3> QED
      BY <2>1, <3>2
  <2>4. CASE i = n
    BY <2>1, <2>2, <2>3, <2>4
  <2>5. CASE i \in DOMAIN children
    <3>1. children'[i] = children[i] /\ children[i].addr # a
      BY <2>1, <2>2, <2>3, <2>5
    <3>2. children[i].addr \in Addrs
      BY <2>5, ChildType DEF Child
    <3>3. /\ \A j \in DOMAIN children :
                children[j].present /\ children[j].addr = children[i].addr => j = i
          /\ children[i].dev = "created" => codecs[children[i].addr] = i
      BY <1>0, <2>5, <3>1 DEF OneDevice
    <3> QED
      BY <1>2, <2>1, <2>2, <3>1, <3>2, <3>3
  <2> QED
    BY <2>2, <2>4, <2>5
<1>3. ASSUME UNCHANGED <<children, codecs>> PROVE Goal
  BY <1>1, <1>3
<1>4. ASSUME NEW a \in Addrs, ScanAddr(a) PROVE Goal
  <2>1. scan # {} /\ codecs' = [codecs EXCEPT ![a] = 0]
        /\ codecs \in [Addrs -> 0 .. Len(children)]
        /\ (Describe(a) \/ children' = children)
    BY <1>4 DEF ScanAddr, TypeOK
  <2>2. \A k \in DOMAIN children : children[k].dev # "created"
    BY <2>1 DEF ChildInv
  <2>3. CASE children' = children
    BY <1>1, <2>2, <2>3
  <2> QED
    BY <1>2, <2>1, <2>2, <2>3
<1>5. ASSUME NEW k \in DOMAIN children, CreatePdo(k) PROVE Goal
  <2>1. /\ children' = [children EXCEPT ![k].dev = "created"] /\ children[k].present
        /\ codecs' = [codecs EXCEPT ![children[k].addr] = k]
        /\ codecs \in [Addrs -> 0 .. Len(children)]
    BY <1>5 DEF CreatePdo, TypeOK
  <2>2. /\ DOMAIN children' = DOMAIN children
        /\ \A l \in DOMAIN children \ {k} : children'[l] = children[l]
        /\ children'[k] = [children[k] EXCEPT !.dev = "created"]
    BY <2>1, Changed
  <2>3. children[k] \in Child /\ children[i] \in Child
    BY <2>2, ChildType
  <2>4. children'[k].present = children[k].present /\ children'[k].addr = children[k].addr
    BY <2>2, <2>3 DEF Child
  <2>5. CASE i = k
    <3>1. children[i].addr \in Addrs /\ children[i].dev # "created"
      BY <1>5, <2>3, <2>5 DEF CreatePdo, Child
    <3>2. codecs'[children[i].addr] = i
      BY <2>1, <2>5, <3>1
    <3>3. \A l \in DOMAIN children : children'[l].present => children[l].present
      BY <2>2, <2>4
    <3> QED
      BY <1>1, <2>2, <3>1, <3>2, <3>3
  <2>6. CASE i # k
    <3>1. children'[i] = children[i]
      BY <2>2, <2>6
    <3>2. children[i].addr # children[k].addr
      BY <1>0, <2>1, <2>2, <2>6, <3>1 DEF OneDevice
    <3>3. children[i].dev = "created" => codecs[children[i].addr] = i
      BY <1>0, <2>2, <3>1 DEF OneDevice
    <3>4. codecs'[children[i].addr] = codecs[children[i].addr]
      BY <2>1, <2>3, <3>2 DEF Child
    <3> QED
      BY <1>1, <2>2, <2>4, <3>1, <3>4
  <2> QED
    BY <2>5, <2>6
<1>6. ASSUME NEW k \in DOMAIN children, RemovePdo(k) PROVE Goal
  <2>1. children' = [children EXCEPT ![k].dev = "freed"] /\ UNCHANGED codecs
    BY <1>6 DEF RemovePdo
  <2>2. /\ DOMAIN children' = DOMAIN children
        /\ \A l \in DOMAIN children \ {k} : children'[l] = children[l]
        /\ children'[k] = [children[k] EXCEPT !.dev = "freed"]
    BY <2>1, Changed
  <2>3. children'[k].present = children[k].present /\ children'[k].dev = "freed"
    BY <2>2, ChildType DEF Child
  <2> QED
    BY <1>1, <2>1, <2>2, <2>3
<1>7. CASE GraphicsOn
  <2>1. UNCHANGED codecs /\ Describe(Gfx)
    BY <1>7 DEF GraphicsOn
  <2> QED
    BY <1>2, <1>3, <2>1, AddrAssumption
<1>8. CASE EjectDropped \/ EjectCheck \/ EjectRead
  BY <1>3, <1>8 DEF EjectDropped, EjectCheck, EjectRead
<1>9. CASE EjectMark
  <2>1. UNCHANGED codecs
    BY <1>9 DEF EjectMark
  <2>2. DOMAIN children' = DOMAIN children
    BY <1>9, Marked
  <2>3. ASSUME NEW l \in DOMAIN children
        PROVE /\ children'[l].present => children[l].present
              /\ children'[l].dev = children[l].dev
    <3>1. children'[l] = [children[l] EXCEPT !.present = @ /\ ~Same(children[l], ids)]
      BY <1>9, Marked
    <3>2. children[l] \in Child
      BY ChildType
    <3> QED
      BY <3>1, <3>2 DEF Child
  <2> QED
    BY <1>1, <2>1, <2>2, <2>3
<1>10. CASE UNCHANGED busVars
  BY <1>3, <1>10 DEF busVars
<1> QED
  BY <1>4, <1>5, <1>6, <1>7, <1>8, <1>9, <1>10, BusSteps

LEMMA EjectKept ==
  ASSUME TypeOK, ChildInv, EjectInv, [Next]_vars
  PROVE EjectInv'
<1> DEFINE Disconnected == eject' # "idle" => ~connected' /\ scan' = {}
           Reading == eject' = "read" => codecs'[Gfx] # 0
           Marking == eject' = "mark" /\ ~badRead' => \E i \in DOMAIN children' :
             children'[i].addr = Gfx /\ ids' = [addr |-> Gfx, junk |-> children'[i].junk]
           Gone == eject' = "idle" /\ ~connected' /\ ~badRead' /\ Uniform(Gfx)' =>
             \A i \in DOMAIN children' : children'[i].present => children'[i].addr # Gfx
<1>0. Gfx \in Addrs /\ codecs \in [Addrs -> 0 .. Len(children)]
      /\ (Uniform(Gfx)' => Uniform(Gfx)) /\ badRead \in BOOLEAN
  BY AddrAssumption, UniformBack DEF TypeOK
<1>1. ASSUME UNCHANGED <<ids, eject>>, badRead' \in {badRead, TRUE} PROVE Marking
  BY <1>0, <1>1, ChildrenStay DEF EjectInv
\* Nothing present appears at the graphics codec's address.
<1>2. ASSUME UNCHANGED <<eject, connected>>, badRead' \in {badRead, TRUE},
             \A i \in DOMAIN children' : children'[i].present =>
                \/ i \in DOMAIN children /\ children[i].present
                \/ children'[i].addr # Gfx
      PROVE Gone
  <2> SUFFICES ASSUME eject' = "idle", ~connected', ~badRead', Uniform(Gfx)'
               PROVE \A i \in DOMAIN children' :
                        children'[i].present => children'[i].addr # Gfx
    OBVIOUS
  <2>1. ~badRead
    BY <1>0, <1>2
  <2>2. \A i \in DOMAIN children : children[i].present => children[i].addr # Gfx
    BY <1>0, <1>2, <2>1 DEF EjectInv
  <2> QED
    BY <1>2, <2>2, ChildrenStay
<1>3. ASSUME NEW a \in Addrs, ScanAddr(a) PROVE EjectInv'
  <2>1. scan # {} /\ UNCHANGED <<eject, connected, ids, badRead>>
        /\ (a = Gfx => children' = children) /\ (Describe(a) \/ children' = children)
    BY <1>3 DEF ScanAddr
  <2>2. eject' = "idle"
    BY <2>1 DEF ChildInv
  <2>3. Gone
    <3>1. CASE children' = children
      BY <1>2, <2>1, <3>1
    <3>2. CASE children' # children
      <4>1. PICK k \in Junk :
              /\ children' \in Seq(Child) /\ Len(children') = Len(children) + 1
              /\ \A l \in DOMAIN children : children'[l] = children[l]
              /\ children'[Len(children) + 1] =
                    [addr |-> a, junk |-> k, present |-> TRUE, dev |-> "pending"]
        BY <2>1, <3>2, Described
      <4>2. DOMAIN children' = DOMAIN children \cup {Len(children) + 1}
        BY <4>1, LenProperties, ChildType
      <4>3. \A i \in DOMAIN children' : children'[i].present =>
              \/ i \in DOMAIN children /\ children[i].present
              \/ children'[i].addr # Gfx
        BY <2>1, <3>2, <4>1, <4>2
      <4> QED
        BY <1>2, <2>1, <4>3
    <3> QED
      BY <3>1, <3>2
  <2> QED
    BY <2>2, <2>3 DEF EjectInv
<1>4. ASSUME NEW i \in DOMAIN children, CreatePdo(i) \/ RemovePdo(i) PROVE EjectInv'
  <2>1. PICK x \in {"created", "freed"} : children' = [children EXCEPT ![i].dev = x]
    BY <1>4 DEF CreatePdo, RemovePdo
  <2>2. /\ DOMAIN children' = DOMAIN children
        /\ \A l \in DOMAIN children \ {i} : children'[l] = children[l]
        /\ children'[i] = [children[i] EXCEPT !.dev = x]
    BY <2>1, Changed
  <2>3. children'[i].present = children[i].present
    BY <2>2, ChildType DEF Child
  <2>4. UNCHANGED <<eject, connected, ids, badRead, scan>>
    BY <1>4 DEF CreatePdo, RemovePdo
  <2>5. codecs'[Gfx] # 0 \/ codecs'[Gfx] = codecs[Gfx]
    BY <1>0, <1>4, ChildType DEF CreatePdo, RemovePdo
  <2>6. Gone
    BY <1>2, <2>2, <2>3, <2>4
  <2> QED
    BY <1>1, <2>4, <2>5, <2>6 DEF EjectInv
<1>5. CASE GraphicsOn
  BY <1>5 DEF EjectInv, GraphicsOn
<1>6. CASE EjectCheck
  BY <1>6 DEF EjectInv, EjectCheck
<1>7. CASE EjectRead
  <2>1. /\ eject = "read" /\ eject' = "mark"
        /\ UNCHANGED <<scan, children, codecs, connected>>
    BY <1>7 DEF EjectRead
  <2>2. codecs[Gfx] \in DOMAIN children /\ children[codecs[Gfx]].addr = Gfx
    BY <1>0, <2>1 DEF EjectInv, ChildInv
  <2>3. ~badRead' => ids' = [addr |-> children[codecs[Gfx]].addr,
                             junk |-> children[codecs[Gfx]].junk]
    BY <1>7 DEF EjectRead
  <2> QED
    BY <2>1, <2>2, <2>3 DEF EjectInv
<1>8. CASE EjectMark
  <2>1. eject = "mark" /\ eject' = "idle" /\ UNCHANGED <<scan, codecs, connected, badRead>>
    BY <1>8 DEF EjectMark
  <2>2. DOMAIN children' = DOMAIN children
        /\ \A k \in DOMAIN children :
              children'[k] = [children[k] EXCEPT !.present = @ /\ ~Same(children[k], ids)]
    BY <1>8, Marked
  <2>3. ASSUME ~badRead, Uniform(Gfx)', NEW k \in DOMAIN children, children[k].addr = Gfx
        PROVE ~children'[k].present
    <3>1. PICK i \in DOMAIN children :
            children[i].addr = Gfx /\ ids = [addr |-> Gfx, junk |-> children[i].junk]
      BY <2>1, <2>3 DEF EjectInv
    <3>2. children[k].junk = children[i].junk
      BY <1>0, <2>3, <3>1 DEF Uniform
    <3>3. Same(children[k], ids)
      BY <2>3, <3>1, <3>2 DEF Same
    <3> QED
      BY <2>2, <3>3, ChildType DEF Child
  <2>4. Gone
    BY <2>1, <2>2, <2>3, ChildrenStay
  <2> QED
    BY <2>1, <2>4 DEF EjectInv
<1>9. CASE UNCHANGED busVars /\ badRead' \in {badRead, TRUE}
  <2>1. UNCHANGED <<children, connected, eject, ids, codecs, scan>>
    BY <1>9 DEF busVars
  <2>2. Gone /\ Marking
    BY <1>1, <1>2, <1>9, <2>1
  <2> QED
    BY <2>1, <2>2 DEF EjectInv
<1>10. CASE EjectDropped
  BY <1>10 DEF EjectInv, EjectDropped, Uniform
<1> QED
  BY <1>3, <1>4, <1>5, <1>6, <1>7, <1>8, <1>9, <1>10, BusSteps

\* Without a new description FirstInv loses nothing, as far as it does not
\* speak of devices.
LEMMA NothingNew ==
  ASSUME TypeOK, FirstInv, [Next]_vars, DOMAIN children' = DOMAIN children,
         scan' # {} => scan # {}, connected' => connected, inF0' = inF0
  PROVE /\ scan' # {} => \A i \in DOMAIN children' : children'[i].addr # Gfx
        /\ ~inF0' /\ connected' /\ Uniform(Gfx)' => OneOfGfx'
<1>1. \A i \in DOMAIN children : children'[i].addr = children[i].addr
  BY ChildrenStay
<1>2. Uniform(Gfx)' => Uniform(Gfx)
  BY UniformBack
<1> QED
  BY <1>1, <1>2 DEF FirstInv, OneOfGfx

LEMMA FirstKept ==
  ASSUME TypeOK, ChildInv, OneDevice, FirstInv, [Next]_vars
  PROVE FirstInv'
<1>0. Gfx \in Addrs /\ codecs \in [Addrs -> 0 .. Len(children)]
      /\ connected \in BOOLEAN /\ inF0 \in BOOLEAN
  BY AddrAssumption DEF TypeOK
<1>1. ASSUME UNCHANGED <<scan, children, codecs, connected, eject, inF0>> PROVE FirstInv'
  BY <1>1 DEF FirstInv, OneOfGfx, Uniform
<1>2. ASSUME NEW a \in Addrs, ScanAddr(a) PROVE FirstInv'
  <2>1. /\ scan # {} /\ codecs' = [codecs EXCEPT ![a] = 0]
        /\ UNCHANGED <<connected, inF0, eject>>
        /\ (a = Gfx => children' = children) /\ (Describe(a) \/ children' = children)
    BY <1>2 DEF ScanAddr
  <2>2. eject' = "idle" /\ \A i \in DOMAIN children : children[i].addr # Gfx
    BY <2>1 DEF ChildInv, FirstInv
  <2>3. \A i \in DOMAIN children' : children'[i].addr # Gfx
    <3>1. CASE children' = children
      BY <2>2, <3>1
    <3>2. CASE children' # children
      <4>1. PICK k \in Junk :
              /\ children' \in Seq(Child) /\ Len(children') = Len(children) + 1
              /\ \A l \in DOMAIN children : children'[l] = children[l]
              /\ children'[Len(children) + 1] =
                    [addr |-> a, junk |-> k, present |-> TRUE, dev |-> "pending"]
        BY <2>1, <3>2, Described
      <4>2. DOMAIN children' = DOMAIN children \cup {Len(children) + 1}
        BY <4>1, LenProperties, ChildType
      <4> QED
        BY <2>1, <2>2, <3>2, <4>1, <4>2
    <3> QED
      BY <3>1, <3>2
  <2> QED
    BY <2>2, <2>3 DEF FirstInv, OneOfGfx
<1>3. ASSUME NEW i \in DOMAIN children, CreatePdo(i) \/ RemovePdo(i) PROVE FirstInv'
  <2>1. PICK x \in {"created", "freed"} :
          /\ children' = [children EXCEPT ![i].dev = x]
          /\ x = "created" => codecs' = [codecs EXCEPT ![children[i].addr] = i]
          /\ x = "freed" => UNCHANGED codecs /\ ~children[i].present
    BY <1>3 DEF CreatePdo, RemovePdo
  <2>2. /\ DOMAIN children' = DOMAIN children
        /\ \A l \in DOMAIN children \ {i} : children'[l] = children[l]
        /\ children'[i] = [children[i] EXCEPT !.dev = x]
    BY <2>1, Changed
  <2>3. UNCHANGED <<scan, connected, inF0, eject>>
    BY <1>3 DEF CreatePdo, RemovePdo
  <2>4. i # 0 /\ children[i] \in Child
    BY ChildType
  <2>5. codecs'[Gfx] = 0 => codecs[Gfx] = 0 /\ children[i].addr # Gfx
    <3>1. CASE x = "created"
      BY <1>0, <2>1, <2>4, <3>1 DEF Child
    <3>2. CASE x = "freed"
      BY <2>1, <3>2 DEF FirstInv
    <3> QED
      BY <3>1, <3>2
  <2>6. codecs'[Gfx] = 0 => \A l \in DOMAIN children' : children'[l].addr = Gfx =>
          children'[l].present /\ children'[l].dev = "pending"
    BY <2>2, <2>4, <2>5 DEF FirstInv, Child
  <2> QED
    BY <2>2, <2>3, <2>5, <2>6, NothingNew DEF FirstInv
<1>4. CASE GraphicsOn
  <2>1. /\ scan' = {} /\ eject' = "idle" /\ inF0' = TRUE /\ Describe(Gfx) /\ UNCHANGED codecs
    BY <1>4 DEF GraphicsOn
  <2>2. codecs'[Gfx] = 0 => \A l \in DOMAIN children' : children'[l].addr = Gfx =>
          children'[l].present /\ children'[l].dev = "pending"
    <3>1. CASE children' = children
      BY <2>1, <3>1 DEF FirstInv
    <3>2. CASE children' # children
      <4>1. PICK k \in Junk :
              /\ children' \in Seq(Child) /\ Len(children') = Len(children) + 1
              /\ \A l \in DOMAIN children : children'[l] = children[l]
              /\ children'[Len(children) + 1] =
                    [addr |-> Gfx, junk |-> k, present |-> TRUE, dev |-> "pending"]
        BY <1>0, <2>1, <3>2, Described
      <4>2. DOMAIN children' = DOMAIN children \cup {Len(children) + 1}
        BY <4>1, LenProperties, ChildType
      <4> QED
        BY <2>1, <4>1, <4>2 DEF FirstInv
    <3> QED
      BY <3>1, <3>2
  <2> QED
    BY <2>1, <2>2 DEF FirstInv
<1>5. CASE EjectDropped
  <2>1. /\ scan = {} /\ eject = "idle" /\ codecs[Gfx] = 0
        /\ UNCHANGED <<scan, children, codecs, connected, eject>>
    BY <1>5 DEF EjectDropped
  <2>2. Uniform(Gfx) => OneOfGfx
    BY <2>1 DEF FirstInv, OneDevice, OneOfGfx
  <2> QED
    BY <2>1, <2>2 DEF FirstInv, OneOfGfx, Uniform
<1>6. CASE EjectCheck
  BY <1>6 DEF EjectCheck, FirstInv
<1>7. CASE EjectRead
  <2>1. UNCHANGED <<scan, children, codecs, connected, inF0>> /\ eject # "idle"
    BY <1>7 DEF EjectRead
  <2> QED
    BY <2>1 DEF FirstInv, OneOfGfx, Uniform
<1>8. CASE EjectMark
  <2>1. UNCHANGED <<scan, codecs, connected, inF0>> /\ eject # "idle" /\ eject' = "idle"
    BY <1>8 DEF EjectMark
  <2>2. DOMAIN children' = DOMAIN children
    BY <1>8, Marked
  <2> QED
    BY <2>1, <2>2, NothingNew DEF FirstInv
<1>9. CASE UNCHANGED busVars
  BY <1>1, <1>9 DEF busVars
<1> QED
  BY <1>2, <1>3, <1>4, <1>5, <1>6, <1>7, <1>8, <1>9, BusSteps
-----------------------------------------------------------------------------
(* The tables of callbacks. *)

\* The bus leaves the tables and the lock alone, and so does the DPC.
LEMMA ClientSteps ==
  ASSUME [Next]_vars
  PROVE \/ \E t \in Threads : Register(t) \/ Unregister(t) \/ Return(t)
        \/ \E t \in Threads, f \in Fields : Store(t, f)
        \/ UNCHANGED <<clientVars, lock>>
<1>1. CASE Bus
  BY <1>1 DEF Bus, ScanAddr, CreatePdo, RemovePdo, GraphicsOn, EjectDropped, EjectCheck,
         EjectRead, EjectMark
<1>2. CASE Dpc
  BY <1>2 DEF Dpc, DpcTake, DpcCopy, DpcCall
<1>3. CASE UNCHANGED vars
  BY <1>3 DEF vars
<1> QED
  BY <1>1, <1>2, <1>3 DEF Next, Run, Undefined, Client

\* The device of a registered callback is not deleted.
LEMMA DeviceStays ==
  ASSUME TypeOK, HoldInv, [Next]_vars, NEW i \in DOMAIN children,
         children[i].dev = "created", \E t \in Threads : pc[t] # "none" /\ child[t] = i
  PROVE i \in DOMAIN children' /\ children'[i].dev = "created"
<1>1. CASE children' = children
  BY <1>1
<1>2. ASSUME NEW a \in Addrs, Describe(a), children' # children
      PROVE children'[i].dev = "created"
  BY <1>2, Described
<1>3. ASSUME NEW k \in DOMAIN children, CreatePdo(k) \/ RemovePdo(k)
      PROVE children'[i].dev = "created"
  <2>1. k # i
    BY <1>3 DEF CreatePdo, RemovePdo
  <2>2. PICK x \in {"created", "freed"} : children' = [children EXCEPT ![k].dev = x]
    BY <1>3 DEF CreatePdo, RemovePdo
  <2> QED
    BY <2>1, <2>2, Changed
<1>4. CASE EjectMark
  <2>1. children'[i] = [children[i] EXCEPT !.present = @ /\ ~Same(children[i], ids)]
    BY <1>4, Marked
  <2>2. children[i] \in Child
    BY ChildType
  <2>3. children'[i].dev = "created"
    BY <2>1, <2>2 DEF Child
  <2> QED
    BY <2>3, ChildrenStay
<1> QED
  BY <1>1, <1>2, <1>3, <1>4, ChildSteps, ChildrenStay

\* The entry of a thread in a call.
LEMMA EntryPlace ==
  ASSUME TypeOK, HoldInv, NEW t \in Threads, pc[t] # "none"
  PROVE child[t] \in Kids /\ tag[t] \in Tags
BY ChildType DEF HoldInv

LEMMA EntryFacts ==
  /\ EmptyEntry \in Entries /\ ~EmptyEntry.inUse
  /\ \A t \in Threads : EntryOf(t) \in Entries /\ EntryOf(t).inUse
                        /\ EntryOf(t).Routine = t /\ t # NULL
BY NullAssumption DEF EmptyEntry, Entries, EntryOf

\* One store changes one field of the thread's own entry.
LEMMA StoreEffect ==
  ASSUME TypeOK, HoldInv, NEW t \in Threads, NEW f \in Fields, Store(t, f)
  PROVE /\ Active(t) /\ child[t] \in Kids /\ tag[t] \in Tags
        /\ UNCHANGED <<lock, pc, child, tag>> /\ todo' = [todo EXCEPT ![t] = @ \ {f}]
        /\ unsolitCallbacks' \in [Kids -> [Tags -> Entries]]
        /\ \A i \in Kids, k \in Tags :
              i # child[t] \/ k # tag[t] => unsolitCallbacks'[i][k] = unsolitCallbacks[i][k]
        /\ unsolitCallbacks'[child[t]][tag[t]][f] = Meant(t)[f]
        /\ \A g \in Fields \ {f} : unsolitCallbacks'[child[t]][tag[t]][g] =
                                   unsolitCallbacks[child[t]][tag[t]][g]
<1>1. Active(t) /\ child[t] \in Kids /\ tag[t] \in Tags
  BY EntryPlace DEF Store, HoldInv, Active, TypeOK
<1> DEFINE i == child[t]
           k == tag[t]
           e == unsolitCallbacks[i][k]
           n == [e EXCEPT ![f] = Meant(t)[f]]
<1>2. unsolitCallbacks' = [unsolitCallbacks EXCEPT ![i] = [unsolitCallbacks[i] EXCEPT ![k] = n]]
  BY DEF Store, Meant
<1>3. unsolitCallbacks \in [Kids -> [Tags -> Entries]] /\ e \in Entries /\ Meant(t) \in Entries
  BY <1>1, EntryFacts DEF TypeOK, Meant
<1>4. n \in Entries /\ n[f] = Meant(t)[f] /\ \A g \in Fields \ {f} : n[g] = e[g]
  <2>1. CASE f = "inUse"
    BY <1>3, <2>1 DEF Entries, Fields
  <2>2. CASE f = "Context"
    BY <1>3, <2>2 DEF Entries, Fields
  <2>3. CASE f = "Routine"
    BY <1>3, <2>3 DEF Entries, Fields
  <2> QED
    BY <2>1, <2>2, <2>3 DEF Fields
<1>5. /\ unsolitCallbacks' \in [Kids -> [Tags -> Entries]]
      /\ unsolitCallbacks'[i][k] = n
      /\ \A h \in Kids, l \in Tags :
            h # i \/ l # k => unsolitCallbacks'[h][l] = unsolitCallbacks[h][l]
  BY <1>1, <1>2, <1>3, <1>4
<1> QED
  BY <1>1, <1>4, <1>5 DEF Store

\* What Register finds free is nobody's and empty.
LEMMA FoundFree ==
  ASSUME TypeOK, HoldInv, EntryInv, NEW t \in Threads, Register(t)
  PROVE \E i \in DOMAIN children, k \in Tags :
          /\ i \in Kids /\ children[i].dev = "created" /\ ~Held(i, k)
          /\ child' = [child EXCEPT ![t] = i] /\ tag' = [tag EXCEPT ![t] = k]
          /\ disturbed' = (disturbed \/ (dpc # "idle" /\ to = i /\ at = k))
<1>1. PICK i \in DOMAIN children, k \in Tags :
        /\ children[i].dev = "created" /\ ~unsolitCallbacks[i][k].inUse
        /\ child' = [child EXCEPT ![t] = i] /\ tag' = [tag EXCEPT ![t] = k]
        /\ disturbed' = (disturbed \/ (dpc # "idle" /\ to = i /\ at = k))
  BY DEF Register, FreeTag, Disturbs
<1>2. ASSUME NEW u \in Threads, pc[u] # "none", child[u] = i, tag[u] = k PROVE FALSE
  <2>1. ~Active(u)
    BY NullAssumption DEF HoldInv, Register
  <2>2. pc[u] = "registered"
    BY <1>2, <2>1 DEF Active, TypeOK
  <2>3. unsolitCallbacks[i][k] = EntryOf(u)
    BY <1>2, <2>2 DEF EntryInv
  <2> QED
    BY <1>1, <2>3, EntryFacts
<1>3. ~Held(i, k)
  BY <1>2 DEF Held
<1>4. i \in Kids
  BY ChildType
<1> QED
  BY <1>1, <1>3, <1>4

LEMMA HoldKept ==
  ASSUME TypeOK, HoldInv, EntryInv, [Next]_vars
  PROVE HoldInv'
<1> DEFINE Device == \A t \in Threads : pc'[t] # "none" =>
             /\ child'[t] \in DOMAIN children' /\ children'[child'[t]].dev = "created"
             /\ tag'[t] \in Tags
           Alone == \A t, u \in Threads :
             pc'[t] # "none" /\ pc'[u] # "none" /\ child'[t] = child'[u]
                             /\ tag'[t] = tag'[u] => t = u
<1>0. /\ pc \in [Threads -> {"none", "storing", "registered", "zeroing"}]
      /\ todo \in [Threads -> SUBSET Fields] /\ NULL \notin Threads
      /\ child \in [Threads -> 0 .. Len(children)] /\ tag \in [Threads -> Tags \cup {0}]
  BY NullAssumption DEF TypeOK
<1>1. ASSUME NEW t \in Threads, pc[t] # "none"
      PROVE child[t] \in DOMAIN children' /\ children'[child[t]].dev = "created"
  BY <1>1, DeviceStays DEF HoldInv
<1>2. ASSUME UNCHANGED <<child, tag>>, \A t \in Threads : pc'[t] # "none" => pc[t] # "none"
      PROVE Device /\ Alone
  BY <1>1, <1>2 DEF HoldInv
<1>3. ASSUME NEW t \in Threads, Register(t) PROVE HoldInv'
  <2>1. PICK i \in DOMAIN children, k \in Tags :
          /\ children[i].dev = "created" /\ ~Held(i, k)
          /\ child' = [child EXCEPT ![t] = i] /\ tag' = [tag EXCEPT ![t] = k]
    BY <1>3, FoundFree
  <2>2. /\ pc[t] = "none" /\ lock = NULL /\ lock' = t /\ children' = children
        /\ pc' = [pc EXCEPT ![t] = "storing"] /\ todo' = [todo EXCEPT ![t] = Fields]
    BY <1>3 DEF Register, busVars
  <2>3. Device
    BY <1>0, <2>1, <2>2 DEF HoldInv
  <2>4. Alone
    BY <1>0, <2>1, <2>2 DEF HoldInv, Held
  <2>5. \A u \in Threads : ~Active(u)
    BY <1>0, <2>2 DEF HoldInv
  <2>6. \A u \in Threads : u # t => pc'[u] = pc[u] /\ todo'[u] = todo[u]
    BY <1>0, <2>2
  <2>7. pc'[t] = "storing"
    BY <1>0, <2>2
  <2> QED
    BY <2>2, <2>3, <2>4, <2>5, <2>6, <2>7 DEF HoldInv, Active
<1>4. ASSUME NEW t \in Threads, Unregister(t) PROVE HoldInv'
  <2>1. /\ pc[t] = "registered" /\ lock = NULL /\ lock' = t /\ UNCHANGED <<child, tag>>
        /\ pc' = [pc EXCEPT ![t] = "zeroing"] /\ todo' = [todo EXCEPT ![t] = Fields]
    BY <1>4 DEF Unregister
  <2>2. \A u \in Threads : ~Active(u)
    BY <1>0, <2>1 DEF HoldInv
  <2>3. \A u \in Threads : u # t => pc'[u] = pc[u] /\ todo'[u] = todo[u]
    BY <1>0, <2>1
  <2>4. pc'[t] = "zeroing"
    BY <1>0, <2>1
  <2>5. Device /\ Alone
    BY <1>2, <2>1, <2>3
  <2> QED
    BY <2>1, <2>2, <2>3, <2>4, <2>5 DEF HoldInv, Active
<1>5. ASSUME NEW t \in Threads, Return(t) PROVE HoldInv'
  <2>1. Active(t) /\ lock' = NULL /\ todo[t] = {} /\ todo' = todo
        /\ \A u \in Threads : u # t => /\ pc'[u] = pc[u] /\ child'[u] = child[u]
                                       /\ tag'[u] = tag[u]
    BY <1>0, <1>5 DEF Return, Active
  <2>2. \/ pc'[t] = "registered" /\ UNCHANGED <<child, tag>>
        \/ pc'[t] = "none"
    BY <1>0, <1>5 DEF Return
  <2>3. \A u \in Threads : u # t => ~Active(u)
    BY <2>1 DEF HoldInv
  <2>4. Device /\ Alone
    <3>1. \A u \in Threads : pc'[u] # "none" =>
            pc[u] # "none" /\ child'[u] = child[u] /\ tag'[u] = tag[u]
      BY <2>1, <2>2 DEF Active
    <3> QED
      BY <1>1, <3>1 DEF HoldInv
  <2> QED
    BY <2>1, <2>2, <2>3, <2>4 DEF HoldInv, Active
<1>6. ASSUME NEW t \in Threads, NEW f \in Fields, Store(t, f) PROVE HoldInv'
  <2>1. /\ Active(t) /\ UNCHANGED <<lock, pc, child, tag>>
        /\ todo' = [todo EXCEPT ![t] = @ \ {f}]
    BY <1>6, StoreEffect
  <2>2. Device /\ Alone
    BY <1>2, <2>1
  <2> QED
    BY <1>0, <2>1, <2>2 DEF HoldInv, Active
<1>7. CASE UNCHANGED <<clientVars, lock>>
  <2>1. UNCHANGED <<pc, child, tag, todo, lock>>
    BY <1>7 DEF clientVars
  <2>2. Device /\ Alone
    BY <1>2, <2>1
  <2> QED
    BY <2>1, <2>2 DEF HoldInv, Active
<1> QED
  BY <1>3, <1>4, <1>5, <1>6, <1>7, ClientSteps

LEMMA EntryKept ==
  ASSUME TypeOK, HoldInv, EntryInv, [Next]_vars
  PROVE EntryInv'
<1>0. /\ pc \in [Threads -> {"none", "storing", "registered", "zeroing"}]
      /\ todo \in [Threads -> SUBSET Fields]
      /\ child \in [Threads -> 0 .. Len(children)] /\ tag \in [Threads -> Tags \cup {0}]
  BY DEF TypeOK
<1>1. ASSUME NEW t \in Threads, Register(t) PROVE EntryInv'
  <2>1. PICK i \in DOMAIN children, k \in Tags :
          /\ ~Held(i, k)
          /\ child' = [child EXCEPT ![t] = i] /\ tag' = [tag EXCEPT ![t] = k]
    BY <1>1, FoundFree
  <2>2. /\ pc[t] = "none" /\ UNCHANGED unsolitCallbacks
        /\ pc' = [pc EXCEPT ![t] = "storing"] /\ todo' = [todo EXCEPT ![t] = Fields]
    BY <1>1 DEF Register
  <2>3. \A u \in Threads : u # t => /\ pc'[u] = pc[u] /\ todo'[u] = todo[u]
                                    /\ child'[u] = child[u] /\ tag'[u] = tag[u]
    BY <1>0, <2>1, <2>2
  <2>4. pc'[t] = "storing" /\ Fields \ todo'[t] = {}
    BY <1>0, <2>2
  <2>5. \A h \in Kids, l \in Tags : Held(h, l) => Held(h, l)'
    BY <2>2, <2>3 DEF Held
  <2>6. \A u \in Threads : Active(u)' => u = t \/ (Active(u) /\ Meant(u)' = Meant(u))
    BY <2>3 DEF Active, Meant
  <2> QED
    BY <2>2, <2>3, <2>4, <2>5, <2>6 DEF EntryInv
<1>2. ASSUME NEW t \in Threads, Unregister(t) PROVE EntryInv'
  <2>1. /\ pc[t] = "registered" /\ UNCHANGED <<child, tag, unsolitCallbacks>>
        /\ pc' = [pc EXCEPT ![t] = "zeroing"] /\ todo' = [todo EXCEPT ![t] = Fields]
    BY <1>2 DEF Unregister
  <2>2. \A u \in Threads : u # t => pc'[u] = pc[u] /\ todo'[u] = todo[u]
    BY <1>0, <2>1
  <2>3. pc'[t] = "zeroing" /\ Fields \ todo'[t] = {}
    BY <1>0, <2>1
  <2>4. \A h \in Kids, l \in Tags : Held(h, l) => Held(h, l)'
    BY <2>1, <2>2, <2>3 DEF Held
  <2>5. \A u \in Threads : Active(u)' => u = t \/ (Active(u) /\ Meant(u)' = Meant(u))
    BY <2>2 DEF Active, Meant
  <2> QED
    BY <2>1, <2>2, <2>3, <2>4, <2>5 DEF EntryInv
<1>3. ASSUME NEW t \in Threads, Return(t) PROVE EntryInv'
  <2>1. /\ Active(t) /\ todo[t] = {} /\ UNCHANGED <<todo, unsolitCallbacks>>
        /\ \A u \in Threads : u # t => /\ pc'[u] = pc[u] /\ child'[u] = child[u]
                                       /\ tag'[u] = tag[u]
    BY <1>0, <1>3 DEF Return, Active
  <2>2. child[t] \in Kids /\ tag[t] \in Tags
    BY <2>1, EntryPlace DEF Active
  <2> DEFINE e == unsolitCallbacks[child[t]][tag[t]]
  <2>3. e = Meant(t)
    <3>1. e \in Entries /\ Meant(t) \in Entries
      BY <2>2, EntryFacts DEF TypeOK, Meant
    <3>2. \A f \in Fields : e[f] = Meant(t)[f]
      BY <2>1 DEF EntryInv
    <3> QED
      BY <3>1, <3>2 DEF Entries, Fields
  <2>4. \A u \in Threads : Active(u)' => Active(u) /\ u # t /\ Meant(u)' = Meant(u)
    BY <1>0, <1>3, <2>1 DEF Return, Active, Meant
  <2>5. CASE pc[t] = "storing"
    <3>1. pc'[t] = "registered" /\ UNCHANGED <<child, tag>> /\ e = EntryOf(t)
      BY <1>0, <1>3, <2>3, <2>5 DEF Return, Meant
    <3>2. \A h \in Kids, l \in Tags : Held(h, l) => Held(h, l)'
      BY <2>1, <3>1 DEF Held
    <3> QED
      BY <2>1, <2>4, <3>1, <3>2 DEF EntryInv
  <2>6. CASE pc[t] = "zeroing"
    <3>1. pc'[t] = "none" /\ e = EmptyEntry
      BY <1>0, <1>3, <2>3, <2>6 DEF Return, Meant
    <3>2. \A h \in Kids, l \in Tags :
            Held(h, l) => Held(h, l)' \/ (h = child[t] /\ l = tag[t])
      BY <2>1 DEF Held
    <3> QED
      BY <2>1, <2>4, <3>1, <3>2 DEF EntryInv
  <2> QED
    BY <2>1, <2>5, <2>6 DEF Active
<1>4. ASSUME NEW t \in Threads, NEW f \in Fields, Store(t, f) PROVE EntryInv'
  <2>1. /\ Active(t) /\ UNCHANGED <<pc, child, tag>>
        /\ todo' = [todo EXCEPT ![t] = @ \ {f}]
        /\ \A i \in Kids, k \in Tags :
              i # child[t] \/ k # tag[t] => unsolitCallbacks'[i][k] = unsolitCallbacks[i][k]
        /\ unsolitCallbacks'[child[t]][tag[t]][f] = Meant(t)[f]
        /\ \A g \in Fields \ {f} : unsolitCallbacks'[child[t]][tag[t]][g] =
                                   unsolitCallbacks[child[t]][tag[t]][g]
    BY <1>4, StoreEffect
  <2>2. ASSUME NEW u \in Threads, u # t, pc[u] # "none"
        PROVE unsolitCallbacks'[child[u]][tag[u]] = unsolitCallbacks[child[u]][tag[u]]
              /\ todo'[u] = todo[u]
    <3>1. child[u] # child[t] \/ tag[u] # tag[t]
      BY <2>1, <2>2 DEF HoldInv, Active
    <3> QED
      BY <1>0, <2>1, <2>2, <3>1, EntryPlace
  <2>3. Held(child[t], tag[t])
    BY <2>1 DEF Held, Active
  <2>4. \A h \in Kids, l \in Tags : ~Held(h, l)' => unsolitCallbacks'[h][l] = EmptyEntry
    BY <2>1, <2>3 DEF EntryInv, Held
  <2>5. ASSUME NEW u \in Threads, pc[u] = "registered"
        PROVE unsolitCallbacks'[child[u]][tag[u]] = EntryOf(u)
    BY <2>1, <2>2, <2>5 DEF EntryInv, Active
  <2>6. ASSUME NEW u \in Threads, Active(u), NEW g \in Fields \ todo'[u]
        PROVE unsolitCallbacks'[child[u]][tag[u]][g] = Meant(u)[g]
    <3>1. CASE u = t
      BY <1>0, <2>1, <2>6, <3>1 DEF EntryInv
    <3>2. CASE u # t
      BY <2>2, <2>6, <3>2 DEF EntryInv, Active
    <3> QED
      BY <3>1, <3>2
  <2> QED
    BY <2>1, <2>4, <2>5, <2>6 DEF EntryInv, Active, Meant
<1>5. CASE UNCHANGED <<clientVars, lock>>
  BY <1>5 DEF EntryInv, clientVars, Active, Meant, Held
<1> QED
  BY <1>1, <1>2, <1>3, <1>4, <1>5, ClientSteps
-----------------------------------------------------------------------------
(* What the DPC copies. *)

LEMMA CopyKept ==
  ASSUME TypeOK, ChildInv, HoldInv, EntryInv, CopyInv, [Next]_vars
  PROVE CopyInv'
<1> DEFINE Place == dpc' = "copy" =>
             to' \in DOMAIN children' /\ children'[to'].addr = from' /\ at' \in Tags
           Copied == dpc' = "copy" /\ ~disturbed' =>
             /\ ~Working(to, at)'
             /\ \A f \in Fields \ toCopy' : copy'[f] = unsolitCallbacks'[to'][at'][f]
<1>0. /\ pc \in [Threads -> {"none", "storing", "registered", "zeroing"}]
      /\ child \in [Threads -> 0 .. Len(children)] /\ tag \in [Threads -> Tags \cup {0}]
      /\ copy \in Entries /\ toCopy \subseteq Fields
  BY DEF TypeOK
<1>1. ASSUME UNCHANGED <<dpc, to, from, at>> PROVE Place
  BY <1>1, ChildrenStay DEF CopyInv
\* A step that leaves the DPC's entry alone.
<1>2. ASSUME UNCHANGED <<dpc, from, to, at, copy, toCopy>>,
             ~disturbed' /\ dpc = "copy" =>
                ~disturbed /\ ~Working(to, at)'
                /\ unsolitCallbacks'[to][at] = unsolitCallbacks[to][at]
      PROVE CopyInv'
  <2>1. Copied
    BY <1>2 DEF CopyInv
  <2> QED
    BY <1>1, <1>2, <2>1 DEF CopyInv
<1>3. ASSUME UNCHANGED <<dpcVars, clientVars, disturbed>> PROVE CopyInv'
  BY <1>2, <1>3 DEF CopyInv, dpcVars, clientVars, Working
<1>4. ASSUME NEW t \in Threads, Register(t) PROVE CopyInv'
  <2>1. PICK i \in DOMAIN children, k \in Tags :
          /\ child' = [child EXCEPT ![t] = i] /\ tag' = [tag EXCEPT ![t] = k]
          /\ disturbed' = (disturbed \/ (dpc # "idle" /\ to = i /\ at = k))
    BY <1>4, FoundFree
  <2>2. /\ UNCHANGED <<dpc, from, to, at, copy, toCopy, unsolitCallbacks>>
        /\ pc' = [pc EXCEPT ![t] = "storing"]
    BY <1>4 DEF Register, dpcVars
  <2>3. ASSUME ~disturbed', dpc = "copy" PROVE ~Working(to, at)'
    <3>1. to # i \/ at # k
      BY <2>1, <2>3
    <3>2. ~Working(to, at)
      BY <2>1, <2>3 DEF CopyInv
    <3>3. ASSUME NEW u \in Threads, pc'[u] \in {"storing", "zeroing"},
                 child'[u] = to, tag'[u] = at
          PROVE FALSE
      <4>1. CASE u = t
        BY <1>0, <2>1, <3>1, <3>3, <4>1
      <4>2. CASE u # t
        BY <1>0, <2>1, <2>2, <3>2, <3>3, <4>2 DEF Working
      <4> QED
        BY <4>1, <4>2
    <3> QED
      BY <2>2, <3>3 DEF Working
  <2> QED
    BY <1>2, <2>1, <2>2, <2>3
<1>5. ASSUME NEW t \in Threads, Unregister(t) PROVE CopyInv'
  <2>1. /\ UNCHANGED <<dpc, from, to, at, copy, toCopy, unsolitCallbacks, child, tag>>
        /\ pc' = [pc EXCEPT ![t] = "zeroing"]
        /\ disturbed' = (disturbed \/ (dpc # "idle" /\ to = child[t] /\ at = tag[t]))
    BY <1>5 DEF Unregister, dpcVars, Disturbs
  <2>2. ASSUME ~disturbed', dpc = "copy" PROVE ~Working(to, at)'
    <3>1. to # child[t] \/ at # tag[t]
      BY <2>1, <2>2
    <3>2. ~Working(to, at)
      BY <2>1, <2>2 DEF CopyInv
    <3> QED
      BY <1>0, <2>1, <3>1, <3>2 DEF Working
  <2> QED
    BY <1>2, <2>1, <2>2
<1>6. ASSUME NEW t \in Threads, Return(t) PROVE CopyInv'
  <2>1. /\ UNCHANGED <<dpc, from, to, at, copy, toCopy, unsolitCallbacks, disturbed>>
        /\ pc'[t] \notin {"storing", "zeroing"}
        /\ \A u \in Threads : u # t => /\ pc'[u] = pc[u] /\ child'[u] = child[u]
                                       /\ tag'[u] = tag[u]
    BY <1>0, <1>6 DEF Return, dpcVars
  <2>2. Working(to, at)' => Working(to, at)
    BY <2>1 DEF Working
  <2> QED
    BY <1>2, <2>1, <2>2 DEF CopyInv
<1>7. ASSUME NEW t \in Threads, NEW f \in Fields, Store(t, f) PROVE CopyInv'
  <2>1. /\ Active(t) /\ UNCHANGED <<pc, child, tag>>
        /\ \A i \in Kids, k \in Tags :
              i # child[t] \/ k # tag[t] => unsolitCallbacks'[i][k] = unsolitCallbacks[i][k]
    BY <1>7, StoreEffect
  <2>2. UNCHANGED <<dpc, from, to, at, copy, toCopy, disturbed>>
    BY <1>7 DEF Store, dpcVars
  <2>3. ASSUME ~disturbed, dpc = "copy"
        PROVE ~Working(to, at)' /\ unsolitCallbacks'[to][at] = unsolitCallbacks[to][at]
    <3>1. to \in Kids /\ at \in Tags /\ ~Working(to, at)
      BY <2>3, ChildType DEF CopyInv
    <3>2. to # child[t] \/ at # tag[t]
      BY <2>1, <3>1 DEF Working, Active
    <3> QED
      BY <2>1, <2>2, <3>1, <3>2 DEF Working
  <2> QED
    BY <1>2, <2>2, <2>3
<1>8. ASSUME NEW a \in Addrs, NEW k \in Tags, DpcTake(a, k) PROVE CopyInv'
  <2>1. UNCHANGED <<busVars, clientVars>> /\ codecs[a] # 0 /\ dpc = "idle"
    BY <1>8 DEF DpcTake
  <2>2. \/ UNCHANGED <<dpcVars, disturbed>>
        \/ /\ dpc' = "copy" /\ from' = a /\ to' = codecs[a] /\ at' = k /\ toCopy' = Fields
           /\ disturbed' = Working(codecs[a], k)
    BY <1>8 DEF DpcTake
  <2>3. ASSUME dpc' = "copy", from' = a, to' = codecs[a], at' = k, toCopy' = Fields,
               disturbed' = Working(codecs[a], k)
        PROVE CopyInv'
    <3>1. Place
      BY <2>1, <2>3 DEF ChildInv, busVars
    <3>2. Fields \ toCopy' = {}
      BY <2>3
    <3>3. ~disturbed' => ~Working(to, at)'
      BY <2>1, <2>3 DEF Working, clientVars
    <3> QED
      BY <2>3, <3>1, <3>2, <3>3 DEF CopyInv
  <2> QED
    BY <1>3, <2>1, <2>2, <2>3
<1>9. ASSUME NEW f \in Fields, DpcCopy(f) PROVE CopyInv'
  <2>1. UNCHANGED <<busVars, clientVars, dpc, from, to, at, disturbed>> /\ f \in toCopy
    BY <1>9 DEF DpcCopy
  <2>2. \/ UNCHANGED <<copy, toCopy>>
        \/ copy' = [copy EXCEPT ![f] = unsolitCallbacks[to][at][f]] /\ toCopy' = toCopy \ {f}
    BY <1>9 DEF DpcCopy
  <2>3. CASE UNCHANGED <<copy, toCopy>>
    BY <1>3, <2>1, <2>3 DEF dpcVars
  <2>4. CASE copy' = [copy EXCEPT ![f] = unsolitCallbacks[to][at][f]] /\ toCopy' = toCopy \ {f}
    <3>1. copy'[f] = unsolitCallbacks[to][at][f] /\ \A g \in Fields \ {f} : copy'[g] = copy[g]
      <4>1. CASE f = "inUse"
        BY <1>0, <2>4, <4>1 DEF Entries, Fields
      <4>2. CASE f = "Context"
        BY <1>0, <2>4, <4>2 DEF Entries, Fields
      <4>3. CASE f = "Routine"
        BY <1>0, <2>4, <4>3 DEF Entries, Fields
      <4> QED
        BY <4>1, <4>2, <4>3 DEF Fields
    <3>2. UNCHANGED unsolitCallbacks /\ Working(to, at)' = Working(to, at)
      BY <2>1 DEF clientVars, Working
    <3>3. Copied
      BY <2>1, <2>4, <3>1, <3>2 DEF CopyInv
    <3>4. dpc # "idle"
      BY <2>1 DEF CopyInv
    <3> QED
      BY <1>1, <2>1, <3>3, <3>4 DEF CopyInv
  <2> QED
    BY <2>2, <2>3, <2>4
<1>10. CASE DpcCall
  BY <1>10 DEF CopyInv, DpcCall
<1>11. CASE Bus \/ UNCHANGED vars
  <2>1. UNCHANGED <<dpcVars, clientVars, disturbed>>
    BY <1>11 DEF Bus, ScanAddr, CreatePdo, RemovePdo, GraphicsOn, EjectDropped, EjectCheck,
                 EjectRead, EjectMark, vars
  <2> QED
    BY <1>3, <2>1
<1> QED
  BY <1>4, <1>5, <1>6, <1>7, <1>8, <1>9, <1>10, <1>11 DEF Next, Run, Dpc, Client, Undefined
-----------------------------------------------------------------------------
(* Types. *)

LEMMA TypeInit ==
  Init => TypeOK /\ ChildInv /\ OneDevice /\ EjectInv /\ FirstInv
          /\ HoldInv /\ EntryInv /\ CopyInv
<1> SUFFICES ASSUME Init
             PROVE TypeOK /\ ChildInv /\ OneDevice /\ EjectInv /\ FirstInv
                   /\ HoldInv /\ EntryInv /\ CopyInv
  OBVIOUS
<1>1. children \in Seq(Child) /\ Len(children) = 0 /\ DOMAIN children = {}
  BY EmptySeq DEF Init
<1>2. TypeOK
  <2>1. 0 \in 0 .. Len(children) /\ Len(children) <= MaxChildren
    BY <1>1, AddrAssumption
  <2>2. children \in Seq([addr : Addrs, junk : Junk, present : BOOLEAN,
                         dev : {"pending", "created", "freed"}])
    BY <1>1 DEF Child
  <2>3. codecs \in [Addrs -> 0 .. Len(children)] /\ child \in [Threads -> 0 .. Len(children)]
        /\ to \in 0 .. Len(children)
    BY <2>1 DEF Init
  <2>4. ids \in [addr : {Gfx}, junk : Junk \cup {NULL}]
        /\ unsolitCallbacks \in [Kids -> [Tags -> Entries]] /\ copy \in Entries
    BY EntryFacts DEF Init, NoIds
  <2> QED
    BY <2>1, <2>2, <2>3, <2>4, AddrAssumption DEF Init, TypeOK
<1>3. ChildInv /\ OneDevice /\ EjectInv /\ FirstInv
  BY <1>1 DEF Init, ChildInv, OneDevice, EjectInv, FirstInv, OneOfGfx
<1>4. HoldInv /\ EntryInv /\ CopyInv
  BY DEF Init, HoldInv, EntryInv, CopyInv, Active
<1> QED
  BY <1>2, <1>3, <1>4

\* The bus keeps its types.
LEMMA BusTyped ==
  ASSUME TypeOK, ChildInv, EjectInv, [Next]_vars
  PROVE /\ scan' \subseteq Addrs /\ codecs' \in [Addrs -> 0 .. Len(children')]
        /\ connected' \in BOOLEAN /\ inF0' \in BOOLEAN /\ eject' \in {"idle", "read", "mark"}
        /\ ids' \in [addr : {Gfx}, junk : Junk \cup {NULL}]
<1> DEFINE Typed ==
      /\ scan' \subseteq Addrs /\ codecs' \in [Addrs -> 0 .. Len(children')]
      /\ connected' \in BOOLEAN /\ inF0' \in BOOLEAN /\ eject' \in {"idle", "read", "mark"}
      /\ ids' \in [addr : {Gfx}, junk : Junk \cup {NULL}]
<1>0. /\ scan \subseteq Addrs /\ codecs \in [Addrs -> 0 .. Len(children)]
      /\ connected \in BOOLEAN /\ inF0 \in BOOLEAN /\ eject \in {"idle", "read", "mark"}
      /\ ids \in [addr : {Gfx}, junk : Junk \cup {NULL}] /\ Gfx \in Addrs
  BY AddrAssumption DEF TypeOK
<1>1. codecs \in [Addrs -> 0 .. Len(children')] /\ Len(children) <= Len(children')
      /\ Len(children') \in Nat /\ Len(children) \in Nat
  BY <1>0, ChildrenStay, ChildType, AddrAssumption
<1>2. ASSUME NEW a \in Addrs, ScanAddr(a) PROVE Typed
  BY <1>0, <1>1, <1>2 DEF ScanAddr
<1>3. ASSUME NEW i \in DOMAIN children, CreatePdo(i) PROVE Typed
  <2>1. i \in 0 .. Len(children')
    BY <1>1, ChildType
  <2> QED
    BY <1>0, <1>1, <1>3, <2>1 DEF CreatePdo
<1>4. ASSUME NEW i \in DOMAIN children, RemovePdo(i) PROVE Typed
  BY <1>0, <1>1, <1>4 DEF RemovePdo
<1>5. CASE GraphicsOn \/ EjectDropped \/ EjectCheck
  BY <1>0, <1>1, <1>5 DEF GraphicsOn, EjectDropped, EjectCheck
<1>6. CASE EjectRead
  <2>1. codecs[Gfx] \in DOMAIN children /\ children[codecs[Gfx]].addr = Gfx
    BY <1>0, <1>6 DEF EjectInv, ChildInv, EjectRead
  <2>2. children[codecs[Gfx]] \in Child
    BY <2>1, ChildType
  <2>3. ids' = ids \/ ids' = [addr |-> Gfx, junk |-> children[codecs[Gfx]].junk]
    BY <1>6, <2>1 DEF EjectRead
  <2> QED
    BY <1>0, <1>1, <1>6, <2>2, <2>3 DEF EjectRead, Child
<1>7. CASE EjectMark
  BY <1>0, <1>1, <1>7 DEF EjectMark, NoIds
<1>8. CASE UNCHANGED busVars
  BY <1>0, <1>1, <1>8 DEF busVars
<1> QED
  BY <1>2, <1>3, <1>4, <1>5, <1>6, <1>7, <1>8, BusSteps

\* The threads, the lock and the tables keep their types.
LEMMA ClientTyped ==
  ASSUME TypeOK, HoldInv, EntryInv, [Next]_vars
  PROVE /\ lock' \in Threads \cup {NULL}
        /\ unsolitCallbacks' \in [Kids -> [Tags -> Entries]]
        /\ pc' \in [Threads -> {"none", "storing", "registered", "zeroing"}]
        /\ child' \in [Threads -> 0 .. Len(children')]
        /\ tag' \in [Threads -> Tags \cup {0}] /\ todo' \in [Threads -> SUBSET Fields]
<1> DEFINE Typed ==
      /\ lock' \in Threads \cup {NULL}
      /\ unsolitCallbacks' \in [Kids -> [Tags -> Entries]]
      /\ pc' \in [Threads -> {"none", "storing", "registered", "zeroing"}]
      /\ child' \in [Threads -> 0 .. Len(children')]
      /\ tag' \in [Threads -> Tags \cup {0}] /\ todo' \in [Threads -> SUBSET Fields]
<1>0. /\ lock \in Threads \cup {NULL}
      /\ unsolitCallbacks \in [Kids -> [Tags -> Entries]]
      /\ pc \in [Threads -> {"none", "storing", "registered", "zeroing"}]
      /\ tag \in [Threads -> Tags \cup {0}] /\ todo \in [Threads -> SUBSET Fields]
  BY DEF TypeOK
<1>1. child \in [Threads -> 0 .. Len(children')] /\ DOMAIN children \subseteq 0 .. Len(children')
      /\ 0 \in 0 .. Len(children')
  BY ChildrenStay, ChildType, AddrAssumption DEF TypeOK
<1>2. ASSUME NEW t \in Threads, Register(t) PROVE Typed
  <2>1. PICK i \in DOMAIN children, k \in Tags :
          child' = [child EXCEPT ![t] = i] /\ tag' = [tag EXCEPT ![t] = k]
    BY <1>2, FoundFree
  <2> QED
    BY <1>0, <1>1, <1>2, <2>1 DEF Register
<1>3. ASSUME NEW t \in Threads, Unregister(t) PROVE Typed
  BY <1>0, <1>1, <1>3 DEF Unregister
<1>4. ASSUME NEW t \in Threads, Return(t) PROVE Typed
  BY <1>0, <1>1, <1>4 DEF Return
<1>5. ASSUME NEW t \in Threads, NEW f \in Fields, Store(t, f) PROVE Typed
  <2>1. /\ UNCHANGED <<lock, pc, child, tag>> /\ todo' = [todo EXCEPT ![t] = @ \ {f}]
        /\ unsolitCallbacks' \in [Kids -> [Tags -> Entries]]
    BY <1>5, StoreEffect
  <2> QED
    BY <1>0, <1>1, <2>1
<1>6. CASE UNCHANGED <<clientVars, lock>>
  BY <1>0, <1>1, <1>6 DEF clientVars
<1> QED
  BY <1>2, <1>3, <1>4, <1>5, <1>6, ClientSteps

\* The DPC keeps its types.
LEMMA DpcTyped ==
  ASSUME TypeOK, CopyInv, ChildInv, [Next]_vars
  PROVE /\ dpc' \in {"idle", "copy"} /\ from' \in Addrs /\ to' \in 0 .. Len(children')
        /\ at' \in Tags \cup {0} /\ copy' \in Entries /\ toCopy' \subseteq Fields
        /\ disturbed' \in BOOLEAN /\ badRead' \in BOOLEAN
<1> DEFINE Typed ==
      /\ dpc' \in {"idle", "copy"} /\ from' \in Addrs /\ to' \in 0 .. Len(children')
      /\ at' \in Tags \cup {0} /\ copy' \in Entries /\ toCopy' \subseteq Fields
      /\ disturbed' \in BOOLEAN /\ badRead' \in BOOLEAN
<1>0. /\ dpc \in {"idle", "copy"} /\ from \in Addrs
      /\ at \in Tags \cup {0} /\ copy \in Entries /\ toCopy \subseteq Fields
      /\ disturbed \in BOOLEAN /\ badRead \in BOOLEAN /\ Gfx \in Addrs
  BY AddrAssumption DEF TypeOK
<1>1. to \in 0 .. Len(children') /\ DOMAIN children \subseteq 0 .. Len(children')
      /\ 0 \in 0 .. Len(children')
  BY ChildrenStay, ChildType, AddrAssumption DEF TypeOK
<1>2. ASSUME NEW a \in Addrs, NEW k \in Tags, DpcTake(a, k) PROVE Typed
  <2>1. codecs[a] \in 0 .. Len(children')
    BY <1>1, <1>2 DEF DpcTake, ChildInv
  <2>2. Working(codecs[a], k) \in BOOLEAN
    BY DEF Working
  <2> QED
    BY <1>0, <1>1, <1>2, <2>1, <2>2 DEF DpcTake, dpcVars
<1>3. ASSUME NEW f \in Fields, DpcCopy(f) PROVE Typed
  <2>1. to \in Kids /\ at \in Tags
    BY <1>0, <1>3, ChildType DEF DpcCopy, CopyInv
  <2>2. unsolitCallbacks[to][at] \in Entries
    BY <2>1 DEF TypeOK
  <2>3. [copy EXCEPT ![f] = unsolitCallbacks[to][at][f]] \in Entries
    <3>1. CASE f = "inUse"
      BY <1>0, <2>2, <3>1 DEF Entries
    <3>2. CASE f = "Context"
      BY <1>0, <2>2, <3>2 DEF Entries
    <3>3. CASE f = "Routine"
      BY <1>0, <2>2, <3>3 DEF Entries
    <3> QED
      BY <3>1, <3>2, <3>3 DEF Fields
  <2>4. copy' \in Entries /\ toCopy' \subseteq Fields /\ badRead' \in BOOLEAN
    BY <1>0, <1>3, <2>3 DEF DpcCopy
  <2> QED
    BY <1>0, <1>1, <1>3, <2>4 DEF DpcCopy
<1>4. CASE DpcCall
  BY <1>0, <1>1, <1>4, EntryFacts DEF DpcCall
<1>5. ASSUME UNCHANGED dpcVars, disturbed' \in BOOLEAN, badRead' \in BOOLEAN PROVE Typed
  BY <1>0, <1>1, <1>5 DEF dpcVars
<1>6. CASE Bus
  <2>1. UNCHANGED <<dpcVars, disturbed>> /\ badRead' \in {badRead, TRUE}
    BY <1>6 DEF Bus, ScanAddr, CreatePdo, RemovePdo, GraphicsOn, EjectDropped, EjectCheck,
                EjectRead, EjectMark
  <2> QED
    BY <1>0, <1>5, <2>1
<1>7. ASSUME NEW t \in Threads, Client(t) PROVE Typed
  <2>1. UNCHANGED <<dpcVars, badRead>>
    BY <1>7 DEF Client, Register, Unregister, Store, Return
  <2>2. disturbed' \in BOOLEAN
    BY <1>0, <1>7 DEF Client, Register, Unregister, Store, Return, Disturbs
  <2> QED
    BY <1>0, <1>5, <2>1, <2>2
<1>8. CASE UNCHANGED vars
  BY <1>0, <1>5, <1>8 DEF vars
<1> QED
  BY <1>2, <1>3, <1>4, <1>6, <1>7, <1>8 DEF Next, Run, Dpc, Undefined

LEMMA TypeKept ==
  ASSUME TypeOK, ChildInv, EjectInv, HoldInv, EntryInv, CopyInv, [Next]_vars
  PROVE TypeOK'
<1>1. children' \in Seq(Child) /\ Len(children') <= MaxChildren
  BY ChildrenStay, AddrAssumption
<1> QED
  BY <1>1, BusTyped, ClientTyped, DpcTyped DEF TypeOK, Child
-----------------------------------------------------------------------------
(* The theorems. *)

Ind == /\ TypeOK /\ ChildInv /\ OneDevice /\ EjectInv /\ FirstInv
       /\ HoldInv /\ EntryInv /\ CopyInv

\* Ind holds at first and every step keeps it.
LEMMA IndHolds == Spec => []Ind
<1>1. Init => Ind
  BY TypeInit DEF Ind
<1>2. Ind /\ [Next]_vars => Ind'
  BY TypeKept, ChildKept, OneDeviceKept, EjectKept, FirstKept, HoldKept, EntryKept, CopyKept
     DEF Ind
<1> QED
  BY <1>1, <1>2, PTL DEF Spec

\* The descriptions, the tables of callbacks and the DPC keep their types;
\* codecs[] never points beyond the devices made.
THEOREM TypeCorrect == Spec => []TypeOK
<1>1. Ind => TypeOK
  BY DEF Ind
<1> QED
  BY <1>1, IndHolds, PTL

\* HDA_RegisterEventCallback gives each callback an entry of its own, whole
\* once the call has returned, whatever threads call at once and on however
\* many devices; the other entries are empty.
THEOREM TagsNotShared == Spec => []TagsAreOwn
<1>1. Ind => TagsAreOwn
  <2> SUFFICES ASSUME Ind, NEW i \in Kids, NEW k \in Tags
               PROVE LET holders == {t \in Threads : pc[t] = "registered" /\ child[t] = i
                                                     /\ tag[t] = k}
                     IN  /\ Cardinality(holders) <= 1
                         /\ ~Working(i, k) =>
                               \/ holders = {} /\ unsolitCallbacks[i][k] = EmptyEntry
                               \/ \E t \in holders : unsolitCallbacks[i][k] = EntryOf(t)
    BY DEF TagsAreOwn
  <2> DEFINE holders == {t \in Threads : pc[t] = "registered" /\ child[t] = i /\ tag[t] = k}
  <2>1. holders = {} \/ \E t \in Threads : holders = {t}
    BY DEF Ind, HoldInv
  <2>2. Cardinality(holders) <= 1
    <3>1. Cardinality(holders) \in {0, 1}
      BY <2>1, FS_EmptySet, FS_Singleton
    <3> QED
      BY <3>1
  <2>3. \A t \in holders : unsolitCallbacks[i][k] = EntryOf(t)
    BY DEF Ind, EntryInv
  <2>4. ASSUME holders = {}, ~Working(i, k) PROVE ~Held(i, k)
    BY <2>4 DEF Held, Working, Ind, TypeOK
  <2>5. ~Held(i, k) => unsolitCallbacks[i][k] = EmptyEntry
    BY DEF Ind, EntryInv
  <2> QED
    BY <2>1, <2>2, <2>3, <2>4, <2>5
<1> QED
  BY <1>1, IndHolds, PTL

\* HDAFlushRIRB, copying the entry without the lock, calls whoever registered
\* for the response's tag on a device of its codec, and nobody when nobody is,
\* unless a thread was at work on that entry since the copy began.
THEOREM ResponsesReach == Spec => []ResponsesReachTheirCallback
<1>1. Ind => ResponsesReachTheirCallback
  <2> DEFINE holders == {t \in Threads : pc[t] = "registered" /\ child[t] = to /\ tag[t] = at}
  <2> SUFFICES ASSUME Ind, dpc = "copy", toCopy = {}, ~disturbed
               PROVE /\ children[to].addr = from
                     /\ Calls <=> holders # {}
                     /\ \A t \in holders : copy = EntryOf(t)
    BY DEF ResponsesReachTheirCallback
  <2>1. /\ to \in Kids /\ at \in Tags /\ children[to].addr = from /\ ~Working(to, at)
        /\ \A f \in Fields : copy[f] = unsolitCallbacks[to][at][f]
    BY ChildType DEF Ind, CopyInv
  <2>2. copy \in Entries /\ unsolitCallbacks[to][at] \in Entries
    BY <2>1 DEF Ind, TypeOK
  <2>3. copy = unsolitCallbacks[to][at]
    BY <2>1, <2>2 DEF Entries, Fields
  <2>4. \A t \in holders : copy = EntryOf(t)
    BY <2>3 DEF Ind, EntryInv
  <2>5. ASSUME holders = {} PROVE copy = EmptyEntry
    <3>1. ~Held(to, at)
      BY <2>1, <2>5 DEF Held, Working, Ind, TypeOK
    <3> QED
      BY <2>1, <2>3, <3>1 DEF Ind, EntryInv
  <2>6. Calls <=> holders # {}
    BY <2>4, <2>5, EntryFacts DEF Calls
  <2> QED
    BY <2>1, <2>4, <2>6
<1> QED
  BY <1>1, IndHolds, PTL

\* A codec whose descriptions agree has one device at most that is present,
\* and codecs[] points to it once Bus_CreatePdo made it.
THEOREM PointersAreFollowed == Spec => []PointersFollow
<1>1. Ind => PointersFollow
  <2>1. Ind => \A a : Mixed(a) <=> ~Uniform(a)
    BY MixedUniform DEF Ind
  <2> QED
    BY <2>1 DEF Ind, OneDevice, PointersFollow
<1> QED
  BY <1>1, IndHolds, PTL

\* Once EjectGraphicsCodec has returned, no device of the graphics codec stays
\* present, or it has returned at sgpc.cpp:100: then GraphicsCodecConnected
\* still holds and the device that stays is the only one the codec ever had.
\* This if the unassigned bytes agree and no deleted context was read.
THEOREM EjectedIsGone == Spec => []GoneWhenEjected
<1>1. Ind => GoneWhenEjected
  <2> SUFFICES ASSUME Ind, eject = "idle", ~inF0, ~badRead, ~Mixed(Gfx)
               PROVE LET ofGfx == {i \in DOMAIN children : children[i].addr = Gfx}
                     IN  \/ \A i \in ofGfx : ~children[i].present
                         \/ connected /\ \A i, j \in ofGfx : i = j
    BY DEF GoneWhenEjected
  <2>1. Uniform(Gfx)
    BY MixedUniform DEF Ind
  <2>2. CASE connected
    BY <2>1, <2>2 DEF Ind, FirstInv, OneOfGfx
  <2>3. CASE ~connected
    BY <2>1, <2>3 DEF Ind, EjectInv
  <2> QED
    BY <2>2, <2>3
<1> QED
  BY <1>1, IndHolds, PTL
=============================================================================
