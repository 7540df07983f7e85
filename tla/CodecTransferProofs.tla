------------------------- MODULE CodecTransferProofs -------------------------
(***************************************************************************)
(* Theorems about CodecTransfer, for any calls on any codecs, any batches  *)
(* and any size of the CORB.                                               *)
(*                                                                         *)
(* BaseInv holds however calls, DPC and controller interleave: who holds   *)
(* the lock, what the CORB holds, and that each response is in one place.  *)
(* IdleInv counts the references.  Responses carry no command, so what an  *)
(* answer is credited to depends on who else is about: OneVerbInv follows  *)
(* calls of one verb that take turns on their codec (OneVerb), BatchInv    *)
(* batches that take turns and are answered in full (OneProcessor).        *)
(***************************************************************************)
EXTENDS CodecTransfer, FiniteSetTheorems, SequenceTheorems, TLAPS

Sending == {"check", "reserve", "post"}
Settling == {"wait", "waiting", "clear", "count", "settle"}
Refused == {"STATUS_RETRY", "STATUS_DEVICE_DOES_NOT_EXIST"}
Taken == {"credit", "shift", "decrement", "event"}

\* SendHDACmds runs under the lock, ...
LockInv == \A c \in Calls : pc[c] \in Sending <=> lock = c

\* ... and posts the verbs of its batch, unless it is refused.
AtInv ==
    \A c \in Calls :
        /\ at[c] \in 0 .. Count[c]
        /\ pc[c] \in {"idle", "lock"} => at[c] = 0
        /\ pc[c] \in Sending => at[c] < Count[c]
        /\ pc[c] \in Settling => at[c] = Count[c]
        /\ pc[c] \in {"out", "returned"} /\ at[c] < Count[c] => status[c] \in Refused
        /\ pc[c] \notin {"out", "returned"} => status[c] = "none"

\* A command that passed the check has room.
RoomInv ==
    \A c \in Calls : pc[c] \in {"reserve", "post"} => Len(posted) - fetched + 1 \in Slots

\* The DPC takes no response that is not there.
DpcInv ==
    /\ dpc # "idle" => left <= Len(rirb)
    /\ dpc = "test" => left > 0
    /\ dpc \in Taken => resp \in Transfers

\* Verbs are posted once, those of a call in their order.
PostedInv ==
    /\ fetched <= Len(posted)
    /\ \A i \in 1 .. Len(posted) : posted[i][2] <= at[posted[i][1]]
    /\ \A i, j \in 1 .. Len(posted) :
          i < j /\ posted[i][1] = posted[j][1] => posted[i][2] < posted[j][2]

Fetched == {posted[i] : i \in 1 .. fetched}

\* The response to a command that was fetched is in one place.
PlaceInv ==
    /\ InRirb \cup lost \cup Dispatching \subseteq Fetched
    /\ InRirb \cap lost = {} /\ Dispatching \cap (InRirb \cup lost) = {}
    /\ \A i, j \in 1 .. Len(rirb) : rirb[i] = rirb[j] => i = j

BaseInv ==
    /\ TypeOK /\ LockInv /\ AtInv /\ CorbIntact /\ RoomInv /\ DpcInv
    /\ PostedInv /\ PlaceInv
-----------------------------------------------------------------------------
(* Transfers, the ring and the RIRB. *)

\* A transfer is one of the verbs of a call on a codec.
LEMMA TransferParts ==
  ASSUME NEW t \in Transfers
  PROVE /\ t[1] \in Calls /\ t[2] \in 1 .. Count[t[1]] /\ t = <<t[1], t[2]>>
        /\ CodecOf[t[1]] \in Codecs
<1>1. PICK c \in Calls : \E k \in 1 .. Count[c] : t = <<c, k>>
  BY DEF Transfers
<1>2. PICK k \in 1 .. Count[c] : t = <<c, k>>
  BY <1>1
<1> QED
  BY <1>2 DEF Codecs

LEMMA TransferMade ==
  ASSUME NEW c \in Calls, NEW k \in 1 .. Count[c]
  PROVE <<c, k>> \in Transfers
BY DEF Transfers

\* Every call is on a codec.
LEMMA CodecKnown == \A c \in Calls : CodecOf[c] \in Codecs
BY DEF Codecs

\* The remainder of a position that is less than two rounds ahead.
LEMMA RingMod ==
  ASSUME NEW x \in 0 .. 2 * Entries - 1
  PROVE x % Entries = IF x < Entries THEN x ELSE x - Entries
<1>1. Entries \in Nat \ {0, 1}
  BY CallAssumption
<1> QED
  BY <1>1

\* The entry that follows.
LEMMA RingNext ==
  ASSUME NEW i \in Slots
  PROVE /\ NextEntry(i) \in Slots
        /\ NextEntry(i) = IF i + 1 = Entries THEN 0 ELSE i + 1
<1>1. Entries \in Nat \ {0, 1}
  BY CallAssumption
<1>2. i + 1 \in 0 .. 2 * Entries - 1 /\ i \in 0 .. Entries - 1
  BY <1>1 DEF Slots
<1>3. NextEntry(i) = IF i + 1 < Entries THEN i + 1 ELSE i + 1 - Entries
  <2> DEFINE x == i + 1
  <2>1. x \in 0 .. 2 * Entries - 1
    BY <1>2
  <2> HIDE DEF x
  <2>2. x % Entries = IF x < Entries THEN x ELSE x - Entries
    BY <2>1, RingMod
  <2> QED
    BY <1>1, <1>2, <2>2 DEF x, NextEntry, Slots
<1> QED
  BY <1>1, <1>2, <1>3 DEF Slots

\* The position n entries ahead, and the one behind it.
LEMMA RingAhead ==
  ASSUME NEW i \in Slots, NEW n \in 0 .. Entries
  PROVE /\ (i + n) % Entries \in Slots
        /\ (i + n) % Entries = IF i + n < Entries THEN i + n ELSE i + n - Entries
<1>1. Entries \in Nat \ {0, 1}
  BY CallAssumption
<1>2. i + n \in 0 .. 2 * Entries - 1 /\ i \in 0 .. Entries - 1
  BY <1>1 DEF Slots
<1>3. (i + n) % Entries = IF i + n < Entries THEN i + n ELSE i + n - Entries
  <2> DEFINE x == i + n
  <2>1. x \in 0 .. 2 * Entries - 1
    BY <1>2
  <2> HIDE DEF x
  <2>2. x % Entries = IF x < Entries THEN x ELSE x - Entries
    BY <2>1, RingMod
  <2> QED
    BY <1>1, <1>2, <2>2 DEF x, Slots
<1> QED
  BY <1>1, <1>2, <1>3 DEF Slots

\* The head of a sequence and what follows it.
LEMMA HeadTaken ==
  ASSUME NEW S, NEW s \in Seq(S), Len(s) > 0
  PROVE /\ Head(s) = s[1] /\ Head(s) \in S /\ Tail(s) \in Seq(S)
        /\ Len(s) \in Nat /\ Len(Tail(s)) = Len(s) - 1
        /\ \A i \in 1 .. Len(s) - 1 : Tail(s)[i] = s[i + 1]
<1>1. s # <<>> /\ Len(s) \in Nat
  BY LenProperties, EmptySeq
<1>2. Tail(s) \in Seq(S) /\ Len(Tail(s)) = Len(s) - 1 /\ Head(s) \in S
  BY <1>1, HeadTailProperties
<1> QED
  BY <1>1, <1>2

\* One more element at the end.
LEMMA Appended ==
  ASSUME NEW S, NEW s \in Seq(S), NEW e \in S
  PROVE /\ Append(s, e) \in Seq(S) /\ Len(s) \in Nat /\ Len(Append(s, e)) = Len(s) + 1
        /\ \A i \in 1 .. Len(s) : Append(s, e)[i] = s[i]
        /\ Append(s, e)[Len(s) + 1] = e
BY AppendProperties, LenProperties
-----------------------------------------------------------------------------
(* Types. *)

\* What the callers, the DPC and the hardware may do in one step.
LEMMA Steps ==
  ASSUME [Next]_vars
  PROVE \/ \E c \in Calls :
              \/ Begin(c) \/ AcquireLock(c) \/ Check(c) \/ Reserve(c) \/ PostVerb(c) \/ Wait(c)
              \/ Timeout(c) \/ ClearEvent(c) \/ CountValid(c) \/ Settle(c) \/ Return(c)
        \/ Interrupt \/ FlushReadWp \/ FlushTest \/ FlushCredit \/ FlushShift
        \/ FlushDecrement \/ FlushSetEvent \/ Fetch \/ Vanish
        \/ UNCHANGED vars
BY DEF Next, Caller, Dpc, AllReturned

\* What the controller fetches next.
LEMMA FetchedNext ==
  ASSUME TypeOK, CorbIntact, CORBRP # CORBWP
  PROVE /\ fetched < Len(posted) /\ Len(posted) \in Nat /\ fetched \in Nat
        /\ corb[NextEntry(CORBRP)] = posted[fetched + 1]
        /\ posted[fetched + 1] \in Transfers
<1> DEFINE n == Len(posted) - fetched
<1>1. /\ Len(posted) \in Nat /\ fetched \in Nat /\ n \in Slots /\ CORBRP \in Slots
      /\ CORBWP = (CORBRP + n) % Entries
      /\ \A i \in 1 .. n : corb[(CORBRP + i) % Entries] = posted[fetched + i]
  BY LenProperties DEF TypeOK, CorbIntact
<1>2. n # 0
  <2> SUFFICES ASSUME n = 0 PROVE CORBWP = CORBRP
    OBVIOUS
  <2>1. CORBRP + n = CORBRP /\ Entries \in Nat \ {0, 1}
    BY <1>1, CallAssumption DEF Slots
  <2>2. CORBRP \in 0 .. 2 * Entries - 1 /\ CORBRP < Entries
    BY <1>1, <2>1 DEF Slots
  <2>3. CORBRP % Entries = CORBRP
    BY <2>2, RingMod
  <2> QED
    BY <1>1, <2>1, <2>3
<1>3. 1 \in 1 .. n
  BY <1>1, <1>2 DEF Slots
<1>4. corb[(CORBRP + 1) % Entries] = posted[fetched + 1]
  BY <1>1, <1>3
<1>5. fetched + 1 \in 1 .. Len(posted)
  BY <1>1, <1>3
<1>6. posted[fetched + 1] \in Transfers
  BY <1>5, ElementOfSeq DEF TypeOK
<1> QED
  BY <1>1, <1>4, <1>5, <1>6 DEF NextEntry

\* The verb being posted is one of the call's batch.
LEMMA CurrentVerb ==
  ASSUME TypeOK, AtInv, NEW c \in Calls, pc[c] \in Sending
  PROVE /\ Current(c) = <<c, at[c] + 1>> /\ at[c] + 1 \in 1 .. Count[c]
        /\ Current(c) \in Transfers
<1>1. at[c] \in 0 .. Count[c] /\ at[c] < Count[c] /\ Count[c] \in Nat
  BY CallAssumption DEF AtInv
<1>2. at[c] + 1 \in 1 .. Count[c]
  BY <1>1
<1> QED
  BY <1>2, TransferMade DEF Current

\* The initial state is of the right types.
LEMMA TypeInit == Init => TypeOK
<1> SUFFICES ASSUME Init PROVE TypeOK
  OBVIOUS
<1>1. 0 \in Slots /\ rirb \in Seq(Transfers) /\ posted \in Seq(Transfers)
  BY CallAssumption, EmptySeq DEF Slots, Init
<1>2. /\ pc = [c \in Calls |-> "idle"] /\ at = [c \in Calls |-> 0]
      /\ slot = [c \in Calls |-> 0] /\ got = [c \in Calls |-> 0]
      /\ status = [c \in Calls |-> "none"]
      /\ input = [t \in Transfers |-> NULL] /\ lock = NULL /\ idleRefs = 0
      /\ cmds = [a \in Codecs |-> 0] /\ event = [a \in Codecs |-> FALSE]
      /\ xfer = [a \in Codecs |-> [i \in Slots |-> NULL]]
  BY DEF Init
<1>3. /\ processRirb = FALSE /\ dpc = "idle" /\ left = 0 /\ resp = NULL
      /\ corb = [i \in Slots |-> NULL] /\ CORBWP = 0 /\ CORBRP = 0
      /\ RIRBSTS = FALSE /\ gone = FALSE /\ lost = {} /\ fetched = 0
  BY DEF Init
<1>4. xfer \in [Codecs -> [Slots -> Transfers \cup {NULL}]]
  <2>1. [i \in Slots |-> NULL] \in [Slots -> Transfers \cup {NULL}]
    OBVIOUS
  <2> QED
    BY <1>2, <2>1
<1>5. /\ pc \in [Calls -> {"idle", "lock", "check", "reserve", "post", "wait", "waiting",
                            "clear", "count", "settle", "out", "returned"}]
      /\ at \in [Calls -> Nat] /\ slot \in [Calls -> Int] /\ got \in [Calls -> Nat]
      /\ status \in [Calls -> Statuses]
      /\ input \in [Transfers -> Transfers \cup {NULL}]
      /\ cmds \in [Codecs -> Int] /\ event \in [Codecs -> BOOLEAN]
  BY <1>2 DEF Statuses
<1>6. corb \in [Slots -> Transfers \cup {NULL}]
  BY <1>3
<1>7. /\ lock \in Calls \cup {NULL} /\ idleRefs \in Int /\ left \in Nat /\ fetched \in Nat
      /\ resp \in Transfers \cup {NULL} /\ lost \subseteq Transfers
      /\ dpc \in {"idle", "test", "credit", "shift", "decrement", "event"}
      /\ CORBWP \in Slots /\ CORBRP \in Slots
  BY <1>1, <1>2, <1>3
<1>8. processRirb \in BOOLEAN /\ RIRBSTS \in BOOLEAN /\ gone \in BOOLEAN
  BY <1>3
<1> QED
  BY <1>1, <1>4, <1>5, <1>6, <1>7, <1>8 DEF TypeOK

\* Every step keeps the types of the callers' variables, ...
LEMMA TypeCall ==
  ASSUME TypeOK, [Next]_vars
  PROVE /\ pc' \in [Calls -> {"idle", "lock", "check", "reserve", "post", "wait", "waiting",
                              "clear", "count", "settle", "out", "returned"}]
        /\ at' \in [Calls -> Nat] /\ slot' \in [Calls -> Int] /\ got' \in [Calls -> Nat]
        /\ status' \in [Calls -> Statuses]
        /\ lock' \in Calls \cup {NULL} /\ idleRefs' \in Int
<1> DEFINE P ==
    /\ pc' \in [Calls -> {"idle", "lock", "check", "reserve", "post", "wait", "waiting",
                          "clear", "count", "settle", "out", "returned"}]
    /\ at' \in [Calls -> Nat] /\ slot' \in [Calls -> Int] /\ got' \in [Calls -> Nat]
    /\ status' \in [Calls -> Statuses]
    /\ lock' \in Calls \cup {NULL} /\ idleRefs' \in Int
<1> USE DEF TypeOK, Goto, Finish, Statuses
<1>1. ASSUME NEW c \in Calls, Begin(c) \/ AcquireLock(c) \/ Check(c) PROVE P
  <2>1. CASE Begin(c)
    BY <2>1 DEF Begin
  <2>2. CASE AcquireLock(c)
    BY <2>2 DEF AcquireLock
  <2>3. CASE Check(c)
    BY <2>3 DEF Check
  <2> QED
    BY <1>1, <2>1, <2>2, <2>3
<1>2. ASSUME NEW c \in Calls, Reserve(c) PROVE P
  BY <1>2, CodecKnown DEF Reserve
<1>3. ASSUME NEW c \in Calls, PostVerb(c) PROVE P
  <2>1. at' = [at EXCEPT ![c] = at[c] + 1] /\ UNCHANGED <<slot, got, status, idleRefs>>
    BY <1>3 DEF PostVerb
  <2>2. pc' = [pc EXCEPT ![c] = "wait"] \/ pc' = [pc EXCEPT ![c] = "check"]
    BY <1>3 DEF PostVerb
  <2>3. lock' \in {NULL, lock}
    BY <1>3 DEF PostVerb
  <2>4. at' \in [Calls -> Nat]
    BY <2>1
  <2>5. pc' \in [Calls -> {"idle", "lock", "check", "reserve", "post", "wait", "waiting",
                           "clear", "count", "settle", "out", "returned"}]
    BY <2>2
  <2> QED
    BY <2>1, <2>3, <2>4, <2>5
<1>4. ASSUME NEW c \in Calls, Wait(c) \/ Timeout(c) \/ ClearEvent(c) PROVE P
  BY <1>4 DEF Wait, Timeout, ClearEvent
<1>5. ASSUME NEW c \in Calls, CountValid(c) PROVE P
  <2> DEFINE K == {k \in 1 .. Count[c] : input[<<c, k>>] # NULL}
  <2>1. Cardinality(K) \in Nat
    <3>1. IsFiniteSet(1 .. Count[c]) /\ K \subseteq 1 .. Count[c]
      BY CallAssumption, FS_Interval
    <3>2. IsFiniteSet(K)
      BY <3>1, FS_Subset
    <3> QED
      BY <3>2, FS_CardinalityType
  <2> HIDE DEF K
  <2>2. /\ got' = [got EXCEPT ![c] = Cardinality(K)]
        /\ status' = status \/ status' = [status EXCEPT ![c] = "STATUS_SUCCESS"]
        /\ pc' = [pc EXCEPT ![c] = "settle"] \/ pc' = [pc EXCEPT ![c] = "out"]
        /\ UNCHANGED <<at, slot, lock, idleRefs>>
    BY <1>5 DEF CountValid, K
  <2> QED
    BY <2>1, <2>2
<1>6. ASSUME NEW c \in Calls, Settle(c) \/ Return(c) PROVE P
  <2>1. CASE Settle(c)
    BY <2>1 DEF Settle
  <2>2. CASE Return(c)
    BY <2>2 DEF Return
  <2> QED
    BY <1>6, <2>1, <2>2
<1>7. CASE Interrupt \/ FlushReadWp \/ FlushTest \/ FlushCredit \/ FlushShift \/ FlushDecrement
           \/ Fetch \/ Vanish
  BY <1>7 DEF Interrupt, FlushReadWp, FlushTest, FlushCredit, FlushShift, FlushDecrement,
              Fetch, Vanish, callVars
<1>8. CASE FlushSetEvent
  BY <1>8 DEF FlushSetEvent
<1>9. CASE UNCHANGED vars
  BY <1>9 DEF vars, callVars
<1> QED
  BY <1>1, <1>2, <1>3, <1>4, <1>5, <1>6, <1>7, <1>8, <1>9, Steps

\* ... of what calls and DPC share, ...
LEMMA TypeShared ==
  ASSUME TypeOK, AtInv, DpcInv, [Next]_vars
  PROVE /\ input' \in [Transfers -> Transfers \cup {NULL}]
        /\ cmds' \in [Codecs -> Int] /\ xfer' \in [Codecs -> [Slots -> Transfers \cup {NULL}]]
        /\ event' \in [Codecs -> BOOLEAN]
<1> DEFINE P ==
    /\ input' \in [Transfers -> Transfers \cup {NULL}]
    /\ cmds' \in [Codecs -> Int] /\ xfer' \in [Codecs -> [Slots -> Transfers \cup {NULL}]]
    /\ event' \in [Codecs -> BOOLEAN]
<1> USE DEF TypeOK
<1>1. ASSUME NEW c \in Calls, Begin(c) \/ AcquireLock(c) \/ Wait(c) \/ Timeout(c)
                              \/ CountValid(c) \/ Return(c)
      PROVE P
  <2>1. UNCHANGED <<input, cmds, xfer, event>>
    BY <1>1 DEF Begin, AcquireLock, Wait, Timeout, CountValid, Return
  <2> QED
    BY <2>1
<1>2. ASSUME NEW c \in Calls, Check(c) PROVE P
  BY <1>2 DEF Check
<1>3. ASSUME NEW c \in Calls, Reserve(c) PROVE P
  BY <1>3, CodecKnown DEF Reserve
<1>4. ASSUME NEW c \in Calls, PostVerb(c) PROVE P
  <2>1. Current(c) \in Transfers /\ CodecOf[c] \in Codecs
    BY <1>4, CurrentVerb, CodecKnown DEF PostVerb, Sending
  <2>2. UNCHANGED <<input, cmds, event>>
    BY <1>4 DEF PostVerb
  <2>3. xfer' = xfer \/ (/\ slot[c] - 1 \in Slots
                         /\ xfer' = [xfer EXCEPT ![CodecOf[c]] =
                                       [xfer[CodecOf[c]] EXCEPT ![slot[c] - 1] = Current(c)]])
    BY <1>4 DEF PostVerb
  <2> DEFINE q == [xfer[CodecOf[c]] EXCEPT ![slot[c] - 1] = Current(c)]
  <2>4. q \in [Slots -> Transfers \cup {NULL}]
    BY <2>1
  <2> HIDE DEF q
  <2>5. xfer' = xfer \/ xfer' = [xfer EXCEPT ![CodecOf[c]] = q]
    BY <2>3 DEF q
  <2>6. xfer' \in [Codecs -> [Slots -> Transfers \cup {NULL}]]
    BY <2>1, <2>4, <2>5
  <2> QED
    BY <2>2, <2>6
<1>5. ASSUME NEW c \in Calls, ClearEvent(c) PROVE P
  BY <1>5 DEF ClearEvent
<1>6. ASSUME NEW c \in Calls, Settle(c) PROVE P
  BY <1>6, CodecKnown, CallAssumption DEF Settle
<1>7. CASE Interrupt \/ FlushReadWp \/ FlushTest \/ Fetch \/ Vanish
  BY <1>7 DEF Interrupt, FlushReadWp, FlushTest, Fetch, Vanish
<1>8. CASE FlushCredit
  <2>1. resp \in Transfers
    BY <1>8 DEF FlushCredit, DpcInv, Taken
  <2> QED
    BY <1>8, <2>1 DEF FlushCredit
<1>9. CASE FlushShift
  <2>1. resp \in Transfers /\ RespCodec \in Codecs
    BY <1>9, TransferParts DEF FlushShift, DpcInv, Taken, RespCodec
  <2> DEFINE q == [i \in Slots |-> IF i = Entries - 1 THEN NULL ELSE xfer[RespCodec][i + 1]]
  <2>2. q \in [Slots -> Transfers \cup {NULL}]
    <3> SUFFICES ASSUME NEW i \in Slots, i # Entries - 1
                 PROVE xfer[RespCodec][i + 1] \in Transfers \cup {NULL}
      OBVIOUS
    <3>1. i + 1 \in Slots
      BY CallAssumption DEF Slots
    <3> QED
      BY <2>1, <3>1
  <2>3. xfer' = [xfer EXCEPT ![RespCodec] = q] /\ UNCHANGED <<input, cmds, event>>
    BY <1>9 DEF FlushShift
  <2> HIDE DEF q
  <2>4. xfer' \in [Codecs -> [Slots -> Transfers \cup {NULL}]]
    BY <2>1, <2>2, <2>3
  <2> QED
    BY <2>3, <2>4
<1>10. CASE FlushDecrement
  <2>1. RespCodec \in Codecs
    BY <1>10, TransferParts DEF FlushDecrement, DpcInv, Taken, RespCodec
  <2> QED
    BY <1>10, <2>1 DEF FlushDecrement
<1>11. CASE FlushSetEvent
  BY <1>11 DEF FlushSetEvent
<1>12. CASE UNCHANGED vars
  BY <1>12 DEF vars
<1> QED
  BY <1>1, <1>2, <1>3, <1>4, <1>5, <1>6, <1>7, <1>8, <1>9, <1>10, <1>11, <1>12, Steps

\* ... and of the DPC and the hardware.
LEMMA TypeHardware ==
  ASSUME TypeOK, AtInv, CorbIntact, DpcInv, [Next]_vars
  PROVE /\ processRirb' \in BOOLEAN /\ left' \in Nat /\ resp' \in Transfers \cup {NULL}
        /\ dpc' \in {"idle", "test", "credit", "shift", "decrement", "event"}
        /\ corb' \in [Slots -> Transfers \cup {NULL}] /\ CORBWP' \in Slots /\ CORBRP' \in Slots
        /\ rirb' \in Seq(Transfers) /\ RIRBSTS' \in BOOLEAN /\ gone' \in BOOLEAN
        /\ lost' \subseteq Transfers /\ fetched' \in Nat /\ posted' \in Seq(Transfers)
<1> DEFINE P ==
    /\ processRirb' \in BOOLEAN /\ left' \in Nat /\ resp' \in Transfers \cup {NULL}
    /\ dpc' \in {"idle", "test", "credit", "shift", "decrement", "event"}
    /\ corb' \in [Slots -> Transfers \cup {NULL}] /\ CORBWP' \in Slots /\ CORBRP' \in Slots
    /\ rirb' \in Seq(Transfers) /\ RIRBSTS' \in BOOLEAN /\ gone' \in BOOLEAN
    /\ lost' \subseteq Transfers /\ fetched' \in Nat /\ posted' \in Seq(Transfers)
<1> USE DEF TypeOK
<1>1. ASSUME NEW c \in Calls, Begin(c) \/ AcquireLock(c) \/ Check(c) \/ Reserve(c) \/ Wait(c)
                              \/ Timeout(c) \/ ClearEvent(c) \/ CountValid(c) \/ Settle(c)
                              \/ Return(c)
      PROVE P
  <2>1. UNCHANGED <<dpcVars, hwVars, posted>>
    BY <1>1 DEF Begin, AcquireLock, Check, Reserve, Wait, Timeout, ClearEvent, CountValid,
                Settle, Return
  <2> QED
    BY <2>1 DEF dpcVars, hwVars
<1>2. ASSUME NEW c \in Calls, PostVerb(c) PROVE P
  <2>1. Current(c) \in Transfers /\ NextEntry(CORBWP) \in Slots
    BY <1>2, CurrentVerb, RingNext DEF PostVerb, Sending
  <2> QED
    BY <1>2, <2>1, Appended DEF PostVerb, dpcVars
<1>3. CASE Interrupt \/ FlushCredit \/ FlushShift \/ FlushDecrement \/ FlushSetEvent \/ Vanish
  BY <1>3 DEF Interrupt, FlushCredit, FlushShift, FlushDecrement, FlushSetEvent, Vanish,
              FlushNext, hwVars, dpcVars
<1>4. CASE FlushReadWp
  BY <1>4, LenProperties DEF FlushReadWp, hwVars
<1>5. CASE FlushTest
  <2>1. left > 0 /\ Len(rirb) > 0
    BY <1>5, LenProperties DEF FlushTest, DpcInv
  <2> QED
    BY <1>5, <2>1, HeadTaken DEF FlushTest
<1>6. CASE Fetch
  <2>1. corb[CORBRP'] \in Transfers /\ CORBRP' \in Slots
    BY <1>6, FetchedNext, RingNext DEF Fetch
  <2>2. Append(rirb, corb[CORBRP']) \in Seq(Transfers)
    BY <2>1, Appended
  <2>3. /\ rirb' \in {rirb, Append(rirb, corb[CORBRP'])} /\ RIRBSTS' \in {RIRBSTS, TRUE}
        /\ lost' \in {lost, lost \cup {corb[CORBRP']}} /\ fetched' = fetched + 1
        /\ UNCHANGED <<dpcVars, corb, CORBWP, gone, posted>>
    BY <1>6 DEF Fetch
  <2>4. fetched' \in Nat
    BY <2>3
  <2>5. rirb' \in Seq(Transfers) /\ lost' \subseteq Transfers
    BY <2>1, <2>2, <2>3
  <2>6. RIRBSTS' \in BOOLEAN
    BY <2>3
  <2> QED
    BY <2>1, <2>3, <2>4, <2>5, <2>6 DEF dpcVars
<1>7. CASE UNCHANGED vars
  BY <1>7 DEF vars, dpcVars, hwVars
<1> QED
  BY <1>1, <1>2, <1>3, <1>4, <1>5, <1>6, <1>7, Steps

LEMMA TypeKept ==
  ASSUME TypeOK, AtInv, CorbIntact, DpcInv, [Next]_vars
  PROVE TypeOK'
BY TypeCall, TypeShared, TypeHardware DEF TypeOK, Statuses
-----------------------------------------------------------------------------
(* The lock, the batches and the CORB. *)

\* Where a call may go, and who may change its place in the batch.
LEMMA LockKept ==
  ASSUME TypeOK, LockInv, [Next]_vars
  PROVE LockInv'
<1> USE DEF LockInv, TypeOK, Sending, Goto
<1>1. ASSUME NEW c \in Calls, Begin(c) \/ Wait(c) \/ Timeout(c) \/ ClearEvent(c) \/ CountValid(c)
                              \/ Settle(c) \/ Return(c)
      PROVE LockInv'
  <2>1. /\ lock' = lock /\ pc[c] \notin Sending
        /\ \E l \in {"lock", "clear", "waiting", "count", "settle", "out", "returned"} :
              pc' = [pc EXCEPT ![c] = l]
    BY <1>1 DEF Begin, Wait, Timeout, ClearEvent, CountValid, Settle, Return
  <2> QED
    BY <2>1
<1>2. ASSUME NEW c \in Calls, AcquireLock(c) PROVE LockInv'
  BY <1>2, CallAssumption DEF AcquireLock
<1>3. ASSUME NEW c \in Calls, Check(c) PROVE LockInv'
  BY <1>3, CallAssumption DEF Check
<1>4. ASSUME NEW c \in Calls, Reserve(c) PROVE LockInv'
  BY <1>4, CallAssumption DEF Reserve
<1>5. ASSUME NEW c \in Calls, PostVerb(c) PROVE LockInv'
  <2>1. \/ lock' = NULL /\ pc' = [pc EXCEPT ![c] = "wait"]
        \/ lock' = lock /\ pc' = [pc EXCEPT ![c] = "check"]
    BY <1>5 DEF PostVerb
  <2>2. pc[c] = "post"
    BY <1>5 DEF PostVerb
  <2> QED
    BY <2>1, <2>2, CallAssumption
<1>6. CASE Interrupt \/ FlushReadWp \/ FlushTest \/ FlushCredit \/ FlushShift \/ FlushDecrement
           \/ Fetch \/ Vanish
  BY <1>6 DEF Interrupt, FlushReadWp, FlushTest, FlushCredit, FlushShift, FlushDecrement,
              Fetch, Vanish, callVars
<1>7. CASE FlushSetEvent
  BY <1>7 DEF FlushSetEvent
<1>8. CASE UNCHANGED vars
  BY <1>8 DEF vars, callVars
<1> QED
  BY <1>1, <1>2, <1>3, <1>4, <1>5, <1>6, <1>7, <1>8, Steps

LEMMA AtKept ==
  ASSUME TypeOK, AtInv, [Next]_vars
  PROVE AtInv'
<1>0. \A c \in Calls : Count[c] \in Nat /\ Count[c] > 0
  BY CallAssumption
<1> USE DEF AtInv, TypeOK, Sending, Settling, Refused, Goto, Finish
<1>1. ASSUME NEW c \in Calls, Begin(c) \/ AcquireLock(c) PROVE AtInv'
  <2>1. CASE Begin(c)
    BY <2>1 DEF Begin
  <2>2. CASE AcquireLock(c)
    BY <1>0, <2>2 DEF AcquireLock
  <2> QED
    BY <1>1, <2>1, <2>2
<1>2. ASSUME NEW c \in Calls, Check(c) PROVE AtInv'
  BY <1>2 DEF Check
<1>3. ASSUME NEW c \in Calls, Reserve(c) PROVE AtInv'
  BY <1>3 DEF Reserve
<1>4. ASSUME NEW c \in Calls, PostVerb(c) PROVE AtInv'
  <2>1. /\ at' = [at EXCEPT ![c] = at[c] + 1] /\ status' = status
        /\ pc[c] = "post"
        /\ \/ at[c] + 1 = Count[c] /\ pc' = [pc EXCEPT ![c] = "wait"]
           \/ at[c] + 1 # Count[c] /\ pc' = [pc EXCEPT ![c] = "check"]
    BY <1>4 DEF PostVerb
  <2>2. at[c] \in 0 .. Count[c] /\ at[c] < Count[c] /\ Count[c] \in Nat
    BY <2>1, CallAssumption
  <2>3. at'[c] \in 0 .. Count[c] /\ (pc'[c] = "check" => at'[c] < Count[c])
    BY <2>1, <2>2
  <2> QED
    BY <2>1, <2>2, <2>3
<1>5. ASSUME NEW c \in Calls, Wait(c) \/ Timeout(c) \/ ClearEvent(c) PROVE AtInv'
  BY <1>5 DEF Wait, Timeout, ClearEvent
<1>6. ASSUME NEW c \in Calls, CountValid(c) PROVE AtInv'
  <2>1. /\ pc[c] = "count" /\ at' = at
        /\ \/ pc' = [pc EXCEPT ![c] = "settle"] /\ status' = status
           \/ pc' = [pc EXCEPT ![c] = "out"]
              /\ status' = [status EXCEPT ![c] = "STATUS_SUCCESS"]
    BY <1>6 DEF CountValid
  <2>2. at[c] = Count[c]
    BY <2>1
  <2> QED
    BY <1>0, <2>1, <2>2
<1>7. ASSUME NEW c \in Calls, Settle(c) \/ Return(c) PROVE AtInv'
  <2>1. CASE Settle(c)
    BY <2>1 DEF Settle
  <2>2. CASE Return(c)
    BY <2>2 DEF Return
  <2> QED
    BY <1>7, <2>1, <2>2
<1>8. CASE Interrupt \/ FlushReadWp \/ FlushTest \/ FlushCredit \/ FlushShift \/ FlushDecrement
           \/ Fetch \/ Vanish
  <2>1. UNCHANGED <<pc, at, status>>
    BY <1>8 DEF Interrupt, FlushReadWp, FlushTest, FlushCredit, FlushShift, FlushDecrement,
                Fetch, Vanish, callVars
  <2> QED
    BY <2>1
<1>9. CASE FlushSetEvent
  BY <1>9 DEF FlushSetEvent
<1>10. CASE UNCHANGED vars
  BY <1>10 DEF vars, callVars
<1> QED
  BY <1>1, <1>2, <1>3, <1>4, <1>5, <1>6, <1>7, <1>8, <1>9, <1>10, Steps

\* The CORB changes only where a verb is posted or fetched.
LEMMA CorbStill ==
  ASSUME [Next]_vars, ~Fetch, \A c \in Calls : ~PostVerb(c)
  PROVE UNCHANGED <<corb, CORBWP, CORBRP, posted, fetched, at>>
<1> USE DEF hwVars, callVars
<1>1. ASSUME NEW c \in Calls, Begin(c) \/ AcquireLock(c) \/ Check(c) \/ Reserve(c) \/ Wait(c)
                              \/ Timeout(c) \/ ClearEvent(c) \/ CountValid(c) \/ Settle(c)
                              \/ Return(c)
      PROVE UNCHANGED <<corb, CORBWP, CORBRP, posted, fetched, at>>
  BY <1>1 DEF Begin, AcquireLock, Check, Reserve, Wait, Timeout, ClearEvent, CountValid,
              Settle, Return
<1>2. CASE Interrupt \/ FlushReadWp \/ FlushTest \/ FlushCredit \/ FlushShift \/ FlushDecrement
           \/ FlushSetEvent \/ Vanish \/ UNCHANGED vars
  BY <1>2 DEF Interrupt, FlushReadWp, FlushTest, FlushCredit, FlushShift, FlushDecrement,
              FlushSetEvent, Vanish, vars
<1> QED
  BY <1>1, <1>2, Steps

\* A position ahead of the read pointer, seen from the next entry.
LEMMA RingBehind ==
  ASSUME NEW r \in Slots, NEW i \in 1 .. Entries
  PROVE (NextEntry(r) + (i - 1)) % Entries = (r + i) % Entries
<1>1. Entries \in Nat \ {0, 1} /\ i - 1 \in 0 .. Entries /\ i \in 0 .. Entries
  BY CallAssumption
<1>2. /\ NextEntry(r) \in Slots /\ r \in 0 .. Entries - 1
      /\ NextEntry(r) = IF r + 1 = Entries THEN 0 ELSE r + 1
  BY RingNext DEF Slots
<1>3. (r + i) % Entries = IF r + i < Entries THEN r + i ELSE r + i - Entries
  BY <1>1, RingAhead
<1>4. (NextEntry(r) + (i - 1)) % Entries =
         IF NextEntry(r) + (i - 1) < Entries THEN NextEntry(r) + (i - 1)
         ELSE NextEntry(r) + (i - 1) - Entries
  BY <1>1, <1>2, RingAhead
<1> QED
  BY <1>1, <1>2, <1>3, <1>4

\* Positions less than a round apart are different.
LEMMA RingApart ==
  ASSUME NEW r \in Slots, NEW i \in 0 .. Entries - 1, NEW j \in 0 .. Entries - 1, i # j
  PROVE (r + i) % Entries # (r + j) % Entries
<1>1. Entries \in Nat \ {0, 1} /\ i \in 0 .. Entries /\ j \in 0 .. Entries /\ r \in 0 .. Entries - 1
  BY CallAssumption DEF Slots
<1>2. (r + i) % Entries = IF r + i < Entries THEN r + i ELSE r + i - Entries
  BY <1>1, RingAhead
<1>3. (r + j) % Entries = IF r + j < Entries THEN r + j ELSE r + j - Entries
  BY <1>1, RingAhead
<1> QED
  BY <1>1, <1>2, <1>3

\* The entry after the position n ahead is n + 1 ahead.
LEMMA RingThen ==
  ASSUME NEW r \in Slots, NEW n \in Slots
  PROVE NextEntry((r + n) % Entries) = (r + (n + 1)) % Entries
<1>1. /\ Entries \in Nat \ {0, 1} /\ n \in 0 .. Entries /\ n + 1 \in 0 .. Entries
      /\ r \in 0 .. Entries - 1
  BY CallAssumption DEF Slots
<1> DEFINE w == (r + n) % Entries
<1>2. w \in Slots /\ w = IF r + n < Entries THEN r + n ELSE r + n - Entries
  BY <1>1, RingAhead
<1> HIDE DEF w
<1>3. NextEntry(w) = IF w + 1 = Entries THEN 0 ELSE w + 1
  BY <1>2, RingNext
<1>4. (r + (n + 1)) % Entries = IF r + (n + 1) < Entries THEN r + (n + 1)
                                ELSE r + (n + 1) - Entries
  BY <1>1, RingAhead
<1>5. NextEntry(w) = (r + (n + 1)) % Entries
  BY <1>1, <1>2, <1>3, <1>4
<1> QED
  BY <1>5 DEF w

\* No verb is posted twice.
LEMMA PostedOnce ==
  ASSUME TypeOK, PostedInv, NEW i \in 1 .. Len(posted), NEW j \in 1 .. Len(posted),
         posted[i] = posted[j]
  PROVE i = j
<1>1. Len(posted) \in Nat
  BY LenProperties DEF TypeOK
<1>2. posted[i] \in Transfers
  BY ElementOfSeq DEF TypeOK
<1>3. posted[i][2] \in Int
  BY <1>2, TransferParts, CallAssumption
<1>4. ~(i < j) /\ ~(j < i)
  BY <1>3 DEF PostedInv
<1> QED
  BY <1>1, <1>4

\* A verb is posted at the end; it was not posted before.
LEMMA Posting ==
  ASSUME TypeOK, AtInv, PostedInv, NEW c \in Calls, PostVerb(c)
  PROVE /\ pc[c] = "post" /\ Current(c) = <<c, at[c] + 1>> /\ Current(c) \in Transfers
        /\ Len(posted) \in Nat /\ fetched \in 0 .. Len(posted) /\ fetched' = fetched
        /\ Len(posted') = Len(posted) + 1
        /\ \A i \in 1 .. Len(posted) : posted'[i] = posted[i] /\ posted[i] # Current(c)
        /\ posted'[Len(posted) + 1] = Current(c)
        /\ at' = [at EXCEPT ![c] = at[c] + 1]
<1>1. /\ pc[c] = "post" /\ posted' = Append(posted, Current(c)) /\ fetched' = fetched
      /\ at' = [at EXCEPT ![c] = at[c] + 1]
  BY DEF PostVerb
<1>2. Current(c) = <<c, at[c] + 1>> /\ Current(c) \in Transfers
  BY <1>1, CurrentVerb DEF Sending
<1>3. posted \in Seq(Transfers)
  BY DEF TypeOK
<1>4. /\ Len(posted) \in Nat /\ Len(posted') = Len(posted) + 1
      /\ \A i \in 1 .. Len(posted) : posted'[i] = posted[i]
      /\ posted'[Len(posted) + 1] = Current(c)
  BY <1>1, <1>2, <1>3, Appended
<1>5. \A i \in 1 .. Len(posted) : posted[i] # Current(c)
  <2> SUFFICES ASSUME NEW i \in 1 .. Len(posted), posted[i] = Current(c) PROVE FALSE
    OBVIOUS
  <2>1. posted[i][2] <= at[posted[i][1]]
    BY DEF PostedInv
  <2>2. at[c] + 1 <= at[c] /\ at[c] \in Nat
    BY <1>2, <2>1 DEF TypeOK
  <2> QED
    BY <2>2
<1>6. fetched \in 0 .. Len(posted)
  BY <1>4 DEF PostedInv, TypeOK
<1> QED
  BY <1>1, <1>2, <1>4, <1>5, <1>6

\* The command pointers stay as far apart as commands were posted and not fetched.
LEMMA CorbKept ==
  ASSUME TypeOK, AtInv, CorbIntact, RoomInv, PostedInv, [Next]_vars
  PROVE CorbIntact'
<1> DEFINE n == Len(posted) - fetched
<1>1. /\ n \in Slots /\ n \in 0 .. Entries - 1 /\ CORBRP \in Slots /\ CORBWP \in Slots
      /\ Entries \in Nat \ {0, 1} /\ CORBWP = (CORBRP + n) % Entries
      /\ \A i \in 1 .. n : corb[(CORBRP + i) % Entries] = posted[fetched + i]
  BY CallAssumption DEF CorbIntact, TypeOK, Slots
<1>2. ASSUME NEW c \in Calls, PostVerb(c) PROVE CorbIntact'
  <2> DEFINE w == NextEntry(CORBWP)
  <2>1. /\ corb' = [corb EXCEPT ![w] = Current(c)] /\ CORBWP' = w /\ CORBRP' = CORBRP
        /\ fetched' = fetched
    BY <1>2 DEF PostVerb
  <2>2. /\ Len(posted') = Len(posted) + 1 /\ Len(posted) \in Nat /\ fetched \in 0 .. Len(posted)
        /\ \A i \in 1 .. Len(posted) : posted'[i] = posted[i]
        /\ posted'[Len(posted) + 1] = Current(c)
    BY <1>2, Posting
  <2>3. n + 1 \in Slots /\ Len(posted') - fetched' = n + 1 /\ n + 1 \in 0 .. Entries - 1
    BY <1>2, <2>1, <2>2 DEF RoomInv, PostVerb, Slots
  <2>4. w = (CORBRP + (n + 1)) % Entries
    BY <1>1, RingThen
  <2>5. w \in Slots /\ corb \in [Slots -> Transfers \cup {NULL}]
    BY <1>1, RingNext DEF TypeOK
  <2>6. ASSUME NEW i \in 1 .. n + 1
        PROVE corb'[(CORBRP + i) % Entries] = posted'[fetched + i]
    <3> DEFINE v == (CORBRP + i) % Entries
    <3>1. i \in 0 .. Entries - 1 /\ i \in 0 .. Entries
      BY <1>1, <2>3
    <3>2. v \in Slots
      BY <1>1, <3>1, RingAhead
    <3>3. CASE i = n + 1
      <4>1. v = w /\ fetched + i = Len(posted) + 1
        BY <2>2, <2>4, <3>3
      <4> QED
        BY <2>1, <2>2, <2>5, <4>1
    <3>4. CASE i # n + 1
      <4>1. i \in 1 .. n /\ fetched + i \in 1 .. Len(posted)
        BY <1>1, <2>2, <3>4
      <4>2. v # w
        BY <1>1, <2>3, <2>4, <3>1, <3>4, RingApart
      <4>3. corb'[v] = corb[v]
        BY <2>1, <2>5, <3>2, <4>2
      <4>4. corb[v] = posted[fetched + i]
        BY <1>1, <4>1
      <4> QED
        BY <2>2, <4>1, <4>3, <4>4
    <3> QED
      BY <3>3, <3>4
  <2> HIDE DEF n, w
  <2> QED
    BY <2>1, <2>3, <2>4, <2>6 DEF CorbIntact
<1>3. CASE Fetch
  <2>1. /\ CORBRP' = NextEntry(CORBRP) /\ fetched' = fetched + 1 /\ CORBRP # CORBWP
        /\ UNCHANGED <<corb, CORBWP, posted>>
    BY <1>3 DEF Fetch
  <2>2. fetched < Len(posted) /\ Len(posted) \in Nat /\ fetched \in Nat
    BY <2>1, FetchedNext
  <2>3. Len(posted') - fetched' = n - 1 /\ n - 1 \in Slots /\ n \in 1 .. Entries
    BY <1>1, <2>1, <2>2 DEF Slots
  <2>4. CORBWP' = (CORBRP' + (n - 1)) % Entries
    BY <1>1, <2>1, <2>3, RingBehind
  <2>5. ASSUME NEW i \in 1 .. n - 1
        PROVE corb'[(CORBRP' + i) % Entries] = posted'[fetched' + i]
    <3> DEFINE j == i + 1
    <3>1. j \in 1 .. n /\ j \in 1 .. Entries /\ j - 1 = i /\ fetched + j = fetched' + i
      BY <1>1, <2>1, <2>2, <2>3
    <3> HIDE DEF j
    <3>2. (NextEntry(CORBRP) + (j - 1)) % Entries = (CORBRP + j) % Entries
      BY <1>1, <3>1, RingBehind
    <3>3. corb[(CORBRP + j) % Entries] = posted[fetched + j]
      BY <1>1, <3>1
    <3> QED
      BY <2>1, <3>1, <3>2, <3>3
  <2> HIDE DEF n
  <2> QED
    BY <2>3, <2>4, <2>5 DEF CorbIntact
<1>4. CASE ~Fetch /\ \A c \in Calls : ~PostVerb(c)
  BY <1>4, CorbStill DEF CorbIntact
<1> QED
  BY <1>2, <1>3, <1>4

\* A sender that found room keeps it: only the fetching controller interferes.
LEMMA RoomKept ==
  ASSUME TypeOK, LockInv, CorbIntact, RoomInv, [Next]_vars
  PROVE RoomInv'
<1> DEFINE n == Len(posted) - fetched
<1>1. /\ n \in 0 .. Entries - 1 /\ CORBRP \in Slots /\ Entries \in Nat \ {0, 1}
      /\ CORBWP = (CORBRP + n) % Entries /\ Len(posted) \in Nat /\ fetched \in Nat
  BY CallAssumption, LenProperties DEF CorbIntact, TypeOK, Slots
<1>2. ASSUME NEW c \in Calls, Check(c) PROVE RoomInv'
  <2>1. UNCHANGED <<posted, fetched>> /\ lock = c
    BY <1>2 DEF Check, hwVars, LockInv, Sending
  <2>2. CASE NextEntry(CORBWP) = CORBRP \/ gone
    <3>1. pc' = [pc EXCEPT ![c] = "out"]
      BY <1>2, <2>2 DEF Check, Goto
    <3> QED
      BY <2>1, <3>1 DEF RoomInv, TypeOK
  <2>3. CASE ~(NextEntry(CORBWP) = CORBRP \/ gone)
    <3>1. NextEntry(CORBWP) = (CORBRP + (n + 1)) % Entries
      BY <1>1, RingThen DEF Slots
    <3>2. n + 1 # Entries
      <4> SUFFICES ASSUME n + 1 = Entries PROVE FALSE
        OBVIOUS
      <4>1. (CORBRP + Entries) % Entries = CORBRP
        <5>1. Entries \in 0 .. Entries /\ CORBRP \in 0 .. Entries - 1
          BY <1>1 DEF Slots
        <5>2. (CORBRP + Entries) % Entries = IF CORBRP + Entries < Entries THEN CORBRP + Entries
                                             ELSE CORBRP + Entries - Entries
          BY <1>1, <5>1, RingAhead
        <5> QED
          BY <1>1, <5>1, <5>2
      <4> QED
        BY <2>3, <3>1, <4>1
    <3>3. n + 1 \in Slots
      BY <1>1, <3>2 DEF Slots
    <3> QED
      BY <2>1, <3>3 DEF RoomInv
  <2> QED
    BY <2>2, <2>3
<1>3. ASSUME NEW c \in Calls, PostVerb(c) PROVE RoomInv'
  <2>1. pc[c] = "post" /\ lock = c
    BY <1>3 DEF PostVerb, LockInv, Sending
  <2>2. pc' = [pc EXCEPT ![c] = "wait"] \/ pc' = [pc EXCEPT ![c] = "check"]
    BY <1>3 DEF PostVerb, Goto
  <2>3. \A d \in Calls : pc'[d] \notin {"reserve", "post"}
    BY <2>1, <2>2 DEF LockInv, Sending, TypeOK
  <2> QED
    BY <2>3 DEF RoomInv
<1>4. CASE Fetch
  <2>1. fetched' = fetched + 1 /\ pc' = pc /\ posted' = posted /\ CORBRP # CORBWP
    BY <1>4 DEF Fetch, callVars
  <2>2. fetched < Len(posted)
    BY <2>1, FetchedNext
  <2>3. Len(posted') - fetched' + 1 = n
    BY <1>1, <2>1
  <2> HIDE DEF n
  <2> QED
    BY <1>1, <2>1, <2>3 DEF RoomInv, Slots
<1>5. ASSUME ~Fetch, \A c \in Calls : ~PostVerb(c) /\ ~Check(c) PROVE RoomInv'
  <2>1. UNCHANGED <<posted, fetched>>
    BY <1>5, CorbStill
  <2>2. \A d \in Calls : pc'[d] \in {"reserve", "post"} => pc[d] \in {"reserve", "post"}
    <3> USE DEF TypeOK, Goto
    <3>1. ASSUME NEW c \in Calls, Begin(c) \/ AcquireLock(c) \/ Wait(c) \/ Timeout(c)
                 \/ ClearEvent(c) \/ CountValid(c) \/ Settle(c) \/ Return(c)
          PROVE  \A d \in Calls : pc'[d] \in {"reserve", "post"} => pc[d] \in {"reserve", "post"}
      <4>1. \E l \in {"lock", "check", "waiting", "clear", "count", "settle", "out", "returned"} :
              pc' = [pc EXCEPT ![c] = l]
        BY <3>1 DEF Begin, AcquireLock, Wait, Timeout, ClearEvent, CountValid, Settle, Return
      <4> QED
        BY <4>1
    <3>2. ASSUME NEW c \in Calls, Reserve(c)
          PROVE  \A d \in Calls : pc'[d] \in {"reserve", "post"} => pc[d] \in {"reserve", "post"}
      BY <3>2 DEF Reserve
    <3>3. CASE Interrupt \/ FlushReadWp \/ FlushTest \/ FlushCredit \/ FlushShift
               \/ FlushDecrement \/ Vanish \/ UNCHANGED vars
      BY <3>3 DEF Interrupt, FlushReadWp, FlushTest, FlushCredit, FlushShift, FlushDecrement,
                  Vanish, vars, callVars
    <3>4. CASE FlushSetEvent
      BY <3>4 DEF FlushSetEvent
    <3> QED
      BY <1>5, <3>1, <3>2, <3>3, <3>4, Steps
  <2> QED
    BY <2>1, <2>2 DEF RoomInv
<1> QED
  BY <1>2, <1>3, <1>4, <1>5

\* Posted verbs stay posted.
LEMMA PostedKept ==
  ASSUME TypeOK, AtInv, CorbIntact, PostedInv, [Next]_vars
  PROVE PostedInv'
<1>1. ASSUME NEW c \in Calls, PostVerb(c) PROVE PostedInv'
  <2>1. /\ Current(c) = <<c, at[c] + 1>> /\ Len(posted) \in Nat /\ fetched \in 0 .. Len(posted)
        /\ fetched' = fetched /\ Len(posted') = Len(posted) + 1
        /\ \A i \in 1 .. Len(posted) : posted'[i] = posted[i]
        /\ posted'[Len(posted) + 1] = <<c, at[c] + 1>>
        /\ at' = [at EXCEPT ![c] = at[c] + 1]
    BY <1>1, Posting
  <2>2. at \in [Calls -> Nat] /\ \A i \in 1 .. Len(posted) : posted[i] \in Transfers
    BY ElementOfSeq DEF TypeOK
  <2>3. \A i \in 1 .. Len(posted) :
           posted[i][1] \in Calls /\ posted[i][2] \in Nat /\ posted[i][2] <= at[posted[i][1]]
    BY <2>2, TransferParts, CallAssumption DEF PostedInv
  <2>4. ASSUME NEW i \in 1 .. Len(posted') PROVE posted'[i][2] <= at'[posted'[i][1]]
    <3>1. CASE i = Len(posted) + 1
      BY <2>1, <2>2, <3>1
    <3>2. CASE i # Len(posted) + 1
      <4>1. i \in 1 .. Len(posted)
        BY <2>1, <3>2
      <4>2. posted'[i] = posted[i] /\ posted[i][2] <= at[posted[i][1]]
        BY <2>1, <2>3, <4>1
      <4>3. at[posted[i][1]] <= at'[posted[i][1]]
        BY <2>1, <2>2, <2>3, <4>1
      <4> QED
        BY <2>1, <2>2, <2>3, <4>1, <4>2, <4>3
    <3> QED
      BY <3>1, <3>2
  <2>5. ASSUME NEW i \in 1 .. Len(posted'), NEW j \in 1 .. Len(posted'), i < j,
               posted'[i][1] = posted'[j][1]
        PROVE posted'[i][2] < posted'[j][2]
    <3>1. i \in 1 .. Len(posted)
      BY <2>1, <2>5
    <3>2. CASE j = Len(posted) + 1
      <4>1. posted'[j] = <<c, at[c] + 1>> /\ posted'[i] = posted[i]
        BY <2>1, <3>1, <3>2
      <4>2. posted[i][1] = c /\ posted[i][2] <= at[c] /\ posted[i][2] \in Nat /\ at[c] \in Nat
        BY <2>2, <2>3, <2>5, <3>1, <4>1
      <4> QED
        BY <4>1, <4>2
    <3>3. CASE j # Len(posted) + 1
      <4>1. j \in 1 .. Len(posted)
        BY <2>1, <3>3
      <4>2. posted'[j] = posted[j] /\ posted'[i] = posted[i]
        BY <2>1, <3>1, <4>1
      <4> QED
        BY <2>5, <3>1, <4>1, <4>2 DEF PostedInv
    <3> QED
      BY <3>2, <3>3
  <2>6. fetched' <= Len(posted')
    BY <2>1
  <2> QED
    BY <2>4, <2>5, <2>6 DEF PostedInv
<1>2. CASE Fetch
  <2>1. fetched' = fetched + 1 /\ posted' = posted /\ at' = at /\ CORBRP # CORBWP
    BY <1>2 DEF Fetch, callVars
  <2>2. fetched < Len(posted) /\ fetched \in Nat /\ Len(posted) \in Nat
    BY <2>1, FetchedNext
  <2> QED
    BY <2>1, <2>2 DEF PostedInv
<1>3. CASE ~Fetch /\ \A c \in Calls : ~PostVerb(c)
  BY <1>3, CorbStill DEF PostedInv
<1> QED
  BY <1>1, <1>2, <1>3

\* The responses change only where one comes in or is taken.
LEMMA DpcStill ==
  ASSUME [Next]_vars, ~Dpc, ~Fetch
  PROVE UNCHANGED <<dpc, left, resp, rirb, lost, fetched>>
<1> USE DEF dpcVars, hwVars
<1>1. ASSUME NEW c \in Calls, Begin(c) \/ AcquireLock(c) \/ Check(c) \/ Reserve(c)
                              \/ PostVerb(c) \/ Wait(c) \/ Timeout(c) \/ ClearEvent(c)
                              \/ CountValid(c) \/ Settle(c) \/ Return(c)
      PROVE UNCHANGED <<dpc, left, resp, rirb, lost, fetched>>
  BY <1>1 DEF Begin, AcquireLock, Check, Reserve, PostVerb, Wait, Timeout, ClearEvent,
              CountValid, Settle, Return
<1>2. CASE Interrupt \/ Vanish \/ UNCHANGED vars
  BY <1>2 DEF Interrupt, Vanish, vars
<1> QED
  BY <1>1, <1>2, Steps DEF Dpc

\* The DPC stops when it has taken what it saw.
LEMMA DpcKept ==
  ASSUME TypeOK, CorbIntact, DpcInv, [Next]_vars
  PROVE DpcInv'
<1>0. Len(rirb) \in Nat /\ left \in Nat
  BY LenProperties DEF TypeOK
<1>1. CASE FlushReadWp
  BY <1>0, <1>1 DEF FlushReadWp, DpcInv, Taken, hwVars
<1>2. CASE FlushTest
  <2>1. left > 0 /\ Len(rirb) > 0 /\ dpc = "test" /\ left <= Len(rirb)
    BY <1>0, <1>2 DEF FlushTest, DpcInv
  <2>2. Head(rirb) \in Transfers /\ Len(Tail(rirb)) = Len(rirb) - 1
    BY <2>1, HeadTaken DEF TypeOK
  <2>3. /\ resp' = Head(rirb) /\ rirb' = Tail(rirb) /\ left' = left - 1
        /\ dpc' = "credit" \/ (left' = 0 /\ dpc' = "idle") \/ (left' # 0 /\ dpc' = "test")
    BY <1>2 DEF FlushTest
  <2> QED
    BY <1>0, <2>1, <2>2, <2>3 DEF DpcInv, Taken
<1>3. CASE FlushCredit \/ FlushShift
  BY <1>3 DEF FlushCredit, FlushShift, DpcInv, Taken, hwVars
<1>4. CASE FlushDecrement \/ FlushSetEvent
  <2>1. /\ UNCHANGED <<left, resp, rirb>> /\ dpc \in {"decrement", "event"}
        /\ dpc' = "event" \/ (left = 0 /\ dpc' = "idle") \/ (left # 0 /\ dpc' = "test")
    BY <1>4 DEF FlushDecrement, FlushSetEvent, FlushNext, hwVars
  <2> QED
    BY <1>0, <2>1 DEF DpcInv, Taken
<1>5. CASE Fetch
  <2>1. UNCHANGED <<dpc, left, resp>> /\ (rirb' = rirb \/ rirb' = Append(rirb, corb[CORBRP']))
    BY <1>5 DEF Fetch, dpcVars
  <2>2. corb[CORBRP'] \in Transfers
    BY <1>5, FetchedNext DEF Fetch
  <2>3. Len(rirb') >= Len(rirb) /\ Len(rirb') \in Nat
    BY <1>0, <2>1, <2>2, Appended DEF TypeOK
  <2> QED
    BY <1>0, <2>1, <2>3 DEF DpcInv
<1>6. CASE ~Dpc /\ ~Fetch
  BY <1>6, DpcStill DEF DpcInv
<1> QED
  BY <1>1, <1>2, <1>3, <1>4, <1>5, <1>6 DEF Dpc

\* The set of responses in the RIRB, when one comes in and when one is taken.
LEMMA RirbAppended ==
  ASSUME TypeOK, NEW e \in Transfers, rirb' = Append(rirb, e)
  PROVE /\ InRirb' = InRirb \cup {e}
        /\ \A i \in 1 .. Len(rirb) : rirb'[i] = rirb[i]
        /\ rirb'[Len(rirb) + 1] = e /\ Len(rirb') = Len(rirb) + 1 /\ Len(rirb) \in Nat
<1>1. /\ Len(rirb) \in Nat /\ Len(rirb') = Len(rirb) + 1
      /\ \A i \in 1 .. Len(rirb) : rirb'[i] = rirb[i]
      /\ rirb'[Len(rirb) + 1] = e
  BY Appended DEF TypeOK
<1>2. InRirb' \subseteq InRirb \cup {e}
  BY <1>1 DEF InRirb
<1>3. InRirb \subseteq InRirb'
  <2> SUFFICES ASSUME NEW i \in 1 .. Len(rirb) PROVE rirb[i] \in InRirb'
    BY DEF InRirb
  <2>1. i \in 1 .. Len(rirb') /\ rirb'[i] = rirb[i]
    BY <1>1
  <2> QED
    BY <2>1 DEF InRirb
<1>4. e \in InRirb'
  <2>1. Len(rirb) + 1 \in 1 .. Len(rirb')
    BY <1>1
  <2> QED
    BY <1>1, <2>1 DEF InRirb
<1> QED
  BY <1>1, <1>2, <1>3, <1>4

LEMMA RirbTaken ==
  ASSUME TypeOK, PlaceInv, Len(rirb) > 0, rirb' = Tail(rirb)
  PROVE /\ Head(rirb) \in InRirb /\ InRirb' = InRirb \ {Head(rirb)}
        /\ Len(rirb) \in Nat /\ Len(rirb') = Len(rirb) - 1 /\ Head(rirb) = rirb[1]
        /\ \A i \in 1 .. Len(rirb) - 1 : rirb'[i] = rirb[i + 1]
        /\ \A i, j \in 1 .. Len(rirb') : rirb'[i] = rirb'[j] => i = j
<1>1. /\ Len(rirb) \in Nat /\ Len(rirb') = Len(rirb) - 1 /\ Head(rirb) = rirb[1]
      /\ \A i \in 1 .. Len(rirb) - 1 : rirb'[i] = rirb[i + 1]
  BY HeadTaken DEF TypeOK
<1>2. \A i, j \in 1 .. Len(rirb) : rirb[i] = rirb[j] => i = j
  BY DEF PlaceInv
<1>3. 1 \in 1 .. Len(rirb)
  BY <1>1
<1>4. Head(rirb) \in InRirb
  BY <1>1, <1>3 DEF InRirb
<1>5. ASSUME NEW t \in InRirb' PROVE t \in InRirb /\ t # Head(rirb)
  <2>1. PICK i \in 1 .. Len(rirb') : t = rirb'[i]
    BY DEF InRirb
  <2>2. i + 1 \in 1 .. Len(rirb) /\ i + 1 # 1 /\ t = rirb[i + 1]
    BY <1>1, <2>1
  <2>3. rirb[i + 1] # rirb[1]
    BY <1>2, <1>3, <2>2
  <2> QED
    BY <1>1, <2>2, <2>3 DEF InRirb
<1>6. ASSUME NEW t \in InRirb, t # Head(rirb) PROVE t \in InRirb'
  <2>1. PICK i \in 1 .. Len(rirb) : t = rirb[i]
    BY DEF InRirb
  <2>2. i # 1
    BY <1>1, <1>6, <2>1
  <2>3. i - 1 \in 1 .. Len(rirb') /\ i - 1 \in 1 .. Len(rirb) - 1 /\ (i - 1) + 1 = i
    BY <1>1, <2>1, <2>2
  <2>4. rirb'[i - 1] = t
    BY <1>1, <2>1, <2>3
  <2> QED
    BY <2>3, <2>4 DEF InRirb
<1>7. ASSUME NEW i \in 1 .. Len(rirb'), NEW j \in 1 .. Len(rirb'), rirb'[i] = rirb'[j]
      PROVE i = j
  <2>1. i + 1 \in 1 .. Len(rirb) /\ j + 1 \in 1 .. Len(rirb) /\ rirb[i + 1] = rirb[j + 1]
    BY <1>1, <1>7
  <2>2. i + 1 = j + 1
    BY <1>2, <2>1
  <2> QED
    BY <1>1, <2>2
<1> QED
  BY <1>1, <1>4, <1>5, <1>6, <1>7

\* A command is fetched once: its response was nowhere before.
LEMMA FetchedNew ==
  ASSUME TypeOK, CorbIntact, PostedInv, Fetch
  PROVE /\ corb[CORBRP'] = posted[fetched + 1] /\ corb[CORBRP'] \in Transfers
        /\ fetched' = fetched + 1 /\ fetched \in Nat /\ fetched < Len(posted)
        /\ Fetched' = Fetched \cup {corb[CORBRP']} /\ corb[CORBRP'] \notin Fetched
<1>1. /\ fetched' = fetched + 1 /\ fetched \in Nat /\ posted' = posted
      /\ corb[CORBRP'] = posted[fetched + 1] /\ corb[CORBRP'] \in Transfers
      /\ fetched < Len(posted) /\ Len(posted) \in Nat
  BY FetchedNext DEF Fetch
<1>2. Fetched' = Fetched \cup {posted[fetched + 1]}
  <2>1. 1 .. fetched' = (1 .. fetched) \cup {fetched + 1}
    BY <1>1
  <2> QED
    BY <1>1, <2>1 DEF Fetched
<1>3. posted[fetched + 1] \notin Fetched
  <2> SUFFICES ASSUME NEW i \in 1 .. fetched, posted[i] = posted[fetched + 1] PROVE FALSE
    BY DEF Fetched
  <2>1. i \in 1 .. Len(posted) /\ fetched + 1 \in 1 .. Len(posted) /\ i # fetched + 1
    BY <1>1
  <2> QED
    BY <2>1, PostedOnce
<1> QED
  BY <1>1, <1>2, <1>3

\* A response moves from the controller through the RIRB to the DPC, or is lost.
LEMMA PlaceKept ==
  ASSUME TypeOK, AtInv, CorbIntact, DpcInv, PostedInv, PlaceInv, [Next]_vars
  PROVE PlaceInv'
<1>1. CASE FlushReadWp \/ FlushCredit \/ FlushShift
  <2>1. UNCHANGED <<resp, rirb, lost, fetched, posted>>
    BY <1>1 DEF FlushReadWp, FlushCredit, FlushShift, hwVars
  <2>2. Dispatching' \subseteq Dispatching
    BY <1>1, <2>1 DEF FlushReadWp, FlushCredit, FlushShift, Dispatching
  <2>3. InRirb' = InRirb /\ Fetched' = Fetched
    BY <2>1 DEF InRirb, Fetched
  <2> QED
    BY <2>1, <2>2, <2>3 DEF PlaceInv
<1>2. CASE FlushTest
  <2>1. left > 0 /\ Len(rirb) > 0 /\ dpc = "test" /\ left <= Len(rirb)
    BY <1>2, LenProperties DEF FlushTest, DpcInv, TypeOK
  <2>2. resp' = Head(rirb) /\ rirb' = Tail(rirb) /\ UNCHANGED <<lost, fetched, posted>>
    BY <1>2 DEF FlushTest
  <2>3. /\ Head(rirb) \in InRirb /\ InRirb' = InRirb \ {Head(rirb)}
        /\ \A i, j \in 1 .. Len(rirb') : rirb'[i] = rirb'[j] => i = j
    BY <2>1, <2>2, RirbTaken
  <2>4. Dispatching' \subseteq {Head(rirb)} /\ Fetched' = Fetched
    BY <2>2 DEF Dispatching, Fetched
  <2> QED
    BY <2>2, <2>3, <2>4 DEF PlaceInv
<1>3. CASE FlushDecrement \/ FlushSetEvent
  <2>1. UNCHANGED <<resp, rirb, lost, fetched, posted>>
    BY <1>3 DEF FlushDecrement, FlushSetEvent, hwVars
  <2>2. Dispatching' \subseteq Dispatching
    BY <1>3, <2>1 DEF FlushDecrement, FlushSetEvent, Dispatching
  <2>3. InRirb' = InRirb /\ Fetched' = Fetched
    BY <2>1 DEF InRirb, Fetched
  <2> QED
    BY <2>1, <2>2, <2>3 DEF PlaceInv
<1>4. CASE Fetch
  <2> DEFINE e == corb[CORBRP']
  <2>1. e \in Transfers /\ Fetched' = Fetched \cup {e} /\ e \notin Fetched
    BY <1>4, FetchedNew
  <2>2. UNCHANGED <<dpc, resp>>
    BY <1>4 DEF Fetch, dpcVars
  <2>3. \/ rirb' = Append(rirb, e) /\ lost' = lost
        \/ rirb' = rirb /\ lost' = lost \cup {e}
    BY <1>4 DEF Fetch
  <2> HIDE DEF e
  <2>4. Dispatching' = Dispatching
    BY <2>2 DEF Dispatching
  <2>5. CASE rirb' = rirb /\ lost' = lost \cup {e}
    <3>1. InRirb' = InRirb
      BY <2>5 DEF InRirb
    <3> QED
      BY <2>1, <2>4, <2>5, <3>1 DEF PlaceInv
  <2>6. CASE rirb' = Append(rirb, e) /\ lost' = lost
    <3>1. /\ InRirb' = InRirb \cup {e} /\ Len(rirb) \in Nat /\ Len(rirb') = Len(rirb) + 1
          /\ \A i \in 1 .. Len(rirb) : rirb'[i] = rirb[i]
          /\ rirb'[Len(rirb) + 1] = e
      BY <2>1, <2>6, RirbAppended
    <3>2. \A i \in 1 .. Len(rirb) : rirb[i] # e
      BY <2>1 DEF InRirb, PlaceInv
    <3>3. ASSUME NEW i \in 1 .. Len(rirb'), NEW j \in 1 .. Len(rirb'), rirb'[i] = rirb'[j]
          PROVE i = j
      <4>1. CASE i \in 1 .. Len(rirb) /\ j \in 1 .. Len(rirb)
        BY <3>1, <3>3, <4>1 DEF PlaceInv
      <4>2. CASE ~(i \in 1 .. Len(rirb) /\ j \in 1 .. Len(rirb))
        BY <3>1, <3>2, <3>3, <4>2
      <4> QED
        BY <4>1, <4>2
    <3> QED
      BY <2>1, <2>4, <2>6, <3>1, <3>3 DEF PlaceInv
  <2> QED
    BY <2>3, <2>5, <2>6
<1>5. ASSUME NEW c \in Calls, PostVerb(c) PROVE PlaceInv'
  <2>1. UNCHANGED <<dpc, resp, rirb, lost, fetched>>
    BY <1>5 DEF PostVerb, dpcVars
  <2>2. /\ \A i \in 1 .. Len(posted) : posted'[i] = posted[i]
        /\ fetched \in 0 .. Len(posted) /\ Len(posted) \in Nat
    BY <1>5, Posting
  <2>3. Fetched' = Fetched
    <3>1. \A i \in 1 .. fetched : posted'[i] = posted[i]
      BY <2>2
    <3> QED
      BY <2>1, <3>1 DEF Fetched
  <2>4. InRirb' = InRirb /\ Dispatching' = Dispatching
    BY <2>1 DEF InRirb, Dispatching
  <2> QED
    BY <2>1, <2>3, <2>4 DEF PlaceInv
<1>6. CASE ~Dpc /\ ~Fetch /\ \A c \in Calls : ~PostVerb(c)
  <2>1. UNCHANGED <<dpc, resp, rirb, lost, fetched, posted>>
    BY <1>6, DpcStill, CorbStill
  <2>2. InRirb' = InRirb /\ Dispatching' = Dispatching /\ Fetched' = Fetched
    BY <2>1 DEF InRirb, Dispatching, Fetched
  <2> QED
    BY <2>1, <2>2 DEF PlaceInv
<1> QED
  BY <1>1, <1>2, <1>3, <1>4, <1>5, <1>6 DEF Dpc

LEMMA BaseInit == Init => BaseInv
<1> SUFFICES ASSUME Init PROVE BaseInv
  OBVIOUS
<1>1. TypeOK
  BY TypeInit
<1>2. /\ pc = [c \in Calls |-> "idle"] /\ at = [c \in Calls |-> 0]
      /\ status = [c \in Calls |-> "none"] /\ lock = NULL
      /\ dpc = "idle" /\ rirb = <<>> /\ posted = <<>> /\ fetched = 0 /\ lost = {}
      /\ CORBWP = 0 /\ CORBRP = 0
  BY DEF Init
<1>3. LockInv /\ AtInv /\ RoomInv
  BY <1>2, CallAssumption DEF LockInv, AtInv, RoomInv, Sending, Settling
<1>4. DpcInv
  BY <1>2 DEF DpcInv, Taken
<1>5. Len(rirb) = 0 /\ Len(posted) = 0 /\ fetched = 0
  BY <1>2, EmptySeq
<1>6. PostedInv
  BY <1>5 DEF PostedInv
<1>7. PlaceInv
  <2>1. InRirb = {} /\ Dispatching = {}
    BY <1>2, <1>5 DEF InRirb, Dispatching
  <2> QED
    BY <1>2, <1>5, <2>1 DEF PlaceInv
<1>8. CorbIntact
  <2>1. 0 \in Slots /\ Entries \in Nat \ {0, 1}
    BY CallAssumption DEF Slots
  <2>2. 0 % Entries = 0
    BY <2>1, RingMod DEF Slots
  <2> QED
    BY <1>2, <1>5, <2>1, <2>2 DEF CorbIntact
<1> QED
  BY <1>1, <1>3, <1>4, <1>6, <1>7, <1>8 DEF BaseInv

LEMMA BaseKept ==
  ASSUME BaseInv, [Next]_vars
  PROVE BaseInv'
BY TypeKept, LockKept, AtKept, CorbKept, RoomKept, DpcKept, PostedKept, PlaceKept DEF BaseInv

LEMMA BaseHolds == Spec => []BaseInv
BY BaseInit, BaseKept, PTL DEF Spec

\* The calls, the DPC and the controller keep their types; no index leaves
\* the CORB.
THEOREM TypeCorrect == Spec => []TypeOK
BY BaseHolds, PTL DEF BaseInv

\* No sender overwrites a command that is still to be fetched, nor takes the
\* entry of another, however many send and however the controller fetches.
THEOREM CommandsIntact == Spec => []CorbIntact
BY BaseHolds, PTL DEF BaseInv
-----------------------------------------------------------------------------
(* References. *)

\* Calls that hold a reference, and those that have returned with it.
Holding == {c \in Calls : Kind[c] # "single" /\ ~Idle(c)}
Left == {c \in Calls : Kind[c] = "async" /\ pc[c] = "returned" /\ at[c] < Count[c]}

\* The device is kept from idling by the calls under way, and for good by the
\* asynchronous calls whose verbs were not all sent.
IdleInv == idleRefs = Cardinality(Holding) + Cardinality(Left)

\* Nothing but the beginning and the return of a call counts for either.
LEMMA IdleStill ==
  ASSUME TypeOK, AtInv, [Next]_vars, \A c \in Calls : ~Begin(c) /\ ~Return(c)
  PROVE Holding' = Holding /\ Left' = Left /\ idleRefs' = idleRefs
<1>0. /\ pc \in [Calls -> {"idle", "lock", "check", "reserve", "post", "wait", "waiting",
                           "clear", "count", "settle", "out", "returned"}]
      /\ at \in [Calls -> Nat]
  BY DEF TypeOK
<1> DEFINE Same(d) == /\ ((pc'[d] = "idle") <=> (pc[d] = "idle"))
                      /\ ((pc'[d] = "returned") <=> (pc[d] = "returned"))
                      /\ ((pc[d] = "returned") => (at'[d] = at[d]))
<1> DEFINE P == idleRefs' = idleRefs /\ \A d \in Calls : Same(d)
<1>1. ASSUME NEW c \in Calls, AcquireLock(c) \/ Check(c) \/ Reserve(c) \/ Wait(c) \/ Timeout(c)
                              \/ ClearEvent(c) \/ CountValid(c) \/ Settle(c)
      PROVE P
  <2>1. /\ idleRefs' = idleRefs /\ at' = at /\ pc[c] \notin {"idle", "returned"}
        /\ \E l \in {"check", "out", "reserve", "post", "waiting", "clear", "count", "settle"} :
              pc' = [pc EXCEPT ![c] = l]
    BY <1>1 DEF AcquireLock, Check, Reserve, Wait, Timeout, ClearEvent, CountValid, Settle, Goto
  <2> QED
    BY <1>0, <2>1
<1>2. ASSUME NEW c \in Calls, PostVerb(c) PROVE P
  <2>1. /\ idleRefs' = idleRefs /\ at' = [at EXCEPT ![c] = at[c] + 1] /\ pc[c] = "post"
        /\ pc' = [pc EXCEPT ![c] = "wait"] \/ pc' = [pc EXCEPT ![c] = "check"]
    BY <1>2 DEF PostVerb, Goto
  <2> QED
    BY <1>0, <2>1
<1>3. ASSUME pc' = pc, at' = at, idleRefs' = idleRefs PROVE P
  BY <1>3
<1>4. ASSUME FlushSetEvent PROVE P
  <2>1. /\ idleRefs' = idleRefs /\ at' = at
        /\ pc' = [c \in Calls |-> IF pc[c] = "waiting" /\ CodecOf[c] = RespCodec
                                    THEN "clear" ELSE pc[c]]
    BY <1>4 DEF FlushSetEvent
  <2>2. \A d \in Calls : pc'[d] = pc[d] \/ (pc[d] = "waiting" /\ pc'[d] = "clear")
    BY <2>1
  <2> QED
    BY <2>1, <2>2
<1>5. ASSUME Interrupt \/ FlushReadWp \/ FlushTest \/ FlushCredit \/ FlushShift
             \/ FlushDecrement \/ Fetch \/ Vanish \/ UNCHANGED vars
      PROVE P
  <2>1. pc' = pc /\ at' = at /\ idleRefs' = idleRefs
    BY <1>5 DEF Interrupt, FlushReadWp, FlushTest, FlushCredit, FlushShift, FlushDecrement,
                Fetch, Vanish, vars, callVars
  <2> QED
    BY <1>3, <2>1
<1> HIDE DEF P
<1>6. P
  BY <1>1, <1>2, <1>4, <1>5, Steps
<1>7. idleRefs' = idleRefs /\ \A d \in Calls : Same(d)
  BY <1>6 DEF P
<1> QED
  BY <1>7 DEF Holding, Left, Idle

LEMMA IdleInit == Init => IdleInv
<1> SUFFICES ASSUME Init PROVE IdleInv
  OBVIOUS
<1>1. Holding = {} /\ Left = {} /\ idleRefs = 0
  BY DEF Init, Holding, Left, Idle
<1> QED
  BY <1>1, FS_EmptySet DEF IdleInv

LEMMA IdleKept ==
  ASSUME TypeOK, AtInv, IdleInv, [Next]_vars
  PROVE IdleInv'
<1>0. /\ IsFiniteSet(Calls) /\ IsFiniteSet(Holding) /\ IsFiniteSet(Left)
      /\ Cardinality(Holding) \in Nat /\ Cardinality(Left) \in Nat
  <2>1. IsFiniteSet(Calls)
    BY CallAssumption
  <2>2. IsFiniteSet(Holding)
    BY <2>1, FS_Subset DEF Holding
  <2>3. IsFiniteSet(Left)
    BY <2>1, FS_Subset DEF Left
  <2> QED
    BY <2>1, <2>2, <2>3, FS_CardinalityType
<1>1. ASSUME NEW c \in Calls, Begin(c) PROVE IdleInv'
  <2>1. /\ pc[c] = "idle" /\ pc' = [pc EXCEPT ![c] = "lock"] /\ at' = at
        /\ idleRefs' = IF Kind[c] = "single" THEN idleRefs ELSE idleRefs + 1
    BY <1>1 DEF Begin, Goto
  <2>2. Left' = Left
    BY <2>1 DEF Left, TypeOK
  <2>3. CASE Kind[c] = "single"
    <3>1. Holding' = Holding
      BY <2>1, <2>3 DEF Holding, Idle, TypeOK
    <3> QED
      BY <2>1, <2>2, <2>3, <3>1 DEF IdleInv
  <2>4. CASE Kind[c] # "single"
    <3>1. Holding' = Holding \cup {c} /\ c \notin Holding
      BY <2>1, <2>4 DEF Holding, Idle, TypeOK
    <3>2. Cardinality(Holding') = Cardinality(Holding) + 1
      BY <1>0, <3>1, FS_AddElement
    <3> QED
      BY <1>0, <2>1, <2>2, <2>4, <3>2 DEF IdleInv
  <2> QED
    BY <2>3, <2>4
<1>2. ASSUME NEW c \in Calls, Return(c) PROVE IdleInv'
  <2>1. /\ pc[c] = "out" /\ pc' = [pc EXCEPT ![c] = "returned"] /\ at' = at
        /\ idleRefs' = IF Kind[c] = "sync" \/ (Kind[c] = "async" /\ at[c] = Count[c])
                         THEN idleRefs - 1 ELSE idleRefs
    BY <1>2 DEF Return, Goto
  <2>2. Kind[c] \in {"sync", "async", "single"} /\ at[c] \in 0 .. Count[c] /\ Count[c] \in Nat
    BY CallAssumption DEF AtInv
  <2>3. CASE Kind[c] = "single"
    <3>1. Holding' = Holding /\ Left' = Left
      BY <2>1, <2>3 DEF Holding, Left, Idle, TypeOK
    <3> QED
      BY <2>1, <2>3, <3>1 DEF IdleInv
  <2>4. CASE Kind[c] # "single"
    <3>1. Holding' = Holding \ {c} /\ c \in Holding
      BY <2>1, <2>4 DEF Holding, Idle, TypeOK
    <3>2. Cardinality(Holding') = Cardinality(Holding) - 1
      BY <1>0, <3>1, FS_RemoveElement
    <3>3. CASE Kind[c] = "sync" \/ at[c] = Count[c]
      <4>1. Left' = Left
        BY <2>1, <2>2, <3>3 DEF Left, TypeOK
      <4>2. idleRefs' = idleRefs - 1
        BY <2>1, <2>2, <2>4, <3>3
      <4> QED
        BY <1>0, <3>2, <4>1, <4>2 DEF IdleInv
    <3>4. CASE ~(Kind[c] = "sync" \/ at[c] = Count[c])
      <4>1. Kind[c] = "async" /\ at[c] < Count[c]
        BY <2>2, <2>4, <3>4
      <4>2. Left' = Left \cup {c} /\ c \notin Left
        BY <2>1, <4>1 DEF Left, TypeOK
      <4>3. Cardinality(Left') = Cardinality(Left) + 1
        BY <1>0, <4>2, FS_AddElement
      <4>4. idleRefs' = idleRefs
        BY <2>1, <3>4
      <4> QED
        BY <1>0, <3>2, <4>3, <4>4 DEF IdleInv
    <3> QED
      BY <3>3, <3>4
  <2> QED
    BY <2>3, <2>4
<1>3. CASE \A c \in Calls : ~Begin(c) /\ ~Return(c)
  BY <1>3, IdleStill DEF IdleInv
<1> QED
  BY <1>1, <1>2, <1>3

LEMMA IdleHolds == Spec => []IdleInv
<1>1. BaseInv /\ IdleInv /\ [Next]_vars => IdleInv'
  BY IdleKept DEF BaseInv
<1> QED
  BY <1>1, BaseHolds, IdleInit, PTL DEF Spec

\* As long as the verbs of every asynchronous call could be sent, the device
\* is kept from idling exactly by the calls under way.
THEOREM ReferencesReturned ==
  Spec => []((\A c \in Calls : Kind[c] = "async" => status[c] \notin Refused) => IdleBalanced)
<1>1. ASSUME BaseInv, IdleInv, \A c \in Calls : Kind[c] = "async" => status[c] \notin Refused
      PROVE  IdleBalanced
  <2>1. Left = {}
    BY <1>1 DEF BaseInv, AtInv, Left
  <2>2. Cardinality(Left) = 0
    BY <2>1, FS_EmptySet
  <2>3. Cardinality(Holding) \in Nat
    BY CallAssumption, FS_Subset, FS_CardinalityType DEF Holding
  <2>4. idleRefs = Cardinality(Holding)
    BY <1>1, <2>2, <2>3 DEF IdleInv
  <2> QED
    BY <2>4 DEF IdleBalanced, Holding
<1> QED
  BY <1>1, BaseHolds, IdleHolds, PTL

\* When nothing is under way, the references still held are those of the
\* asynchronous calls whose verbs were not all sent: nobody gives them back.
THEOREM ReferencesLeft ==
  Spec => [](Holding = {} => idleRefs = Cardinality(Left))
<1>1. ASSUME IdleInv, Holding = {} PROVE idleRefs = Cardinality(Left)
  <2>1. Cardinality(Holding) = 0
    BY <1>1, FS_EmptySet
  <2>2. Cardinality(Left) \in Nat
    BY CallAssumption, FS_Subset, FS_CardinalityType DEF Left
  <2> QED
    BY <1>1, <2>1, <2>2 DEF IdleInv
<1> QED
  BY <1>1, IdleHolds, PTL
-----------------------------------------------------------------------------
(* One verb per call, one call at a time on a codec, and no answer after    *)
(* its wait has expired: every call goes through the phases below.          *)

OneVerb == Serialised /\ ~LateAnswers /\ \A c \in Calls : Count[c] = 1

\* Callers make one call at a time on a codec.
TurnInv == \A c, d \in Calls : ~Idle(c) /\ ~Idle(d) /\ CodecOf[c] = CodecOf[d] => c = d

Verb(c) == <<c, 1>>
\* Verbs whose response the DPC has still to take.
Ahead == InCorb \cup InRirb
\* The DPC is dealing with the response to the verb of c.
Now(c) == dpc \in Taken /\ resp = Verb(c)
\* The DPC will take no more responses.
Dead == gone /\ dpc = "idle"
Quiet(a) == cmds[a] = 0 /\ ~event[a]

Unsent(c) ==
    /\ pc[c] \in {"idle", "lock", "check", "reserve", "post"}
    /\ Verb(c) \notin Ahead \cup lost /\ ~Now(c) /\ input[Verb(c)] = NULL
    /\ pc[c] \in {"lock", "check", "reserve"} => Quiet(CodecOf[c])
    /\ pc[c] = "post" => slot[c] = 1 /\ cmds[CodecOf[c]] = 1 /\ ~event[CodecOf[c]]

\* The answer is to come, or is lost.
Outstanding(c) ==
    /\ pc[c] \in {"wait", "waiting"} /\ input[Verb(c)] = NULL
    /\ Verb(c) \in Ahead \cup lost \/ Now(c)
    /\ Now(c) => dpc = "credit"
    /\ cmds[CodecOf[c]] = 1 /\ xfer[CodecOf[c]][0] = Verb(c) /\ ~event[CodecOf[c]]

\* The transfer holds the answer, the DPC has not set the event yet.
Credited(c) ==
    /\ pc[c] \in {"wait", "waiting"} /\ input[Verb(c)] = Verb(c)
    /\ Verb(c) \notin Ahead \cup lost /\ Now(c) /\ dpc # "credit"
    /\ cmds[CodecOf[c]] = (IF dpc = "event" THEN 0 ELSE 1) /\ ~event[CodecOf[c]]

Woken(c) ==
    /\ pc[c] \in {"wait", "clear"} /\ input[Verb(c)] = Verb(c)
    /\ Verb(c) \notin Ahead \cup lost /\ ~Now(c)
    /\ cmds[CodecOf[c]] = 0 /\ event[CodecOf[c]]

\* The wait expired.
GivenUp(c) ==
    /\ pc[c] \in {"clear", "count", "settle"} /\ input[Verb(c)] = NULL
    /\ Verb(c) \in lost \/ Dead
    /\ ~Now(c)
    /\ cmds[CodecOf[c]] = 1 /\ ~event[CodecOf[c]]
    /\ pc[c] = "settle" => got[c] = 0

Answered(c) ==
    /\ pc[c] = "count" /\ input[Verb(c)] = Verb(c)
    /\ Verb(c) \notin Ahead \cup lost /\ ~Now(c)
    /\ Quiet(CodecOf[c])

Over(c) ==
    /\ pc[c] \in {"out", "returned"} /\ input[Verb(c)] \in {NULL, Verb(c)}
    /\ Verb(c) \in Ahead => Dead
    /\ ~Now(c)
    /\ pc[c] = "out" => Quiet(CodecOf[c])
    /\ status[c] = "STATUS_SUCCESS" => input[Verb(c)] = Verb(c)
    /\ status[c] = "STATUS_IO_TIMEOUT" => Verb(c) \in lost \/ gone

Phase(c) ==
    Unsent(c) \/ Outstanding(c) \/ Credited(c) \/ Woken(c) \/ GivenUp(c) \/ Answered(c) \/ Over(c)

\* Nothing is left over on a codec between calls.
FreeInv == \A a \in Codecs : (\A c \in Calls : CodecOf[c] = a => Idle(c)) => Quiet(a)

OneVerbInv == TurnInv /\ FreeInv /\ \A c \in Calls : Phase(c)

\* Every call has a first verb.
LEMMA VerbMade == \A c \in Calls : Verb(c) \in Transfers
<1> SUFFICES ASSUME NEW c \in Calls PROVE Verb(c) \in Transfers
  OBVIOUS
<1>1. Count[c] \in Nat \ {0}
  BY CallAssumption
<1>2. 1 \in 1 .. Count[c]
  BY <1>1
<1> QED
  BY <1>2, TransferMade DEF Verb

\* What was fetched is no longer in the CORB.
LEMMA FetchedApart ==
  ASSUME TypeOK, PostedInv
  PROVE Fetched \cap InCorb = {}
<1>1. fetched \in Nat /\ Len(posted) \in Nat /\ fetched <= Len(posted)
  BY LenProperties DEF TypeOK, PostedInv
<1>2. ASSUME NEW i \in 1 .. fetched, NEW j \in fetched + 1 .. Len(posted), posted[i] = posted[j]
      PROVE FALSE
  <2>1. i \in 1 .. Len(posted) /\ j \in 1 .. Len(posted) /\ i # j
    BY <1>1
  <2> QED
    BY <1>2, <2>1, PostedOnce
<1> QED
  BY <1>2 DEF Fetched, InCorb

\* A verb is in one place: ahead of the DPC, lost, or with it.
LEMMA NowApart ==
  ASSUME BaseInv, NEW c \in Calls, Now(c)
  PROVE Verb(c) \notin Ahead \cup lost
<1>1. Verb(c) \in Dispatching
  BY DEF Now, Taken, Dispatching
<1>2. Verb(c) \in Fetched /\ Verb(c) \notin InRirb \cup lost
  BY <1>1 DEF BaseInv, PlaceInv
<1> QED
  BY <1>2, FetchedApart DEF Ahead, BaseInv

LEMMA LostApart ==
  ASSUME BaseInv
  PROVE Ahead \cap lost = {}
BY FetchedApart DEF Ahead, BaseInv, PlaceInv

\* A verb is ahead of the DPC from its posting, ...
LEMMA AheadPosted ==
  ASSUME BaseInv, NEW c \in Calls, PostVerb(c)
  PROVE Ahead' = Ahead \cup {Current(c)} /\ lost' = lost
<1>1. /\ Len(posted) \in Nat /\ fetched \in 0 .. Len(posted) /\ fetched' = fetched
      /\ Len(posted') = Len(posted) + 1
      /\ \A i \in 1 .. Len(posted) : posted'[i] = posted[i]
      /\ posted'[Len(posted) + 1] = Current(c)
  BY Posting DEF BaseInv
<1>2. rirb' = rirb /\ lost' = lost
  BY DEF PostVerb
<1>3. InRirb' = InRirb
  BY <1>2 DEF InRirb
<1>4. \A i \in fetched + 1 .. Len(posted) : posted'[i] = posted[i]
  BY <1>1
<1>5. fetched + 1 .. Len(posted') = (fetched + 1 .. Len(posted)) \cup {Len(posted) + 1}
  BY <1>1
<1>6. InCorb' = InCorb \cup {Current(c)}
  BY <1>1, <1>4, <1>5 DEF InCorb
<1> QED
  BY <1>2, <1>3, <1>6 DEF Ahead

\* ... stays so or is lost when it is fetched, ...
LEMMA AheadFetched ==
  ASSUME BaseInv, Fetch
  PROVE /\ Ahead' \subseteq Ahead /\ lost \subseteq lost'
        /\ Ahead' \cup lost' = Ahead \cup lost
<1> DEFINE e == corb[CORBRP']
<1>1. /\ e = posted[fetched + 1] /\ fetched' = fetched + 1 /\ fetched \in Nat
      /\ fetched < Len(posted) /\ e \in Transfers
  BY FetchedNew DEF BaseInv
<1>2. /\ posted' = posted
      /\ \/ rirb' = Append(rirb, e) /\ lost' = lost
         \/ rirb' = rirb /\ lost' = lost \cup {e}
  BY DEF Fetch
<1>3. Len(posted) \in Nat
  BY LenProperties DEF BaseInv, TypeOK
<1> HIDE DEF e
<1>4. fetched + 1 .. Len(posted) = (fetched' + 1 .. Len(posted)) \cup {fetched + 1}
  BY <1>1, <1>3
<1>5. InCorb = InCorb' \cup {e}
  BY <1>1, <1>2, <1>4 DEF InCorb
<1>6. CASE rirb' = Append(rirb, e) /\ lost' = lost
  <2>1. InRirb' = InRirb \cup {e}
    BY <1>1, <1>6, RirbAppended DEF BaseInv
  <2> QED
    BY <1>5, <1>6, <2>1 DEF Ahead
<1>7. CASE rirb' = rirb /\ lost' = lost \cup {e}
  <2>1. InRirb' = InRirb
    BY <1>7 DEF InRirb
  <2> QED
    BY <1>5, <1>7, <2>1 DEF Ahead
<1> QED
  BY <1>2, <1>6, <1>7

\* ... until the DPC takes its response.
LEMMA AheadTaken ==
  ASSUME BaseInv, FlushTest
  PROVE /\ resp' \in InRirb /\ resp' \in Transfers
        /\ Ahead' \subseteq Ahead /\ Ahead \subseteq Ahead' \cup {resp'} /\ lost' = lost
<1>1. Len(rirb) > 0
  BY LenProperties DEF BaseInv, TypeOK, DpcInv, FlushTest
<1>2. /\ resp' = Head(rirb) /\ rirb' = Tail(rirb)
      /\ lost' = lost /\ fetched' = fetched /\ posted' = posted
  BY DEF FlushTest
<1>3. Head(rirb) \in InRirb /\ InRirb' = InRirb \ {Head(rirb)}
  BY <1>1, <1>2, RirbTaken DEF BaseInv
<1>4. InCorb' = InCorb
  BY <1>2 DEF InCorb
<1>5. resp' \in Transfers
  BY <1>1, <1>2, HeadTaken DEF BaseInv, TypeOK
<1> QED
  BY <1>2, <1>3, <1>4, <1>5 DEF Ahead

\* Other steps move no verb.
LEMMA AheadStill ==
  ASSUME UNCHANGED <<rirb, fetched, posted>>
  PROVE Ahead' = Ahead
BY DEF Ahead, InCorb, InRirb
-----------------------------------------------------------------------------
(* A step of one call, or of the DPC for it, leaves the others where they are. *)

\* The verb of d does not go back, and nothing else of d changes.
Still(d) ==
    /\ pc'[d] = pc[d] /\ slot'[d] = slot[d] /\ got'[d] = got[d] /\ status'[d] = status[d]
    /\ input'[Verb(d)] = input[Verb(d)]
    /\ Verb(d) \in Ahead' => Verb(d) \in Ahead
    /\ Verb(d) \in lost => Verb(d) \in lost'
    /\ Verb(d) \in Ahead \cup lost <=> Verb(d) \in Ahead' \cup lost'
    /\ Now(d)' <=> Now(d)
    /\ Now(d) => dpc' = dpc
    /\ Dead => Dead'
    /\ gone => gone'

SameCodec(a) == cmds'[a] = cmds[a] /\ event'[a] = event[a] /\ xfer'[a] = xfer[a]

LEMMA PhaseStill ==
  ASSUME NEW d \in Calls, Phase(d), Still(d), SameCodec(CodecOf[d]) \/ Idle(d)
  PROVE Phase(d)'
<1>1. Verb(d)' = Verb(d)
  BY DEF Verb
<1>2. CASE Unsent(d)
  <2>1. Unsent(d)'
    BY <1>1, <1>2 DEF Unsent, Still, SameCodec, Quiet, Idle
  <2> QED
    BY <2>1 DEF Phase
<1>3. CASE Outstanding(d)
  <2>1. Outstanding(d)'
    BY <1>1, <1>3 DEF Outstanding, Still, SameCodec, Idle
  <2> QED
    BY <2>1 DEF Phase
<1>4. CASE Credited(d)
  <2>1. Credited(d)'
    BY <1>1, <1>4 DEF Credited, Still, SameCodec, Idle
  <2> QED
    BY <2>1 DEF Phase
<1>5. CASE Woken(d)
  <2>1. Woken(d)'
    BY <1>1, <1>5 DEF Woken, Still, SameCodec, Idle
  <2> QED
    BY <2>1 DEF Phase
<1>6. CASE GivenUp(d)
  <2>1. GivenUp(d)'
    BY <1>1, <1>6 DEF GivenUp, Still, SameCodec, Idle
  <2> QED
    BY <2>1 DEF Phase
<1>7. CASE Answered(d)
  <2>1. Answered(d)'
    BY <1>1, <1>7 DEF Answered, Still, SameCodec, Quiet, Idle
  <2> QED
    BY <2>1 DEF Phase
<1>8. CASE Over(d)
  <2>1. Over(d)'
    BY <1>1, <1>8 DEF Over, Still, SameCodec, Quiet, Idle
  <2> QED
    BY <2>1 DEF Phase
<1> QED
  BY <1>2, <1>3, <1>4, <1>5, <1>6, <1>7, <1>8 DEF Phase

\* The calls but c, and the codecs but that of c, are left alone.
Others(c) ==
    /\ \A d \in Calls \ {c} : Still(d)
    /\ \A a \in Codecs \ {CodecOf[c]} : SameCodec(a)

Alone(c) == \A d \in Calls \ {c} : CodecOf[d] = CodecOf[c] => Idle(d)

LEMMA OneMoves ==
  ASSUME OneVerbInv, NEW c \in Calls, Alone(c), Others(c),
         Phase(c)', Idle(c)' => Quiet(CodecOf[c])'
  PROVE OneVerbInv'
<1>1. \A d \in Calls \ {c} : pc'[d] = pc[d] /\ (Idle(d)' <=> Idle(d))
  BY DEF Others, Still, Idle
<1>2. ASSUME NEW d \in Calls PROVE Phase(d)'
  <2>1. CASE d = c
    BY <2>1
  <2>2. CASE d # c
    <3>1. Phase(d) /\ Still(d) /\ (SameCodec(CodecOf[d]) \/ Idle(d))
      BY <2>2, CodecKnown DEF OneVerbInv, Others, Alone
    <3> QED
      BY <3>1, PhaseStill
  <2> QED
    BY <2>1, <2>2
<1>3. TurnInv'
  BY <1>1 DEF OneVerbInv, TurnInv, Alone
<1>4. ASSUME NEW a \in Codecs, \A d \in Calls : CodecOf[d] = a => Idle(d)' PROVE Quiet(a)'
  <2>1. CASE a = CodecOf[c]
    BY <1>4, <2>1
  <2>2. CASE a # CodecOf[c]
    <3>1. SameCodec(a) /\ Quiet(a)
      BY <1>1, <1>4, <2>2 DEF OneVerbInv, FreeInv, Others
    <3> QED
      BY <3>1 DEF SameCodec, Quiet
  <2> QED
    BY <2>1, <2>2
<1>5. FreeInv'
  BY <1>4 DEF FreeInv
<1> QED
  BY <1>2, <1>3, <1>5 DEF OneVerbInv

\* A step that belongs to no call.
LEMMA NoneMoves ==
  ASSUME OneVerbInv, \A d \in Calls : Still(d), \A a \in Codecs : SameCodec(a)
  PROVE OneVerbInv'
<1>1. \A d \in Calls : Idle(d)' <=> Idle(d)
  BY DEF Still, Idle
<1>2. \A d \in Calls : Phase(d)'
  BY PhaseStill, CodecKnown DEF OneVerbInv
<1>3. TurnInv'
  BY <1>1 DEF OneVerbInv, TurnInv
<1>4. FreeInv'
  BY <1>1 DEF OneVerbInv, FreeInv, SameCodec, Quiet
<1> QED
  BY <1>2, <1>3, <1>4 DEF OneVerbInv

\* A call that is under way is alone on its codec.
LEMMA Turn ==
  ASSUME TurnInv, NEW c \in Calls, ~Idle(c)
  PROVE Alone(c)
BY DEF TurnInv, Alone
-----------------------------------------------------------------------------
(* The callers' steps. *)

\* What a step of c may change of the callers' variables.
OwnCall(c) ==
    /\ \A d \in Calls \ {c} : /\ pc'[d] = pc[d] /\ at'[d] = at[d] /\ slot'[d] = slot[d]
                              /\ got'[d] = got[d] /\ status'[d] = status[d]
    /\ \A t \in Transfers : t[1] # c => input'[t] = input[t]
    /\ \A a \in Codecs \ {CodecOf[c]} : SameCodec(a)

LEMMA CallerOwns ==
  ASSUME TypeOK, NEW c \in Calls,
         \/ Begin(c) \/ AcquireLock(c) \/ Check(c) \/ Reserve(c) \/ Wait(c) \/ Timeout(c)
         \/ ClearEvent(c) \/ CountValid(c) \/ Settle(c) \/ Return(c)
  PROVE  /\ OwnCall(c)
         /\ UNCHANGED <<rirb, fetched, posted, lost, dpc, resp, gone>>
<1>0. /\ pc \in [Calls -> {"idle", "lock", "check", "reserve", "post", "wait", "waiting",
                           "clear", "count", "settle", "out", "returned"}]
      /\ slot \in [Calls -> Int] /\ got \in [Calls -> Nat] /\ status \in [Calls -> Statuses]
      /\ input \in [Transfers -> Transfers \cup {NULL}] /\ cmds \in [Codecs -> Int]
      /\ event \in [Codecs -> BOOLEAN]
  BY DEF TypeOK
<1>1. UNCHANGED <<rirb, fetched, posted, lost, dpc, resp, gone, xfer>>
  BY DEF Begin, AcquireLock, Check, Reserve, Wait, Timeout, ClearEvent, CountValid, Settle,
         Return, hwVars, dpcVars
<1>2. \A d \in Calls \ {c} : pc'[d] = pc[d] /\ status'[d] = status[d]
  BY <1>0 DEF Begin, AcquireLock, Check, Reserve, Wait, Timeout, ClearEvent, CountValid, Settle,
         Return, Goto, Finish
<1>3. \A d \in Calls \ {c} : at'[d] = at[d] /\ slot'[d] = slot[d] /\ got'[d] = got[d]
  BY <1>0 DEF Begin, AcquireLock, Check, Reserve, Wait, Timeout, ClearEvent, CountValid, Settle,
         Return
<1>4. \A t \in Transfers : t[1] # c => input'[t] = input[t]
  <2>1. \A t \in Transfers : t[1] # c => t # Current(c)
    BY DEF Current
  <2>2. input' = input \/ input' = [input EXCEPT ![Current(c)] = NULL]
    BY DEF Begin, AcquireLock, Check, Reserve, Wait, Timeout, ClearEvent, CountValid, Settle,
           Return
  <2> QED
    BY <1>0, <2>1, <2>2
<1>5. \A a \in Codecs \ {CodecOf[c]} : cmds'[a] = cmds[a] /\ event'[a] = event[a]
  BY <1>0 DEF Begin, AcquireLock, Check, Reserve, Wait, Timeout, ClearEvent, CountValid, Settle,
         Return
<1> QED
  BY <1>1, <1>2, <1>3, <1>4, <1>5 DEF OwnCall, SameCodec

\* No verb moves then, and nothing becomes of the others.
LEMMA CallerOthers ==
  ASSUME NEW c \in Calls, OwnCall(c), UNCHANGED <<rirb, fetched, posted, lost, dpc, resp, gone>>
  PROVE  /\ Others(c) /\ Ahead' = Ahead /\ lost' = lost /\ dpc' = dpc
         /\ (Dead' <=> Dead) /\ (gone' <=> gone)
         /\ \A d \in Calls : Now(d)' <=> Now(d)
<1>1. Ahead' = Ahead
  BY AheadStill
<1>2. \A d \in Calls : Now(d)' <=> Now(d)
  BY DEF Now, Verb
<1>3. Dead' <=> Dead
  BY DEF Dead
<1>4. \A d \in Calls \ {c} : input'[Verb(d)] = input[Verb(d)]
  <2>1. \A d \in Calls \ {c} : Verb(d) \in Transfers /\ Verb(d)[1] # c
    BY VerbMade DEF Verb
  <2> QED
    BY <2>1 DEF OwnCall
<1> QED
  BY <1>1, <1>2, <1>3, <1>4 DEF Others, Still, OwnCall

LEMMA OneBegin ==
  ASSUME BaseInv, OneVerbInv, OneVerb, NEW c \in Calls, Begin(c)
  PROVE OneVerbInv'
<1>1. OwnCall(c) /\ UNCHANGED <<rirb, fetched, posted, lost, dpc, resp, gone>>
  BY CallerOwns DEF BaseInv
<1>2. /\ Others(c) /\ Ahead' = Ahead /\ lost' = lost /\ (Now(c)' <=> Now(c))
  BY <1>1, CallerOthers
<1>3. /\ pc[c] = "idle" /\ pc'[c] = "lock" /\ UNCHANGED <<input, cmds, event>>
      /\ \A d \in Calls : CodecOf[d] = CodecOf[c] => Idle(d)
  BY DEF Begin, Goto, OneVerb, BaseInv, TypeOK
<1>4. Quiet(CodecOf[c])
  BY <1>3, CodecKnown DEF OneVerbInv, FreeInv
<1>5. Unsent(c)
  BY <1>3 DEF OneVerbInv, Phase, Unsent, Outstanding, Credited, Woken, GivenUp, Answered, Over
<1>6. Unsent(c)'
  BY <1>2, <1>3, <1>4, <1>5 DEF Unsent, Quiet, Verb
<1>7. Phase(c)' /\ ~Idle(c)' /\ Alone(c)
  BY <1>3, <1>6 DEF Phase, Idle, Alone
<1> QED
  BY <1>2, <1>7, OneMoves

\* A step of a call that stays under way.
LEMMA OneStep ==
  ASSUME BaseInv, OneVerbInv, NEW c \in Calls, ~Idle(c),
         OwnCall(c), UNCHANGED <<rirb, fetched, posted, lost, dpc, resp, gone>>,
         Phase(c)', Idle(c)' => Quiet(CodecOf[c])'
  PROVE OneVerbInv'
<1>1. Others(c)
  BY CallerOthers
<1>2. Alone(c)
  BY Turn DEF OneVerbInv
<1> QED
  BY <1>1, <1>2, OneMoves

\* Before the verb is posted.
LEMMA OneSend ==
  ASSUME BaseInv, OneVerbInv, OneVerb, NEW c \in Calls,
         AcquireLock(c) \/ Check(c) \/ Reserve(c)
  PROVE OneVerbInv'
<1>1. OwnCall(c) /\ UNCHANGED <<rirb, fetched, posted, lost, dpc, resp, gone>>
  BY CallerOwns DEF BaseInv
<1>2. /\ Ahead' = Ahead /\ lost' = lost /\ (Now(c)' <=> Now(c)) /\ (Dead' <=> Dead)
  BY <1>1, CallerOthers
<1>3. pc[c] \in {"lock", "check", "reserve"} /\ at[c] = 0
  <2>1. at[c] \in 0 .. Count[c] /\ Count[c] = 1 /\ (pc[c] = "lock" => at[c] = 0)
        /\ (pc[c] \in Sending => at[c] < Count[c])
    BY DEF BaseInv, AtInv, OneVerb
  <2> QED
    BY <2>1 DEF AcquireLock, Check, Reserve, Sending
<1>4. Unsent(c) /\ status[c] = "none"
  BY <1>3 DEF OneVerbInv, Phase, Unsent, Outstanding, Credited, Woken, GivenUp, Answered, Over,
              BaseInv, AtInv
<1>5. Current(c) = Verb(c) /\ Verb(c) \in Transfers
  BY <1>3, TransferMade DEF Current, Verb, OneVerb
<1>6. CASE AcquireLock(c)
  <2>1. /\ pc'[c] = "check" /\ UNCHANGED <<input, cmds, event>>
    BY <1>6 DEF AcquireLock, Goto, BaseInv, TypeOK
  <2>2. Unsent(c)'
    BY <1>2, <1>3, <1>4, <2>1 DEF Unsent, Quiet, Verb
  <2> QED
    BY <1>1, <1>3, <2>1, <2>2, OneStep DEF Phase, Idle
<1>7. CASE Check(c)
  <2>1. UNCHANGED <<cmds, event>> /\ input'[Verb(c)] = NULL
    BY <1>5, <1>7 DEF Check, BaseInv, TypeOK
  <2>2. \/ pc'[c] = "reserve"
        \/ pc'[c] = "out" /\ status'[c] \in Refused
    BY <1>7 DEF Check, Goto, Finish, BaseInv, TypeOK, Refused
  <2>3. CASE pc'[c] = "reserve"
    <3>1. Unsent(c)'
      BY <1>2, <1>3, <1>4, <2>1, <2>3 DEF Unsent, Quiet, Verb
    <3> QED
      BY <1>1, <1>3, <2>3, <3>1, OneStep DEF Phase, Idle
  <2>4. CASE pc'[c] = "out" /\ status'[c] \in Refused
    <3>1. Over(c)'
      BY <1>2, <1>3, <1>4, <2>1, <2>4 DEF Unsent, Over, Quiet, Verb, Refused
    <3> QED
      BY <1>1, <1>3, <2>4, <3>1, OneStep DEF Phase, Idle
  <2> QED
    BY <2>2, <2>3, <2>4
<1>8. CASE Reserve(c)
  <2>1. /\ pc'[c] = "post" /\ UNCHANGED <<input, event>>
        /\ cmds'[CodecOf[c]] = cmds[CodecOf[c]] + 1 /\ slot'[c] = cmds[CodecOf[c]] + 1
    BY <1>8, CodecKnown DEF Reserve, Goto, BaseInv, TypeOK
  <2>2. Unsent(c)'
    BY <1>2, <1>3, <1>4, <2>1 DEF Unsent, Quiet, Verb
  <2> QED
    BY <1>1, <1>3, <2>1, <2>2, OneStep DEF Phase, Idle
<1> QED
  BY <1>6, <1>7, <1>8

LEMMA OnePost ==
  ASSUME BaseInv, OneVerbInv, OneVerb, NEW c \in Calls, PostVerb(c)
  PROVE OneVerbInv'
<1>1. pc[c] = "post" /\ at[c] = 0 /\ Count[c] = 1
  BY DEF BaseInv, AtInv, OneVerb, PostVerb, Sending
<1>2. Current(c) = Verb(c) /\ Verb(c) \in Transfers
  BY <1>1, TransferMade DEF Current, Verb
<1>3. Ahead' = Ahead \cup {Verb(c)} /\ lost' = lost
  BY <1>2, AheadPosted
<1>4. Unsent(c)
  BY <1>1 DEF OneVerbInv, Phase, Unsent, Outstanding, Credited, Woken, GivenUp, Answered, Over
<1>5. 0 \in Slots
  BY CallAssumption DEF Slots
<1>6. /\ UNCHANGED <<slot, got, status, input, cmds, event, dpc, resp, gone>>
      /\ pc' = [pc EXCEPT ![c] = "wait"]
      /\ xfer' = [xfer EXCEPT ![CodecOf[c]][0] = Verb(c)]
  <2>1. slot[c] - 1 = 0 /\ at'[c] = Count[c]
    BY <1>1, <1>4 DEF Unsent, PostVerb, BaseInv, TypeOK
  <2> QED
    BY <1>2, <1>5, <2>1 DEF PostVerb, Goto, dpcVars
<1>7. /\ pc'[c] = "wait" /\ \A d \in Calls \ {c} : pc'[d] = pc[d]
  BY <1>6 DEF BaseInv, TypeOK
<1>8. /\ xfer'[CodecOf[c]][0] = Verb(c)
      /\ \A a \in Codecs \ {CodecOf[c]} : xfer'[a] = xfer[a]
  BY <1>5, <1>6, CodecKnown DEF BaseInv, TypeOK
<1>9. \A d \in Calls : Verb(d) = Verb(c) => d = c
  BY DEF Verb
<1>10. (\A d \in Calls : Now(d)' <=> Now(d)) /\ (Dead' <=> Dead)
  BY <1>6 DEF Now, Verb, Dead
<1>11. Others(c)
  BY <1>3, <1>6, <1>7, <1>8, <1>9, <1>10 DEF Others, Still, SameCodec
<1>12. Outstanding(c)'
  BY <1>1, <1>3, <1>4, <1>6, <1>7, <1>8, <1>10 DEF Outstanding, Unsent, Verb
<1>13. Phase(c)' /\ ~Idle(c) /\ ~Idle(c)'
  BY <1>1, <1>7, <1>12 DEF Phase, Idle
<1> QED
  BY <1>11, <1>13, Turn, OneMoves DEF OneVerbInv

\* Waiting for the answer.
LEMMA OneWait ==
  ASSUME BaseInv, OneVerbInv, OneVerb, NEW c \in Calls, Wait(c) \/ Timeout(c)
  PROVE OneVerbInv'
<1>1. OwnCall(c) /\ UNCHANGED <<rirb, fetched, posted, lost, dpc, resp, gone>>
  BY CallerOwns DEF BaseInv
<1>2. /\ Ahead' = Ahead /\ lost' = lost /\ dpc' = dpc /\ (Now(c)' <=> Now(c))
      /\ (Dead' <=> Dead)
  BY <1>1, CallerOthers
<1>3. UNCHANGED <<input, cmds, xfer, event>>
  BY DEF Wait, Timeout
<1>4. CASE Wait(c)
  <2>1. /\ pc[c] = "wait"
        /\ pc'[c] = IF event[CodecOf[c]] THEN "clear" ELSE "waiting"
    BY <1>4 DEF Wait, Goto, BaseInv, TypeOK
  <2>2. Outstanding(c) \/ Credited(c) \/ Woken(c)
    BY <2>1 DEF OneVerbInv, Phase, Unsent, GivenUp, Answered, Over
  <2>3. CASE Outstanding(c)
    <3>1. Outstanding(c)'
      BY <1>2, <1>3, <2>1, <2>3 DEF Outstanding, Verb
    <3> QED
      BY <1>1, <2>1, <3>1, OneStep DEF Phase, Idle
  <2>4. CASE Credited(c)
    <3>1. Credited(c)'
      BY <1>2, <1>3, <2>1, <2>4 DEF Credited, Verb
    <3> QED
      BY <1>1, <2>1, <3>1, OneStep DEF Phase, Idle
  <2>5. CASE Woken(c)
    <3>1. Woken(c)'
      BY <1>2, <1>3, <2>1, <2>5 DEF Woken, Verb
    <3> QED
      BY <1>1, <2>1, <3>1, OneStep DEF Phase, Idle
  <2> QED
    BY <2>2, <2>3, <2>4, <2>5
<1>5. CASE Timeout(c)
  <2>1. /\ pc[c] = "waiting" /\ pc'[c] = "clear"
    BY <1>5 DEF Timeout, Goto, BaseInv, TypeOK
  <2>2. Outstanding(c) \/ Credited(c)
    BY <2>1 DEF OneVerbInv, Phase, Unsent, Woken, GivenUp, Answered, Over
  <2>3. Dead \/ Verb(c) \notin Ahead \cup Dispatching
    <3>1. 1 \in 1 .. Count[c]
      BY DEF OneVerb
    <3> QED
      BY <1>5, <3>1 DEF Timeout, OneVerb, Dead, Verb, InFlight, Ahead
  <2>4. ~Now(c)
    BY <2>3 DEF Now, Dead, Taken, Dispatching
  <2>5. Outstanding(c) /\ (Verb(c) \in lost \/ Dead)
    BY <2>2, <2>3, <2>4 DEF Outstanding, Credited
  <2>6. GivenUp(c)'
    BY <1>2, <1>3, <2>1, <2>4, <2>5 DEF GivenUp, Outstanding, Verb
  <2> QED
    BY <1>1, <2>1, <2>6, OneStep DEF Phase, Idle
<1> QED
  BY <1>4, <1>5

\* The count of the answers to a single verb.
LEMMA OneCounted ==
  ASSUME NEW c \in Calls, Count[c] = 1
  PROVE Cardinality({k \in 1 .. Count[c] : input[<<c, k>>] # NULL})
          = IF input[Verb(c)] = NULL THEN 0 ELSE 1
<1> DEFINE K == {k \in 1 .. Count[c] : input[<<c, k>>] # NULL}
<1>1. 1 .. Count[c] = {1}
  OBVIOUS
<1>2. CASE input[Verb(c)] = NULL
  <2>1. K = {}
    BY <1>1, <1>2 DEF Verb
  <2> QED
    BY <1>2, <2>1, FS_EmptySet
<1>3. CASE input[Verb(c)] # NULL
  <2>1. K = {1}
    BY <1>1, <1>3 DEF Verb
  <2>2. Cardinality({1}) = 1
    BY FS_Singleton
  <2> QED
    BY <1>3, <2>1, <2>2
<1> QED
  BY <1>2, <1>3

\* Taking the result of the wait.
LEMMA OneTake ==
  ASSUME BaseInv, OneVerbInv, OneVerb, NEW c \in Calls, ClearEvent(c) \/ CountValid(c)
  PROVE OneVerbInv'
<1>1. OwnCall(c) /\ UNCHANGED <<rirb, fetched, posted, lost, dpc, resp, gone>>
  BY CallerOwns DEF BaseInv
<1>2. /\ Ahead' = Ahead /\ lost' = lost /\ (Now(c)' <=> Now(c)) /\ (Dead' <=> Dead)
  BY <1>1, CallerOthers
<1>3. UNCHANGED <<input, cmds>>
  BY DEF ClearEvent, CountValid
<1>4. CASE ClearEvent(c)
  <2>1. pc[c] = "clear" /\ pc'[c] = "count" /\ event'[CodecOf[c]] = FALSE
    BY <1>4, CodecKnown DEF ClearEvent, Goto, BaseInv, TypeOK
  <2>2. Woken(c) \/ GivenUp(c)
    BY <2>1 DEF OneVerbInv, Phase, Unsent, Outstanding, Credited, Answered, Over
  <2>3. CASE Woken(c)
    <3>1. Answered(c)'
      BY <1>2, <1>3, <2>1, <2>3 DEF Woken, Answered, Quiet, Verb
    <3> QED
      BY <1>1, <2>1, <3>1, OneStep DEF Phase, Idle
  <2>4. CASE GivenUp(c)
    <3>1. GivenUp(c)'
      BY <1>2, <1>3, <2>1, <2>4 DEF GivenUp, Verb
    <3> QED
      BY <1>1, <2>1, <3>1, OneStep DEF Phase, Idle
  <2> QED
    BY <2>2, <2>3, <2>4
<1>5. CASE CountValid(c)
  <2> DEFINE n == Cardinality({k \in 1 .. Count[c] : input[<<c, k>>] # NULL})
  <2>1. n = (IF input[Verb(c)] = NULL THEN 0 ELSE 1) /\ Count[c] = 1
    BY OneCounted DEF OneVerb
  <2>2. /\ pc[c] = "count" /\ event' = event /\ got' = [got EXCEPT ![c] = n]
        /\ n < Count[c] => pc' = [pc EXCEPT ![c] = "settle"]
        /\ ~(n < Count[c]) => /\ pc' = [pc EXCEPT ![c] = "out"]
                              /\ status' = [status EXCEPT ![c] = "STATUS_SUCCESS"]
    BY <1>5 DEF CountValid, Goto, Finish
  <2> HIDE DEF n
  <2>3. GivenUp(c) \/ Answered(c)
    BY <2>2 DEF OneVerbInv, Phase, Unsent, Outstanding, Credited, Woken, Over
  <2>4. CASE GivenUp(c)
    <3>1. pc'[c] = "settle" /\ got'[c] = 0
      BY <2>1, <2>2, <2>4 DEF GivenUp, BaseInv, TypeOK
    <3>2. GivenUp(c)'
      BY <1>2, <1>3, <2>2, <2>4, <3>1 DEF GivenUp, Verb
    <3> QED
      BY <1>1, <2>2, <3>1, <3>2, OneStep DEF Phase, Idle
  <2>5. CASE Answered(c)
    <3>1. input[Verb(c)] # NULL
      BY <2>5, VerbMade, CallAssumption DEF Answered
    <3>2. pc'[c] = "out" /\ status'[c] = "STATUS_SUCCESS"
      BY <2>1, <2>2, <3>1 DEF BaseInv, TypeOK
    <3>3. Over(c)'
      BY <1>2, <1>3, <2>2, <2>5, <3>2 DEF Answered, Over, Quiet, Verb
    <3> QED
      BY <1>1, <2>2, <3>2, <3>3, OneStep DEF Phase, Idle
  <2> QED
    BY <2>3, <2>4, <2>5
<1> QED
  BY <1>4, <1>5

\* The end of the call.
LEMMA OneEnd ==
  ASSUME BaseInv, OneVerbInv, OneVerb, NEW c \in Calls, Settle(c) \/ Return(c)
  PROVE OneVerbInv'
<1>1. OwnCall(c) /\ UNCHANGED <<rirb, fetched, posted, lost, dpc, resp, gone>>
  BY CallerOwns DEF BaseInv
<1>2. /\ Ahead' = Ahead /\ lost' = lost /\ (Now(c)' <=> Now(c)) /\ (Dead' <=> Dead)
      /\ (gone' <=> gone)
  BY <1>1, CallerOthers
<1>3. UNCHANGED <<input, event>>
  BY DEF Settle, Return
<1>4. CASE Settle(c)
  <2>1. /\ pc[c] = "settle" /\ pc'[c] = "out" /\ status'[c] = "STATUS_IO_TIMEOUT"
        /\ cmds'[CodecOf[c]] = cmds[CodecOf[c]] + got[c] - Count[c]
    BY <1>4, CodecKnown DEF Settle, Goto, Finish, BaseInv, TypeOK
  <2>2. GivenUp(c)
    BY <2>1 DEF OneVerbInv, Phase, Unsent, Outstanding, Credited, Woken, Answered, Over
  <2>3. cmds'[CodecOf[c]] = 0
    BY <2>1, <2>2 DEF GivenUp, OneVerb
  <2>4. Verb(c) \in Ahead => Verb(c) \notin lost
    BY LostApart
  <2>5. Over(c)'
    BY <1>2, <1>3, <2>1, <2>2, <2>3, <2>4 DEF GivenUp, Over, Quiet, Verb, Dead
  <2>6. Quiet(CodecOf[c])'
    BY <1>3, <2>2, <2>3 DEF Quiet, GivenUp
  <2> QED
    BY <1>1, <2>1, <2>5, <2>6, OneStep DEF Phase, Idle
<1>5. CASE Return(c)
  <2>1. /\ pc[c] = "out" /\ pc'[c] = "returned" /\ UNCHANGED <<cmds, status>>
    BY <1>5 DEF Return, Goto, BaseInv, TypeOK
  <2>2. Over(c)
    BY <2>1 DEF OneVerbInv, Phase, Unsent, Outstanding, Credited, Woken, GivenUp, Answered
  <2>3. Over(c)'
    BY <1>2, <1>3, <2>1, <2>2 DEF Over, Quiet, Verb
  <2>4. Quiet(CodecOf[c])'
    BY <1>3, <2>1, <2>2 DEF Quiet, Over
  <2> QED
    BY <1>1, <2>1, <2>3, <2>4, OneStep DEF Phase, Idle
<1> QED
  BY <1>4, <1>5
-----------------------------------------------------------------------------
(* The steps of the DPC, the controller and the codecs. *)

LEMMA OneHardware ==
  ASSUME BaseInv, OneVerbInv, Interrupt \/ FlushReadWp \/ Fetch \/ Vanish \/ UNCHANGED vars
  PROVE OneVerbInv'
<1>1. /\ UNCHANGED <<pc, slot, got, status, input, cmds, event, xfer>>
  BY DEF Interrupt, FlushReadWp, Fetch, Vanish, vars, callVars
<1>2. /\ Ahead' \subseteq Ahead /\ lost \subseteq lost'
      /\ Ahead' \cup lost' = Ahead \cup lost
  <2>1. CASE Fetch
    BY <2>1, AheadFetched
  <2>2. CASE Interrupt \/ FlushReadWp \/ Vanish \/ UNCHANGED vars
    <3>1. UNCHANGED <<rirb, fetched, posted, lost>>
      BY <2>2 DEF Interrupt, FlushReadWp, Vanish, vars, hwVars
    <3> QED
      BY <3>1, AheadStill
  <2> QED
    BY <2>1, <2>2
<1>3. /\ \A d \in Calls : (Now(d)' <=> Now(d)) /\ (Now(d) => dpc' = dpc)
      /\ (Dead => Dead') /\ (gone => gone')
  <2>1. CASE FlushReadWp
    <3>1. dpc = "idle" /\ dpc' \in {"idle", "test"} /\ (gone => dpc' = "idle") /\ gone' = gone
      BY <2>1 DEF FlushReadWp, hwVars
    <3> QED
      BY <3>1 DEF Now, Dead, Taken
  <2>2. CASE Interrupt \/ Fetch \/ Vanish \/ UNCHANGED vars
    <3>1. dpc' = dpc /\ resp' = resp /\ (gone => gone')
      BY <2>2 DEF Interrupt, Fetch, Vanish, vars, dpcVars, hwVars
    <3> QED
      BY <3>1 DEF Now, Dead, Verb
  <2> QED
    BY <2>1, <2>2
<1>4. (\A d \in Calls : Still(d)) /\ (\A a \in Codecs : SameCodec(a))
  BY <1>1, <1>2, <1>3 DEF Still, SameCodec
<1> QED
  BY <1>4, NoneMoves

\* Every transfer is the only verb of its call.
LEMMA OneTransfer ==
  ASSUME OneVerb, NEW t \in Transfers
  PROVE t[1] \in Calls /\ t = Verb(t[1]) /\ CodecOf[t[1]] \in Codecs
<1>1. t[1] \in Calls /\ t[2] \in 1 .. Count[t[1]] /\ t = <<t[1], t[2]>>
  BY TransferParts
<1> QED
  BY <1>1, CodecKnown DEF OneVerb, Verb

LEMMA VerbsDiffer == \A c, d \in Calls : Verb(c) = Verb(d) => c = d
BY DEF Verb

\* The DPC takes a response that a call is waiting for.
LEMMA OneTest ==
  ASSUME BaseInv, OneVerbInv, OneVerb, FlushTest
  PROVE OneVerbInv'
<1>1. /\ resp' \in Transfers /\ resp' \in Ahead /\ lost' = lost
      /\ Ahead' \subseteq Ahead /\ Ahead \subseteq Ahead' \cup {resp'}
  BY AheadTaken DEF Ahead
<1>2. PICK c \in Calls : c = resp'[1] /\ resp' = Verb(c) /\ CodecOf[c] \in Codecs
  BY <1>1, OneTransfer
<1>3. /\ dpc = "test" /\ UNCHANGED <<pc, slot, got, status, input, cmds, event, xfer, gone>>
      /\ dpc' = IF cmds[CodecOf[c]] # 0 THEN "credit"
                ELSE IF left' = 0 THEN "idle" ELSE "test"
  BY <1>2 DEF FlushTest, callVars
<1>4. Verb(c) \notin lost
  BY <1>1, <1>2, LostApart
<1>5. ~Dead
  BY <1>3 DEF Dead
<1>6. Outstanding(c)
  BY <1>1, <1>2, <1>4, <1>5 DEF OneVerbInv, Phase, Unsent, Credited, Woken, GivenUp, Answered, Over
<1>7. dpc' = "credit"
  BY <1>3, <1>6 DEF Outstanding
<1>8. Now(c)'
  BY <1>2, <1>7 DEF Now, Taken, Verb
<1>9. Outstanding(c)'
  BY <1>3, <1>6, <1>7, <1>8 DEF Outstanding, Verb
<1>10. \A d \in Calls \ {c} : Verb(d) # resp' /\ ~Now(d) /\ ~Now(d)'
  BY <1>2, <1>3, VerbsDiffer DEF Now, Taken, Verb
<1>11. Others(c)
  BY <1>1, <1>3, <1>5, <1>10 DEF Others, Still, SameCodec
<1>12. ~Idle(c) /\ ~Idle(c)' /\ Phase(c)'
  BY <1>3, <1>6, <1>9 DEF Idle, Outstanding, Phase
<1> QED
  BY <1>2, <1>11, <1>12, Turn, OneMoves DEF OneVerbInv

\* The call whose response the DPC is dealing with.
LEMMA OneServed ==
  ASSUME BaseInv, OneVerbInv, OneVerb, dpc \in Taken
  PROVE /\ resp[1] \in Calls /\ resp = Verb(resp[1]) /\ RespCodec = CodecOf[resp[1]]
        /\ RespCodec \in Codecs /\ Now(resp[1]) /\ ~Idle(resp[1]) /\ Alone(resp[1])
        /\ dpc = "credit" => Outstanding(resp[1])
        /\ dpc # "credit" => Credited(resp[1])
        /\ \A d \in Calls \ {resp[1]} : ~Now(d)
<1> DEFINE c == resp[1]
<1>1. resp \in Transfers
  BY DEF BaseInv, DpcInv
<1>2. c \in Calls /\ resp = Verb(c) /\ CodecOf[c] \in Codecs
  BY <1>1, OneTransfer
<1>3. RespCodec = CodecOf[c]
  BY DEF RespCodec
<1> HIDE DEF c
<1>4. Now(c)
  BY <1>2 DEF Now
<1>5. Outstanding(c) \/ Credited(c)
  BY <1>2, <1>4 DEF OneVerbInv, Phase, Unsent, Woken, GivenUp, Answered, Over
<1>6. ~Idle(c)
  BY <1>5 DEF Outstanding, Credited, Idle
<1>7. Alone(c)
  BY <1>2, <1>6, Turn DEF OneVerbInv
<1>8. \A d \in Calls \ {c} : ~Now(d)
  BY <1>2, VerbsDiffer DEF Now
<1>9. (dpc = "credit" => Outstanding(c)) /\ (dpc # "credit" => Credited(c))
  BY <1>4, <1>5 DEF Outstanding, Credited
<1> QED
  BY <1>2, <1>3, <1>4, <1>6, <1>7, <1>8, <1>9 DEF c

\* A step for c that moves no verb and ends no other's turn.
LEMMA ServedOthers ==
  ASSUME NEW c \in Calls, dpc # "idle", \A d \in Calls \ {c} : ~Now(d) /\ ~Now(d)',
         UNCHANGED <<slot, got, status, rirb, fetched, posted, lost, gone>>,
         \A d \in Calls \ {c} : pc'[d] = pc[d] /\ input'[Verb(d)] = input[Verb(d)],
         \A a \in Codecs \ {CodecOf[c]} : SameCodec(a)
  PROVE Others(c) /\ Ahead' = Ahead
<1>1. Ahead' = Ahead
  BY AheadStill
<1>2. ~Dead
  BY DEF Dead
<1> QED
  BY <1>1, <1>2 DEF Others, Still

\* It is dealt with until the event is set.
LEMMA OneFlush ==
  ASSUME BaseInv, OneVerbInv, OneVerb,
         FlushCredit \/ FlushShift \/ FlushDecrement \/ FlushSetEvent
  PROVE OneVerbInv'
<1>1. dpc \in Taken
  BY DEF FlushCredit, FlushShift, FlushDecrement, FlushSetEvent, Taken
<1>2. PICK c \in Calls :
      /\ resp = Verb(c) /\ RespCodec = CodecOf[c] /\ CodecOf[c] \in Codecs
      /\ Now(c) /\ ~Idle(c) /\ Alone(c)
      /\ dpc = "credit" => Outstanding(c)
      /\ dpc # "credit" => Credited(c)
      /\ \A d \in Calls \ {c} : ~Now(d)
  BY <1>1, OneServed
<1> DEFINE a == CodecOf[c]
<1>3. /\ UNCHANGED <<resp, slot, got, status, rirb, fetched, posted, lost, gone>>
  BY DEF FlushCredit, FlushShift, FlushDecrement, FlushSetEvent, callVars, hwVars
<1>4. \A d \in Calls \ {c} : ~Now(d)'
  BY <1>2, <1>3, VerbsDiffer DEF Now, Verb
<1>5. Verb(c) \notin Ahead \cup lost
  BY <1>2, NowApart
<1>6. dpc # "idle"
  BY <1>1 DEF Taken
<1>7. Verb(c) # NULL /\ \A d \in Calls : Verb(d) \in Transfers
  BY <1>2, VerbMade, CallAssumption
<1>8. CASE FlushCredit
  <2>1. /\ dpc = "credit" /\ dpc' = "shift" /\ UNCHANGED <<pc, cmds, event, xfer>>
        /\ input' = IF xfer[RespCodec][0] = NULL THEN input
                    ELSE [input EXCEPT ![xfer[RespCodec][0]] = resp]
    BY <1>8 DEF FlushCredit, callVars
  <2>2. Outstanding(c)
    BY <1>2, <2>1
  <2>3. xfer[RespCodec][0] = Verb(c)
    BY <1>2, <2>2 DEF Outstanding
  <2>4. input' = [input EXCEPT ![Verb(c)] = Verb(c)]
    BY <1>2, <1>7, <2>1, <2>3
  <2>5. input'[Verb(c)] = Verb(c) /\ \A d \in Calls \ {c} : input'[Verb(d)] = input[Verb(d)]
    BY <1>2, <1>7, <2>4, VerbsDiffer DEF BaseInv, TypeOK
  <2>6. Others(c) /\ Ahead' = Ahead
    BY <1>2, <1>3, <1>4, <1>6, <2>1, <2>5, ServedOthers DEF SameCodec
  <2>7. Now(c)'
    BY <1>2, <1>3, <2>1 DEF Now, Verb, Taken
  <2>8. Credited(c)'
    BY <1>3, <1>5, <2>1, <2>2, <2>5, <2>6, <2>7 DEF Credited, Outstanding, Verb
  <2> QED
    BY <1>2, <2>1, <2>6, <2>8, OneMoves DEF Phase, Idle
<1>9. CASE FlushShift
  <2>1. /\ dpc = "shift" /\ dpc' = "decrement" /\ UNCHANGED <<pc, input, cmds, event>>
        /\ \A b \in Codecs \ {a} : xfer'[b] = xfer[b]
    BY <1>2, <1>9 DEF FlushShift, callVars, BaseInv, TypeOK
  <2>2. Credited(c)
    BY <1>2, <2>1
  <2>3. Others(c) /\ Ahead' = Ahead
    BY <1>2, <1>3, <1>4, <1>6, <2>1, ServedOthers DEF SameCodec
  <2>4. Now(c)'
    BY <1>2, <1>3, <2>1 DEF Now, Verb, Taken
  <2>5. Credited(c)'
    BY <1>3, <1>5, <2>1, <2>2, <2>3, <2>4 DEF Credited, Verb
  <2> QED
    BY <1>2, <2>1, <2>3, <2>5, OneMoves DEF Phase, Idle
<1>10. CASE FlushDecrement
  <2>1. /\ dpc = "decrement" /\ UNCHANGED <<pc, input, xfer, event>>
        /\ cmds' = [cmds EXCEPT ![a] = cmds[a] - 1]
        /\ cmds'[a] = 0 => dpc' = "event"
    BY <1>2, <1>10 DEF FlushDecrement, callVars
  <2>2. Credited(c)
    BY <1>2, <2>1
  <2>3. cmds'[a] = 0 /\ dpc' = "event" /\ \A b \in Codecs \ {a} : cmds'[b] = cmds[b]
    BY <1>2, <2>1, <2>2 DEF Credited, BaseInv, TypeOK
  <2>4. Others(c) /\ Ahead' = Ahead
    BY <1>2, <1>3, <1>4, <1>6, <2>1, <2>3, ServedOthers DEF SameCodec
  <2>5. Now(c)'
    BY <1>2, <1>3, <2>3 DEF Now, Verb, Taken
  <2>6. Credited(c)'
    BY <1>3, <1>5, <2>1, <2>2, <2>3, <2>4, <2>5 DEF Credited, Verb
  <2> QED
    BY <1>2, <2>1, <2>4, <2>6, OneMoves DEF Phase, Idle
<1>11. CASE FlushSetEvent
  <2>1. /\ dpc = "event" /\ dpc' \in {"idle", "test"} /\ UNCHANGED <<input, xfer, cmds>>
        /\ event' = [event EXCEPT ![a] = TRUE]
        /\ pc' = [d \in Calls |-> IF pc[d] = "waiting" /\ CodecOf[d] = a THEN "clear" ELSE pc[d]]
    BY <1>2, <1>11 DEF FlushSetEvent, FlushNext
  <2>2. Credited(c)
    BY <1>2, <2>1
  <2>3. pc'[c] \in {"wait", "clear"}
    BY <1>2, <2>1, <2>2 DEF Credited
  <2>4. \A d \in Calls \ {c} : pc'[d] = pc[d]
    BY <1>2, <2>1 DEF Alone, Idle
  <2>5. event'[a] /\ \A b \in Codecs \ {a} : event'[b] = event[b]
    BY <1>2, <2>1 DEF BaseInv, TypeOK
  <2>6. Others(c) /\ Ahead' = Ahead
    BY <1>2, <1>3, <1>4, <1>6, <2>1, <2>4, <2>5, ServedOthers DEF SameCodec
  <2>7. ~Now(c)'
    BY <2>1 DEF Now, Taken
  <2>8. Woken(c)'
    BY <1>3, <1>5, <2>1, <2>2, <2>3, <2>5, <2>6, <2>7 DEF Credited, Woken, Verb
  <2> QED
    BY <1>2, <2>3, <2>6, <2>8, OneMoves DEF Phase, Idle
<1> QED
  BY <1>8, <1>9, <1>10, <1>11
-----------------------------------------------------------------------------
LEMMA OneInit == Init => OneVerbInv
<1> SUFFICES ASSUME Init PROVE OneVerbInv
  OBVIOUS
<1>1. /\ \A c \in Calls : pc[c] = "idle" /\ input[Verb(c)] = NULL
      /\ \A a \in Codecs : cmds[a] = 0 /\ ~event[a]
      /\ lost = {} /\ dpc = "idle" /\ rirb = <<>> /\ posted = <<>> /\ fetched = 0
  BY VerbMade DEF Init
<1>2. Ahead = {}
  <2>1. Len(rirb) = 0 /\ Len(posted) = 0
    BY <1>1, EmptySeq
  <2> QED
    BY <1>1, <2>1 DEF Ahead, InCorb, InRirb
<1>3. \A c \in Calls : Unsent(c)
  BY <1>1, <1>2 DEF Unsent, Now, Taken
<1>4. TurnInv /\ FreeInv
  BY <1>1 DEF TurnInv, FreeInv, Idle, Quiet
<1> QED
  BY <1>3, <1>4 DEF OneVerbInv, Phase

LEMMA OneKept ==
  ASSUME BaseInv, OneVerbInv, OneVerb, [Next]_vars
  PROVE OneVerbInv'
BY Steps, OneBegin, OneSend, OnePost, OneWait, OneTake, OneEnd, OneHardware, OneTest, OneFlush

LEMMA OneHolds == ASSUME OneVerb PROVE Spec => []OneVerbInv
<1>1. BaseInv /\ OneVerbInv /\ [Next]_vars => OneVerbInv'
  BY OneKept
<1> QED
  BY <1>1, BaseHolds, OneInit, PTL DEF Spec

\* A single verb that is reported to have succeeded has its own answer.
THEOREM SuccessIsAnswered == OneVerb => (Spec => []SuccessMeansAnswered)
<1> SUFFICES ASSUME OneVerb PROVE Spec => []SuccessMeansAnswered
  OBVIOUS
<1>1. BaseInv /\ OneVerbInv => SuccessMeansAnswered
  <2> SUFFICES ASSUME BaseInv, OneVerbInv, NEW c \in Calls, status[c] = "STATUS_SUCCESS",
                      NEW k \in 1 .. Count[c]
               PROVE  input[<<c, k>>] = <<c, k>>
    BY DEF SuccessMeansAnswered
  <2>1. pc[c] \in {"out", "returned"}
    BY DEF BaseInv, AtInv
  <2>2. Over(c)
    BY <2>1 DEF OneVerbInv, Phase, Unsent, Outstanding, Credited, Woken, GivenUp, Answered
  <2>3. k = 1
    BY DEF OneVerb
  <2> QED
    BY <2>2, <2>3 DEF Over, Verb
<1> QED
  BY <1>1, BaseHolds, OneHolds, PTL

\* A single verb is reported to have timed out only when its answer was lost
\* or the controller is gone.
THEOREM TimeoutIsLoss == OneVerb => (Spec => []TimeoutMeansLost)
<1> SUFFICES ASSUME OneVerb PROVE Spec => []TimeoutMeansLost
  OBVIOUS
<1>1. BaseInv /\ OneVerbInv => TimeoutMeansLost
  <2> SUFFICES ASSUME BaseInv, OneVerbInv, NEW c \in Calls, status[c] = "STATUS_IO_TIMEOUT"
               PROVE  gone \/ \E k \in 1 .. Count[c] : <<c, k>> \in lost
    BY DEF TimeoutMeansLost
  <2>1. pc[c] \in {"out", "returned"}
    BY DEF BaseInv, AtInv
  <2>2. Over(c)
    BY <2>1 DEF OneVerbInv, Phase, Unsent, Outstanding, Credited, Woken, GivenUp, Answered
  <2>3. 1 \in 1 .. Count[c]
    BY DEF OneVerb
  <2> QED
    BY <2>2, <2>3 DEF Over, Verb
<1> QED
  BY <1>1, BaseHolds, OneHolds, PTL

\* The DPC writes into no transfer that was given back, and the index that
\* SendHDACmds stores a transfer at is one of the array's.
THEOREM QueueIsSound == OneVerb => (Spec => []QueueSound)
<1> SUFFICES ASSUME OneVerb PROVE Spec => []QueueSound
  OBVIOUS
<1>1. ASSUME BaseInv, OneVerbInv PROVE NoWriteAfterReturn
  <2> SUFFICES ASSUME dpc = "credit", xfer[RespCodec][0] # NULL
               PROVE  pc[xfer[RespCodec][0][1]] # "returned"
    BY DEF NoWriteAfterReturn
  <2>1. dpc \in Taken
    BY DEF Taken
  <2>2. /\ resp[1] \in Calls /\ RespCodec = CodecOf[resp[1]] /\ Outstanding(resp[1])
    BY <1>1, <2>1, OneServed
  <2>3. xfer[RespCodec][0] = Verb(resp[1]) /\ pc[resp[1]] # "returned"
    BY <2>2 DEF Outstanding
  <2> QED
    BY <2>3 DEF Verb
<1>2. ASSUME OneVerbInv PROVE SlotInArray
  <2> SUFFICES ASSUME NEW c \in Calls, pc[c] = "post" PROVE slot[c] - 1 \in Slots
    BY DEF SlotInArray
  <2>1. Unsent(c)
    BY <1>2 DEF OneVerbInv, Phase, Outstanding, Credited, Woken, GivenUp, Answered, Over
  <2> QED
    BY <2>1, CallAssumption DEF Unsent, Slots
<1>3. BaseInv /\ OneVerbInv => QueueSound
  BY <1>1, <1>2 DEF QueueSound
<1> QED
  BY <1>3, BaseHolds, OneHolds, PTL

\* No set event is left over for the next call on the codec, and no call
\* sleeps on with its answer in.
THEOREM EventIsExact == OneVerb => (Spec => []EventExact)
<1> SUFFICES ASSUME OneVerb PROVE Spec => []EventExact
  OBVIOUS
<1>1. ASSUME OneVerbInv PROVE NoStaleEvent
  <2> SUFFICES ASSUME NEW a \in Codecs, event[a]
               PROVE  \E c \in Calls : CodecOf[c] = a
                        /\ pc[c] \in {"check", "reserve", "post", "wait", "waiting", "clear"}
    BY DEF NoStaleEvent
  <2>1. PICK c \in Calls : CodecOf[c] = a /\ ~Idle(c)
    BY <1>1 DEF OneVerbInv, FreeInv, Quiet
  <2>2. Woken(c)
    BY <1>1, <2>1 DEF OneVerbInv, Phase, Unsent, Outstanding, Credited, GivenUp, Answered, Over,
                      Quiet, Idle
  <2> QED
    BY <2>1, <2>2 DEF Woken
<1>2. ASSUME BaseInv, OneVerbInv PROVE NoMissedEvent
  <2> SUFFICES ASSUME NEW c \in Calls, pc[c] = "waiting",
                      \A k \in 1 .. Count[c] : input[<<c, k>>] # NULL
               PROVE  dpc \in {"shift", "decrement", "event"} /\ RespCodec = CodecOf[c]
    BY DEF NoMissedEvent
  <2>1. input[Verb(c)] # NULL
    BY DEF OneVerb, Verb
  <2>2. Credited(c)
    BY <1>2, <2>1 DEF OneVerbInv, Phase, Unsent, Outstanding, Woken, GivenUp, Answered, Over
  <2> QED
    BY <2>2 DEF Credited, Now, Taken, RespCodec, Verb
<1>3. BaseInv /\ OneVerbInv => EventExact
  BY <1>1, <1>2 DEF EventExact
<1> QED
  BY <1>3, BaseHolds, OneHolds, PTL

\* A response goes into the transfer of the command it answers.
THEOREM OneAnswerMatches == OneVerb => (Spec => []AnswersMatch)
<1> SUFFICES ASSUME OneVerb PROVE Spec => []AnswersMatch
  OBVIOUS
<1>1. OneVerbInv => AnswersMatch
  <2> SUFFICES ASSUME OneVerbInv, NEW t \in Transfers, input[t] # NULL PROVE input[t] = t
    BY DEF AnswersMatch
  <2>1. t[1] \in Calls /\ t = Verb(t[1])
    BY OneTransfer
  <2> QED
    BY <2>1 DEF OneVerbInv, Phase, Unsent, Outstanding, Credited, Woken, GivenUp, Answered, Over
<1> QED
  BY <1>1, OneHolds, PTL
-----------------------------------------------------------------------------
(* Batches, one call at a time on a codec, as long as the codecs answer     *)
(* every verb, the controller stays, the DPC does not run beside a sender   *)
(* and no batch is refused for want of room when some of it is posted.      *)

OneProcessor ==
    /\ Serialised /\ ~LateAnswers /\ ~Smp /\ ~Losses /\ ~Vanishes
    /\ \A c \in Calls : Count[c] <= Entries

\* A batch that finds the CORB full finds it so before its first verb.
NoneSplit == \A c \in Calls : status[c] = "STATUS_RETRY" => at[c] = 0

\* The responses stand in the RIRB in the order of their commands.
FifoInv ==
    /\ ~gone /\ lost = {} /\ Len(rirb) <= fetched
    /\ \A i \in 1 .. Len(rirb) : rirb[i] = posted[fetched - Len(rirb) + i]

\* The DPC is dealing with a response to c.
Serving(c) == dpc \in Taken /\ resp[1] = c
\* Verbs of c that are no longer counted.
Settled(c) == Count[c] - cmds[CodecOf[c]]

Composing(c) ==
    /\ pc[c] \in {"idle", "lock", "check", "reserve", "post"} /\ ~Serving(c)
    /\ \A k \in 1 .. Count[c] : /\ <<c, k>> \in Ahead <=> k <= at[c]
                                /\ input[<<c, k>>] = NULL
    /\ pc[c] # "idle" =>
          /\ \A k \in 1 .. at[c] : xfer[CodecOf[c]][k - 1] = <<c, k>>
          /\ cmds[CodecOf[c]] = (IF pc[c] = "post" THEN at[c] + 1 ELSE at[c])
          /\ ~event[CodecOf[c]]
    /\ pc[c] = "post" => slot[c] = at[c] + 1

\* The DPC took, credited and shifted away so many verbs of c, in order.
Progress(c, taken, credited, shifted) ==
    /\ \A k \in 1 .. Count[c] :
          /\ <<c, k>> \in Ahead <=> k > taken
          /\ input[<<c, k>>] = IF k <= credited THEN <<c, k>> ELSE NULL
    /\ \A k \in 1 .. Count[c] :
          k > shifted => xfer[CodecOf[c]][k - shifted - 1] = <<c, k>>

Waiting(c) ==
    /\ pc[c] \in {"wait", "waiting"} /\ ~event[CodecOf[c]]
    /\ cmds[CodecOf[c]] \in 0 .. Count[c]
    /\ LET m == Settled(c)
       IN  \/ ~Serving(c) /\ m < Count[c] /\ Progress(c, m, m, m)
           \/ /\ Serving(c) /\ dpc # "event" /\ m < Count[c] /\ resp = <<c, m + 1>>
              /\ \/ dpc = "credit" /\ Progress(c, m + 1, m, m)
                 \/ dpc = "shift" /\ Progress(c, m + 1, m + 1, m)
                 \/ dpc = "decrement" /\ Progress(c, m + 1, m + 1, m + 1)
           \/ Serving(c) /\ dpc = "event" /\ m = Count[c] /\ Progress(c, m, m, m)

Done(c) ==
    /\ pc[c] \in {"wait", "clear", "count", "out", "returned"} /\ ~Serving(c)
    /\ \A k \in 1 .. Count[c] : <<c, k>> \notin Ahead /\ input[<<c, k>>] = <<c, k>>
    /\ pc[c] # "returned" => /\ cmds[CodecOf[c]] = 0
                             /\ event[CodecOf[c]] <=> pc[c] \in {"wait", "clear"}
    /\ pc[c] \in {"out", "returned"} => status[c] = "STATUS_SUCCESS"

TurnedAway(c) ==
    /\ pc[c] \in {"out", "returned"} /\ status[c] = "STATUS_RETRY" /\ ~Serving(c)
    /\ \A k \in 1 .. Count[c] : <<c, k>> \notin Ahead /\ input[<<c, k>>] = NULL
    /\ pc[c] = "out" => Quiet(CodecOf[c])

Stage(c) == Composing(c) \/ Waiting(c) \/ Done(c) \/ TurnedAway(c)

BatchInv == TurnInv /\ FreeInv /\ \A c \in Calls : Stage(c)

\* The order of the responses.
LEMMA FifoInit == Init => FifoInv
<1> SUFFICES ASSUME Init PROVE FifoInv
  OBVIOUS
<1>1. ~gone /\ lost = {} /\ fetched = 0 /\ rirb = <<>>
  BY DEF Init
<1>2. Len(rirb) = 0
  BY <1>1, EmptySeq
<1> QED
  BY <1>1, <1>2 DEF FifoInv

LEMMA FifoKept ==
  ASSUME BaseInv, FifoInv, OneProcessor, [Next]_vars
  PROVE FifoInv'
<1>0. /\ Len(rirb) \in Nat /\ fetched \in Nat /\ Len(posted) \in Nat /\ fetched <= Len(posted)
      /\ Len(rirb) <= fetched
  BY LenProperties DEF BaseInv, TypeOK, PostedInv, FifoInv
<1>1. CASE Fetch
  <2> DEFINE e == corb[CORBRP']
  <2>1. e = posted[fetched + 1] /\ fetched' = fetched + 1 /\ e \in Transfers
    BY <1>1, FetchedNew DEF BaseInv
  <2>2. rirb' = Append(rirb, e) /\ UNCHANGED <<lost, gone, posted>>
    BY <1>1 DEF Fetch, OneProcessor
  <2> HIDE DEF e
  <2>3. /\ \A i \in 1 .. Len(rirb) : rirb'[i] = rirb[i]
        /\ rirb'[Len(rirb) + 1] = e /\ Len(rirb') = Len(rirb) + 1
    BY <2>1, <2>2, RirbAppended DEF BaseInv
  <2>4. ASSUME NEW i \in 1 .. Len(rirb') PROVE rirb'[i] = posted[fetched - Len(rirb) + i]
    <3>1. CASE i \in 1 .. Len(rirb)
      BY <2>3, <3>1 DEF FifoInv
    <3>2. CASE i = Len(rirb) + 1
      <4>1. fetched - Len(rirb) + i = fetched + 1
        BY <1>0, <3>2
      <4> QED
        BY <2>1, <2>3, <3>2, <4>1
    <3> QED
      BY <1>0, <2>3, <3>1, <3>2
  <2>5. fetched' - Len(rirb') = fetched - Len(rirb) /\ Len(rirb') <= fetched'
    BY <1>0, <2>1, <2>3
  <2> QED
    BY <2>2, <2>4, <2>5 DEF FifoInv
<1>2. CASE FlushTest
  <2>1. Len(rirb) > 0
    BY <1>0, <1>2 DEF BaseInv, TypeOK, DpcInv, FlushTest
  <2>2. rirb' = Tail(rirb) /\ UNCHANGED <<lost, gone, posted, fetched>>
    BY <1>2 DEF FlushTest
  <2>3. Len(rirb') = Len(rirb) - 1 /\ \A i \in 1 .. Len(rirb) - 1 : rirb'[i] = rirb[i + 1]
    BY <2>1, <2>2, RirbTaken DEF BaseInv
  <2>4. ASSUME NEW i \in 1 .. Len(rirb') PROVE rirb'[i] = posted[fetched - Len(rirb') + i]
    <3> DEFINE j == i + 1
    <3>1. /\ j \in 1 .. Len(rirb) /\ fetched - Len(rirb) + j = fetched - Len(rirb') + i
          /\ rirb'[i] = rirb[j]
      BY <1>0, <2>3
    <3> HIDE DEF j
    <3>2. rirb[j] = posted[fetched - Len(rirb) + j]
      BY <3>1 DEF FifoInv
    <3> QED
      BY <3>1, <3>2
  <2>5. Len(rirb') <= fetched'
    BY <1>0, <2>2, <2>3
  <2>6. ~gone' /\ lost' = {}
    BY <2>2 DEF FifoInv
  <2> QED
    BY <2>2, <2>4, <2>5, <2>6 DEF FifoInv
<1>3. ASSUME NEW c \in Calls, PostVerb(c) PROVE FifoInv'
  <2>1. UNCHANGED <<lost, gone, rirb, fetched>>
    BY <1>3 DEF PostVerb
  <2>2. \A i \in 1 .. Len(posted) : posted'[i] = posted[i]
    BY <1>3, Posting DEF BaseInv
  <2>3. \A i \in 1 .. Len(rirb) : fetched - Len(rirb) + i \in 1 .. Len(posted)
    BY <1>0
  <2> QED
    BY <2>1, <2>2, <2>3 DEF FifoInv
<1>4. CASE ~Dpc /\ ~Fetch /\ \A c \in Calls : ~PostVerb(c)
  <2>1. UNCHANGED <<rirb, lost, fetched, posted>>
    BY <1>4, DpcStill, CorbStill
  <2>2. gone' = gone
    BY <1>4, Steps DEF Dpc, Begin, AcquireLock, Check, Reserve, Wait, Timeout, ClearEvent,
          CountValid, Settle, Return, Interrupt, Vanish, vars, hwVars, OneProcessor
  <2> QED
    BY <2>1, <2>2 DEF FifoInv
<1>5. CASE FlushReadWp \/ FlushCredit \/ FlushShift \/ FlushDecrement \/ FlushSetEvent
  <2>1. UNCHANGED <<rirb, lost, gone, fetched, posted>>
    BY <1>5 DEF FlushReadWp, FlushCredit, FlushShift, FlushDecrement, FlushSetEvent, hwVars
  <2> QED
    BY <2>1 DEF FifoInv
<1> QED
  BY <1>1, <1>2, <1>3, <1>4, <1>5 DEF Dpc

LEMMA FifoHolds == ASSUME OneProcessor PROVE Spec => []FifoInv
<1>1. BaseInv /\ FifoInv /\ [Next]_vars => FifoInv'
  BY FifoKept
<1> QED
  BY <1>1, BaseHolds, FifoInit, PTL DEF Spec

\* Ahead of the DPC is what was posted last, ...
LEMMA AheadPositions ==
  ASSUME TypeOK, PostedInv, FifoInv
  PROVE Ahead = {posted[i] : i \in fetched - Len(rirb) + 1 .. Len(posted)}
<1> DEFINE n == Len(rirb)
<1>1. /\ n \in Nat /\ fetched \in Nat /\ Len(posted) \in Nat /\ fetched <= Len(posted)
      /\ n <= fetched /\ \A i \in 1 .. n : rirb[i] = posted[fetched - n + i]
  BY LenProperties DEF TypeOK, PostedInv, FifoInv
<1>2. InRirb = {rirb[i] : i \in 1 .. n}
  BY DEF InRirb
<1> HIDE DEF n
<1>3. ASSUME NEW j \in fetched - n + 1 .. Len(posted) PROVE posted[j] \in InCorb \cup InRirb
  <2>1. CASE j > fetched
    BY <1>1, <2>1 DEF InCorb
  <2>2. CASE j <= fetched
    <3>1. j - (fetched - n) \in 1 .. n /\ fetched - n + (j - (fetched - n)) = j
      BY <1>1, <2>2
    <3> QED
      BY <1>1, <1>2, <3>1
  <2> QED
    BY <1>1, <2>1, <2>2
<1>4. InCorb \subseteq {posted[i] : i \in fetched - n + 1 .. Len(posted)}
  <2>1. fetched + 1 .. Len(posted) \subseteq fetched - n + 1 .. Len(posted)
    BY <1>1
  <2> QED
    BY <2>1 DEF InCorb
<1>5. InRirb \subseteq {posted[i] : i \in fetched - n + 1 .. Len(posted)}
  <2>1. \A i \in 1 .. n : fetched - n + i \in fetched - n + 1 .. Len(posted)
    BY <1>1
  <2> QED
    BY <1>1, <1>2, <2>1
<1> QED
  BY <1>3, <1>4, <1>5 DEF Ahead, n

\* ... of which the DPC takes the first, no verb of its call is before it.
LEMMA FirstTaken ==
  ASSUME BaseInv, FifoInv, FlushTest
  PROVE /\ resp' \in Ahead /\ resp' \in Transfers /\ Ahead' = Ahead \ {resp'}
        /\ \A t \in Ahead : t[1] = resp'[1] => resp'[2] <= t[2]
<1>1. Len(rirb) > 0
  BY LenProperties DEF BaseInv, TypeOK, DpcInv, FlushTest
<1>2. /\ resp' = Head(rirb) /\ rirb' = Tail(rirb) /\ fetched' = fetched /\ posted' = posted
  BY DEF FlushTest
<1>3. /\ Head(rirb) \in InRirb /\ InRirb' = InRirb \ {Head(rirb)} /\ Head(rirb) = rirb[1]
      /\ Len(rirb) \in Nat
  BY <1>1, <1>2, RirbTaken DEF BaseInv
<1>4. InCorb' = InCorb
  BY <1>2 DEF InCorb
<1>5. resp' \in Transfers
  BY <1>1, <1>2, HeadTaken DEF BaseInv, TypeOK
<1>6. Head(rirb) \notin InCorb
  BY <1>3, FetchedApart DEF BaseInv, PlaceInv
<1> DEFINE n == fetched - Len(rirb)
<1>7. /\ resp' = posted[n + 1] /\ n \in Nat /\ Len(posted) \in Nat /\ n + 1 <= Len(posted)
  <2>1. 1 \in 1 .. Len(rirb) /\ fetched \in Nat /\ fetched <= Len(posted) /\ Len(rirb) <= fetched
        /\ Len(posted) \in Nat
    BY <1>1, <1>3, LenProperties DEF BaseInv, TypeOK, PostedInv, FifoInv
  <2> QED
    BY <1>1, <1>2, <1>3, <2>1 DEF FifoInv
<1>8. Ahead = {posted[i] : i \in n + 1 .. Len(posted)}
  BY AheadPositions DEF BaseInv
<1> HIDE DEF n
<1>9. ASSUME NEW t \in Ahead, t[1] = resp'[1] PROVE resp'[2] <= t[2]
  <2>1. PICK i \in n + 1 .. Len(posted) : t = posted[i]
    BY <1>8
  <2>2. i \in 1 .. Len(posted) /\ n + 1 \in 1 .. Len(posted)
    BY <1>7
  <2>3. t \in Transfers
    BY <2>1, <2>2, ElementOfSeq DEF BaseInv, TypeOK
  <2>4. t[2] \in Int /\ resp'[2] \in Int
    <3>1. t[2] \in 1 .. Count[t[1]] /\ resp'[2] \in 1 .. Count[resp'[1]]
      BY <1>5, <2>3, TransferParts
    <3> QED
      BY <3>1
  <2>5. CASE i = n + 1
    BY <1>7, <2>1, <2>4, <2>5
  <2>6. CASE n + 1 < i
    <3>1. posted[n + 1][2] < posted[i][2]
      BY <1>7, <1>9, <2>1, <2>2, <2>6 DEF BaseInv, PostedInv
    <3> QED
      BY <1>7, <2>1, <2>4, <3>1
  <2> QED
    BY <1>7, <2>5, <2>6
<1> QED
  BY <1>2, <1>3, <1>4, <1>5, <1>6, <1>9 DEF Ahead
-----------------------------------------------------------------------------
(* What leaves the other batches where they are. *)

BatchStill(d) ==
    /\ pc'[d] = pc[d] /\ at'[d] = at[d] /\ slot'[d] = slot[d] /\ status'[d] = status[d]
    /\ \A k \in 1 .. Count[d] : /\ input'[<<d, k>>] = input[<<d, k>>]
                                /\ <<d, k>> \in Ahead' <=> <<d, k>> \in Ahead
    /\ Serving(d)' <=> Serving(d)
    /\ Serving(d) => dpc' = dpc /\ resp' = resp

LEMMA StageStill ==
  ASSUME NEW d \in Calls, Stage(d), BatchStill(d), SameCodec(CodecOf[d]) \/ Idle(d), AtInv
  PROVE Stage(d)'
<1>0. at[d] \in 0 .. Count[d] /\ Count[d] \in Nat
  BY CallAssumption DEF AtInv
<1>1. CASE Composing(d)
  <2>1. Composing(d)'
    BY <1>0, <1>1 DEF Composing, BatchStill, SameCodec, Idle
  <2> QED
    BY <2>1 DEF Stage
<1>2. CASE Waiting(d)
  <2>1. SameCodec(CodecOf[d])
    BY <1>2 DEF Waiting, Idle
  <2>2. Settled(d)' = Settled(d)
    BY <2>1 DEF Settled, SameCodec
  <2> DEFINE m == Settled(d)
  <2>3. \A t, u, v : Progress(d, t, u, v) => Progress(d, t, u, v)'
    BY <2>1 DEF Progress, BatchStill, SameCodec
  <2>4. Waiting(d)'
    BY <1>2, <2>1, <2>2, <2>3 DEF Waiting, BatchStill, SameCodec
  <2> QED
    BY <2>4 DEF Stage
<1>3. CASE Done(d)
  <2>1. Done(d)'
    BY <1>3 DEF Done, BatchStill, SameCodec, Idle
  <2> QED
    BY <2>1 DEF Stage
<1>4. CASE TurnedAway(d)
  <2>1. TurnedAway(d)'
    BY <1>4 DEF TurnedAway, BatchStill, SameCodec, Idle, Quiet
  <2> QED
    BY <2>1 DEF Stage
<1> QED
  BY <1>1, <1>2, <1>3, <1>4 DEF Stage

BatchOthers(c) ==
    /\ \A d \in Calls \ {c} : BatchStill(d)
    /\ \A a \in Codecs \ {CodecOf[c]} : SameCodec(a)

LEMMA BatchMoves ==
  ASSUME AtInv, BatchInv, NEW c \in Calls, Alone(c), BatchOthers(c),
         Stage(c)', Idle(c)' => Quiet(CodecOf[c])'
  PROVE BatchInv'
<1>1. \A d \in Calls \ {c} : pc'[d] = pc[d] /\ (Idle(d)' <=> Idle(d))
  BY DEF BatchOthers, BatchStill, Idle
<1>2. ASSUME NEW d \in Calls PROVE Stage(d)'
  <2>1. CASE d = c
    BY <2>1
  <2>2. CASE d # c
    <3>1. Stage(d) /\ BatchStill(d) /\ (SameCodec(CodecOf[d]) \/ Idle(d))
      BY <2>2, CodecKnown DEF BatchInv, BatchOthers, Alone
    <3> QED
      BY <3>1, StageStill
  <2> QED
    BY <2>1, <2>2
<1>3. TurnInv'
  BY <1>1 DEF BatchInv, TurnInv, Alone
<1>4. ASSUME NEW a \in Codecs, \A d \in Calls : CodecOf[d] = a => Idle(d)' PROVE Quiet(a)'
  <2>1. CASE a = CodecOf[c]
    BY <1>4, <2>1
  <2>2. CASE a # CodecOf[c]
    <3>1. SameCodec(a) /\ Quiet(a)
      BY <1>1, <1>4, <2>2 DEF BatchInv, FreeInv, BatchOthers
    <3> QED
      BY <3>1 DEF SameCodec, Quiet
  <2> QED
    BY <2>1, <2>2
<1>5. FreeInv'
  BY <1>4 DEF FreeInv
<1> QED
  BY <1>2, <1>3, <1>5 DEF BatchInv
-----------------------------------------------------------------------------
(* The callers' steps. *)

\* A step of c that moves no verb.
LEMMA BatchOwn ==
  ASSUME BaseInv, BatchInv, NEW c \in Calls, OwnCall(c),
         UNCHANGED <<rirb, fetched, posted, lost, dpc, resp, gone>>
  PROVE  BatchOthers(c) /\ Ahead' = Ahead /\ (Serving(c)' <=> Serving(c))
<1>1. Ahead' = Ahead
  BY AheadStill
<1>2. \A d \in Calls : Serving(d)' <=> Serving(d)
  BY DEF Serving
<1>3. ASSUME NEW d \in Calls \ {c}, NEW k \in 1 .. Count[d]
      PROVE  input'[<<d, k>>] = input[<<d, k>>]
  BY TransferMade DEF OwnCall
<1> QED
  BY <1>1, <1>2, <1>3 DEF BatchOthers, BatchStill, OwnCall

LEMMA BatchStep ==
  ASSUME BaseInv, BatchInv, NEW c \in Calls, ~Idle(c), OwnCall(c),
         UNCHANGED <<rirb, fetched, posted, lost, dpc, resp, gone>>,
         Stage(c)', Idle(c)' => Quiet(CodecOf[c])'
  PROVE BatchInv'
<1>1. BatchOthers(c) /\ Alone(c)
  BY BatchOwn, Turn DEF BatchInv
<1> QED
  BY <1>1, BatchMoves DEF BaseInv

LEMMA BatchBegin ==
  ASSUME BaseInv, BatchInv, OneProcessor, NEW c \in Calls, Begin(c)
  PROVE BatchInv'
<1>1. OwnCall(c) /\ UNCHANGED <<rirb, fetched, posted, lost, dpc, resp, gone>>
  BY CallerOwns DEF BaseInv
<1>2. BatchOthers(c) /\ Ahead' = Ahead /\ (Serving(c)' <=> Serving(c))
  BY <1>1, BatchOwn
<1>3. /\ pc[c] = "idle" /\ pc'[c] = "lock" /\ UNCHANGED <<at, input, cmds, event>>
      /\ \A d \in Calls : CodecOf[d] = CodecOf[c] => Idle(d)
  BY DEF Begin, Goto, OneProcessor, BaseInv, TypeOK
<1>4. Quiet(CodecOf[c])
  BY <1>3, CodecKnown DEF BatchInv, FreeInv
<1>5. Composing(c) /\ at[c] = 0
  BY <1>3 DEF BatchInv, Stage, Waiting, Done, TurnedAway, BaseInv, AtInv
<1>6. Composing(c)'
  BY <1>2, <1>3, <1>4, <1>5 DEF Composing, Quiet
<1>7. Stage(c)' /\ ~Idle(c)' /\ Alone(c)
  BY <1>3, <1>6 DEF Stage, Idle, Alone
<1> QED
  BY <1>2, <1>7, BatchMoves DEF BaseInv

\* Before a verb is posted.
LEMMA BatchSend ==
  ASSUME BaseInv, BatchInv, FifoInv, NEW c \in Calls, AcquireLock(c) \/ Check(c) \/ Reserve(c)
  PROVE NoneSplit' => BatchInv'
<1>1. OwnCall(c) /\ UNCHANGED <<rirb, fetched, posted, lost, dpc, resp, gone>>
  BY CallerOwns DEF BaseInv
<1>2. Ahead' = Ahead /\ (Serving(c)' <=> Serving(c))
  BY <1>1, BatchOwn
<1>3. pc[c] \in {"lock", "check", "reserve"} /\ ~Idle(c)
  BY DEF AcquireLock, Check, Reserve, Idle
<1>4. Composing(c) /\ at[c] \in 0 .. Count[c] /\ Count[c] \in Nat
  BY <1>3, CallAssumption DEF BatchInv, Stage, Waiting, Done, TurnedAway, BaseInv, AtInv
<1>5. at' = at /\ xfer' = xfer
  BY DEF AcquireLock, Check, Reserve
<1>6. CASE AcquireLock(c)
  <2>1. pc'[c] = "check" /\ UNCHANGED <<input, cmds, event>>
    BY <1>6 DEF AcquireLock, Goto, BaseInv, TypeOK
  <2>2. Composing(c)'
    BY <1>2, <1>3, <1>4, <1>5, <2>1 DEF Composing
  <2> QED
    BY <1>1, <1>3, <2>1, <2>2, BatchStep DEF Stage, Idle
<1>7. CASE Check(c)
  <2>1. UNCHANGED <<cmds, event>> /\ input' = [input EXCEPT ![Current(c)] = NULL]
    BY <1>7 DEF Check
  <2>2. \/ pc'[c] = "reserve"
        \/ pc'[c] = "out" /\ status'[c] = "STATUS_RETRY"
    BY <1>7 DEF Check, Goto, Finish, BaseInv, TypeOK, FifoInv
  <2>3. ASSUME NEW k \in 1 .. Count[c] PROVE input'[<<c, k>>] = NULL
    BY <1>4, <2>1, TransferMade DEF Composing, BaseInv, TypeOK
  <2>4. CASE pc'[c] = "reserve"
    <3>1. Composing(c)'
      BY <1>2, <1>3, <1>4, <1>5, <2>1, <2>3, <2>4 DEF Composing
    <3> QED
      BY <1>1, <1>3, <2>4, <3>1, BatchStep DEF Stage, Idle
  <2>5. CASE pc'[c] = "out" /\ status'[c] = "STATUS_RETRY" /\ at[c] = 0
    <3>1. Quiet(CodecOf[c])'
      BY <1>3, <1>4, <2>1, <2>5 DEF Composing, Quiet
    <3>2. \A k \in 1 .. Count[c] : <<c, k>> \notin Ahead'
      BY <1>2, <1>4, <2>5 DEF Composing
    <3>3. TurnedAway(c)'
      BY <1>2, <1>4, <2>3, <2>5, <3>1, <3>2 DEF TurnedAway, Composing
    <3> QED
      BY <1>1, <1>3, <2>5, <3>3, BatchStep DEF Stage, Idle
  <2> QED
    BY <1>5, <2>2, <2>4, <2>5 DEF NoneSplit
<1>8. CASE Reserve(c)
  <2>1. /\ pc[c] = "reserve" /\ pc'[c] = "post" /\ UNCHANGED <<input, event>>
        /\ cmds'[CodecOf[c]] = cmds[CodecOf[c]] + 1 /\ slot'[c] = cmds[CodecOf[c]] + 1
    BY <1>8, CodecKnown DEF Reserve, Goto, BaseInv, TypeOK
  <2>2. Composing(c)'
    BY <1>2, <1>4, <1>5, <2>1 DEF Composing
  <2> QED
    BY <1>1, <1>3, <2>1, <2>2, BatchStep DEF Stage, Idle
<1> QED
  BY <1>6, <1>7, <1>8

LEMMA BatchPost ==
  ASSUME BaseInv, BatchInv, OneProcessor, NEW c \in Calls, PostVerb(c)
  PROVE BatchInv'
<1> DEFINE a == CodecOf[c]
           i == at[c]
<1>1. /\ pc[c] = "post" /\ at[c] \in Nat /\ at[c] < Count[c] /\ Count[c] \in Nat
      /\ Count[c] <= Entries /\ Entries \in Nat /\ ~Idle(c) /\ CodecOf[c] \in Codecs
  BY CallAssumption, CodecKnown DEF BaseInv, AtInv, OneProcessor, PostVerb, Sending, Idle
<1>2. PICK n \in Nat : n = at[c]
  BY <1>1
<1>3. Current(c) = <<c, n + 1>> /\ Current(c) \in Transfers
  BY <1>1, <1>2, CurrentVerb DEF BaseInv, Sending, Current
<1>4. Composing(c)
  BY <1>1 DEF BatchInv, Stage, Waiting, Done, TurnedAway
<1>5. slot[c] = n + 1 /\ cmds[a] = n + 1 /\ ~event[a]
  BY <1>1, <1>2, <1>4 DEF Composing
<1>6. n \in Slots /\ n + 1 \in 1 .. Count[c]
  BY <1>1, <1>2 DEF Slots
<1>7. /\ UNCHANGED <<slot, status, input, cmds, event, dpc, resp>>
      /\ at' = [at EXCEPT ![c] = n + 1]
      /\ xfer' = [xfer EXCEPT ![a][n] = <<c, n + 1>>]
  <2>1. slot[c] - 1 = n
    BY <1>5
  <2> QED
    BY <1>2, <1>3, <1>6, <2>1 DEF PostVerb, dpcVars
<1>8. at'[c] = n + 1 /\ \A d \in Calls \ {c} : at'[d] = at[d]
  BY <1>7 DEF BaseInv, TypeOK
<1>9. /\ n + 1 = Count[c] => pc' = [pc EXCEPT ![c] = "wait"]
      /\ n + 1 # Count[c] => pc' = [pc EXCEPT ![c] = "check"]
  BY <1>8 DEF PostVerb, Goto
<1>10. /\ n + 1 = Count[c] => pc'[c] = "wait"
       /\ n + 1 # Count[c] => pc'[c] = "check"
       /\ \A d \in Calls \ {c} : pc'[d] = pc[d]
  BY <1>9 DEF BaseInv, TypeOK
<1>11. /\ xfer'[a][n] = <<c, n + 1>>
       /\ \A j \in Slots \ {n} : xfer'[a][j] = xfer[a][j]
       /\ \A b \in Codecs \ {a} : xfer'[b] = xfer[b]
  BY <1>1, <1>6, <1>7 DEF BaseInv, TypeOK
<1>12. Ahead' = Ahead \cup {<<c, n + 1>>}
  BY <1>3, AheadPosted
<1>13. BatchOthers(c)
  <2>1. \A d \in Calls \ {c} : \A k \in 1 .. Count[d] : <<d, k>> # <<c, n + 1>>
    OBVIOUS
  <2> QED
    BY <1>7, <1>8, <1>10, <1>11, <1>12, <2>1 DEF BatchOthers, BatchStill, SameCodec, Serving
<1>14. ASSUME NEW k \in 1 .. Count[c]
       PROVE  /\ <<c, k>> \in Ahead' <=> k <= n + 1
              /\ input'[<<c, k>>] = NULL
              /\ k <= n + 1 => xfer'[a][k - 1] = <<c, k>>
  <2>1. <<c, k>> \in Ahead <=> k <= n
    BY <1>2, <1>4 DEF Composing
  <2>2. <<c, k>> \in Ahead' <=> k <= n + 1
    BY <1>12, <2>1
  <2>3. CASE k <= n
    <3>1. k \in 1 .. at[c] /\ k - 1 \in Slots \ {n}
      BY <1>1, <1>2, <2>3 DEF Slots
    <3>2. xfer[a][k - 1] = <<c, k>>
      BY <1>1, <1>4, <3>1 DEF Composing
    <3> QED
      BY <1>4, <1>7, <1>11, <2>2, <3>1, <3>2 DEF Composing
  <2>4. CASE k = n + 1
    <3>1. k - 1 = n
      BY <2>4
    <3> QED
      BY <1>4, <1>7, <1>11, <2>2, <2>4, <3>1 DEF Composing
  <2>5. CASE k > n + 1
    BY <1>4, <1>7, <2>2, <2>5 DEF Composing
  <2> QED
    BY <2>3, <2>4, <2>5
<1>15. ~Serving(c)'
  BY <1>4, <1>7 DEF Composing, Serving
<1>16. CASE n + 1 # Count[c]
  <2>1. ASSUME NEW k \in 1 .. at'[c] PROVE xfer'[a][k - 1] = <<c, k>>
    <3>1. k \in 1 .. Count[c] /\ k <= n + 1
      BY <1>1, <1>6, <1>8
    <3> QED
      BY <1>14, <3>1
  <2>2. pc'[c] = "check" /\ cmds'[a] = at'[c] /\ ~event'[a]
    BY <1>5, <1>7, <1>8, <1>10, <1>16
  <2>3. \A k \in 1 .. Count[c] : /\ <<c, k>> \in Ahead' <=> k <= at'[c]
                                 /\ input'[<<c, k>>] = NULL
    BY <1>8, <1>14
  <2>4. Composing(c)'
    BY <1>15, <2>1, <2>2, <2>3 DEF Composing
  <2> QED
    BY <1>1, <1>10, <1>13, <1>16, <2>4, Turn, BatchMoves DEF BaseInv, BatchInv, Stage, Idle
<1>17. CASE n + 1 = Count[c]
  <2>0. cmds'[a] = Count[c]
    BY <1>5, <1>7, <1>17
  <2>1. Settled(c)' = 0 /\ cmds'[a] \in 0 .. Count[c] /\ 0 < Count[c]
    BY <1>1, <2>0 DEF Settled
  <2>2. ASSUME NEW k \in 1 .. Count[c]
        PROVE  /\ <<c, k>> \in Ahead' <=> k > 0
               /\ input'[<<c, k>>] = IF k <= 0 THEN <<c, k>> ELSE NULL
               /\ k > 0 => xfer'[a][k - 0 - 1] = <<c, k>>
    <3>1. k > 0 /\ ~(k <= 0) /\ k <= n + 1 /\ k - 0 - 1 = k - 1
      BY <1>1, <1>17
    <3> QED
      BY <1>14, <3>1
  <2>3. Progress(c, 0, 0, 0)'
    BY <2>2 DEF Progress
  <2>4. Waiting(c)'
    BY <1>5, <1>7, <1>10, <1>15, <1>17, <2>1, <2>3 DEF Waiting
  <2> QED
    BY <1>1, <1>10, <1>13, <1>17, <2>4, Turn, BatchMoves DEF BaseInv, BatchInv, Stage, Idle
<1> QED
  BY <1>16, <1>17

\* A batch that is waited for still has an answer to come: no wait expires.
LEMMA StillToCome ==
  ASSUME BaseInv, NEW c \in Calls, Waiting(c)
  PROVE \E k \in 1 .. Count[c] : <<c, k>> \in InFlight
<1> DEFINE m == Settled(c)
<1>1. Count[c] \in Nat /\ cmds[CodecOf[c]] \in 0 .. Count[c]
  BY CallAssumption DEF Waiting
<1>2. m \in 0 .. Count[c]
  BY <1>1 DEF Settled
<1> HIDE DEF m
<1>3. CASE Serving(c)
  <2>1. resp \in Dispatching /\ resp \in Transfers /\ resp[1] = c
    BY <1>3 DEF Serving, Taken, Dispatching, BaseInv, DpcInv
  <2>2. resp[2] \in 1 .. Count[c] /\ resp = <<c, resp[2]>>
    BY <2>1, TransferParts
  <2> QED
    BY <2>1, <2>2 DEF InFlight
<1>4. CASE ~Serving(c)
  <2>1. m < Count[c] /\ Progress(c, m, m, m)
    BY <1>4 DEF Waiting, m
  <2>2. m + 1 \in 1 .. Count[c] /\ m + 1 > m
    BY <1>1, <1>2, <2>1
  <2>3. <<c, m + 1>> \in Ahead
    BY <2>1, <2>2 DEF Progress
  <2> QED
    BY <2>2, <2>3 DEF InFlight, Ahead
<1> QED
  BY <1>3, <1>4

LEMMA BatchWait ==
  ASSUME BaseInv, BatchInv, FifoInv, OneProcessor, NEW c \in Calls, Wait(c) \/ Timeout(c)
  PROVE BatchInv'
<1>1. OwnCall(c) /\ UNCHANGED <<rirb, fetched, posted, lost, dpc, resp, gone>>
  BY CallerOwns DEF BaseInv
<1>2. Ahead' = Ahead /\ (Serving(c)' <=> Serving(c))
  BY <1>1, BatchOwn
<1>3. UNCHANGED <<input, cmds, xfer, event, status, slot>>
  BY DEF Wait, Timeout
<1>4. CASE Wait(c)
  <2>1. /\ pc[c] = "wait"
        /\ pc'[c] = IF event[CodecOf[c]] THEN "clear" ELSE "waiting"
    BY <1>4 DEF Wait, Goto, BaseInv, TypeOK
  <2>2. Waiting(c) \/ Done(c)
    BY <2>1 DEF BatchInv, Stage, Composing, TurnedAway
  <2>3. CASE Waiting(c)
    <3>1. \A t, u, v : Progress(c, t, u, v) => Progress(c, t, u, v)'
      BY <1>2, <1>3 DEF Progress
    <3>2. Settled(c)' = Settled(c) /\ pc'[c] = "waiting"
      BY <1>3, <2>1, <2>3 DEF Settled, Waiting
    <3>3. Waiting(c)'
      BY <1>1, <1>2, <1>3, <2>3, <3>1, <3>2 DEF Waiting
    <3> QED
      BY <1>1, <2>1, <3>2, <3>3, BatchStep DEF Stage, Idle
  <2>4. CASE Done(c)
    <3>1. pc'[c] = "clear"
      BY <2>1, <2>4 DEF Done
    <3>2. Done(c)'
      BY <1>2, <1>3, <2>1, <2>4, <3>1 DEF Done
    <3> QED
      BY <1>1, <2>1, <3>1, <3>2, BatchStep DEF Stage, Idle
  <2> QED
    BY <2>2, <2>3, <2>4
<1>5. CASE Timeout(c)
  <2>1. pc[c] = "waiting" /\ \A k \in 1 .. Count[c] : <<c, k>> \notin InFlight
    BY <1>5 DEF Timeout, OneProcessor, FifoInv
  <2>2. Waiting(c)
    BY <2>1 DEF BatchInv, Stage, Composing, Done, TurnedAway
  <2> QED
    BY <2>1, <2>2, StillToCome
<1> QED
  BY <1>4, <1>5

\* The count of the answers to a batch that has all of them.
LEMMA AllCounted ==
  ASSUME NEW c \in Calls, \A k \in 1 .. Count[c] : input[<<c, k>>] # NULL
  PROVE Cardinality({k \in 1 .. Count[c] : input[<<c, k>>] # NULL}) = Count[c]
<1>1. Count[c] \in Nat
  BY CallAssumption
<1>2. {k \in 1 .. Count[c] : input[<<c, k>>] # NULL} = 1 .. Count[c]
  OBVIOUS
<1>3. Cardinality(1 .. Count[c]) = Count[c]
  BY <1>1, FS_Interval
<1> QED
  BY <1>2, <1>3

\* Taking the result of the wait, to the end of the call.
LEMMA BatchTake ==
  ASSUME BaseInv, BatchInv, NEW c \in Calls,
         ClearEvent(c) \/ CountValid(c) \/ Settle(c) \/ Return(c)
  PROVE BatchInv'
<1>1. OwnCall(c) /\ UNCHANGED <<rirb, fetched, posted, lost, dpc, resp, gone>>
  BY CallerOwns DEF BaseInv
<1>2. Ahead' = Ahead /\ (Serving(c)' <=> Serving(c))
  BY <1>1, BatchOwn
<1>3. pc[c] \in {"clear", "count", "settle", "out"} /\ ~Idle(c)
  BY DEF ClearEvent, CountValid, Settle, Return, Idle
<1>4. Done(c) \/ (pc[c] = "out" /\ TurnedAway(c))
  BY <1>3 DEF BatchInv, Stage, Composing, Waiting, TurnedAway
<1>5. CASE ClearEvent(c) /\ Done(c)
  <2>1. /\ pc'[c] = "count" /\ event'[CodecOf[c]] = FALSE /\ UNCHANGED <<input, cmds, status>>
    BY <1>5, CodecKnown DEF ClearEvent, Goto, BaseInv, TypeOK
  <2>2. Done(c)'
    BY <1>2, <1>3, <1>5, <2>1 DEF Done
  <2> QED
    BY <1>1, <1>3, <2>1, <2>2, BatchStep DEF Stage, Idle
<1>6. CASE CountValid(c) /\ Done(c)
  <2> DEFINE n == Cardinality({k \in 1 .. Count[c] : input[<<c, k>>] # NULL})
  <2>1. n = Count[c] /\ Count[c] \in Nat
    <3>1. \A k \in 1 .. Count[c] : input[<<c, k>>] # NULL
      BY <1>6, TransferMade, CallAssumption DEF Done
    <3> QED
      BY <3>1, AllCounted, CallAssumption
  <2>2. /\ UNCHANGED <<input, cmds, event>> /\ pc[c] = "count"
        /\ ~(n < Count[c]) => /\ pc' = [pc EXCEPT ![c] = "out"]
                              /\ status' = [status EXCEPT ![c] = "STATUS_SUCCESS"]
    BY <1>6 DEF CountValid, Goto, Finish
  <2> HIDE DEF n
  <2>3. pc'[c] = "out" /\ status'[c] = "STATUS_SUCCESS"
    BY <2>1, <2>2 DEF BaseInv, TypeOK
  <2>4. Done(c)'
    BY <1>2, <1>6, <2>2, <2>3 DEF Done
  <2> QED
    BY <1>1, <1>3, <2>3, <2>4, BatchStep DEF Stage, Idle
<1>7. CASE ClearEvent(c) \/ CountValid(c) \/ Settle(c)
  <2>1. Done(c) /\ ~Settle(c)
    BY <1>4, <1>7 DEF ClearEvent, CountValid, Settle, Done
  <2> QED
    BY <1>5, <1>6, <1>7, <2>1
<1>8. CASE Return(c)
  <2>1. pc[c] = "out" /\ pc'[c] = "returned" /\ UNCHANGED <<input, cmds, event, status>>
    BY <1>8 DEF Return, Goto, BaseInv, TypeOK
  <2>2. Stage(c)'
    <3>1. Done(c) => Done(c)'
      BY <1>2, <2>1 DEF Done
    <3>2. TurnedAway(c) => TurnedAway(c)'
      BY <1>2, <2>1 DEF TurnedAway
    <3> QED
      BY <1>4, <3>1, <3>2 DEF Stage
  <2>3. Quiet(CodecOf[c])'
    BY <1>4, <2>1 DEF Quiet, Done, TurnedAway
  <2> QED
    BY <1>1, <1>3, <2>1, <2>2, <2>3, BatchStep DEF Idle
<1> QED
  BY <1>7, <1>8
-----------------------------------------------------------------------------
(* The steps of the DPC, the controller and the codecs. *)

LEMMA BatchHardware ==
  ASSUME BaseInv, BatchInv, FifoInv, FifoInv', OneProcessor,
         Interrupt \/ FlushReadWp \/ Fetch \/ Vanish \/ UNCHANGED vars
  PROVE BatchInv'
<1>1. UNCHANGED <<pc, at, slot, status, input, cmds, event, xfer>>
  BY DEF Interrupt, FlushReadWp, Fetch, Vanish, vars, callVars
<1>2. Ahead' = Ahead
  <2>1. CASE Fetch
    BY <2>1, AheadFetched DEF FifoInv
  <2>2. CASE Interrupt \/ FlushReadWp \/ Vanish \/ UNCHANGED vars
    <3>1. UNCHANGED <<rirb, fetched, posted>>
      BY <2>2 DEF Interrupt, FlushReadWp, Vanish, vars, hwVars
    <3> QED
      BY <3>1, AheadStill
  <2> QED
    BY <2>1, <2>2
<1>3. \A d \in Calls : (Serving(d)' <=> Serving(d)) /\ (Serving(d) => dpc' = dpc /\ resp' = resp)
  <2>1. CASE FlushReadWp
    <3>1. dpc = "idle" /\ dpc' \in {"idle", "test"}
      BY <2>1 DEF FlushReadWp
    <3> QED
      BY <3>1 DEF Serving, Taken
  <2>2. CASE Interrupt \/ Fetch \/ Vanish \/ UNCHANGED vars
    <3>1. dpc' = dpc /\ resp' = resp
      BY <2>2 DEF Interrupt, Fetch, Vanish, vars, dpcVars
    <3> QED
      BY <3>1 DEF Serving
  <2> QED
    BY <2>1, <2>2
<1>4. (\A d \in Calls : BatchStill(d)) /\ (\A a \in Codecs : SameCodec(a))
  BY <1>1, <1>2, <1>3 DEF BatchStill, SameCodec
<1>5. \A d \in Calls : Stage(d)'
  BY <1>4, StageStill, CodecKnown DEF BatchInv, BaseInv
<1>6. TurnInv' /\ FreeInv'
  BY <1>1 DEF BatchInv, TurnInv, FreeInv, Quiet, Idle
<1> QED
  BY <1>5, <1>6 DEF BatchInv

\* The DPC takes a response: it answers the first unanswered verb of a batch
\* that is waited for.
LEMMA BatchTest ==
  ASSUME BaseInv, BatchInv, FifoInv, OneProcessor, FlushTest
  PROVE BatchInv'
<1>1. /\ resp' \in Ahead /\ resp' \in Transfers /\ Ahead' = Ahead \ {resp'}
      /\ \A t \in Ahead : t[1] = resp'[1] => resp'[2] <= t[2]
  BY FirstTaken
<1>2. PICK c \in Calls : c = resp'[1]
  BY <1>1, TransferParts
<1>3. PICK k \in 1 .. Count[c] : resp' = <<c, k>>
  BY <1>1, <1>2, TransferParts
<1>4. /\ dpc = "test" /\ lock = NULL
      /\ UNCHANGED <<pc, at, slot, status, input, cmds, event, xfer>>
      /\ dpc' = IF cmds[CodecOf[c]] # 0 THEN "credit"
                ELSE IF left' = 0 THEN "idle" ELSE "test"
  BY <1>2 DEF FlushTest, DpcMayRun, OneProcessor, callVars
<1>5. pc[c] \notin Sending
  BY <1>4, CallAssumption DEF BaseInv, LockInv
<1>6. Waiting(c)
  <2>1. ~Composing(c)
    <3>1. SUFFICES ASSUME Composing(c) PROVE FALSE
      OBVIOUS
    <3>2. pc[c] \in {"idle", "lock"} /\ k <= at[c]
      BY <1>1, <1>3, <1>5, <3>1 DEF Composing, Sending
    <3>3. at[c] = 0
      BY <3>2 DEF BaseInv, AtInv
    <3> QED
      BY <3>2, <3>3
  <2>2. ~Done(c) /\ ~TurnedAway(c)
    BY <1>1, <1>3 DEF Done, TurnedAway
  <2> QED
    BY <2>1, <2>2 DEF BatchInv, Stage
<1> DEFINE a == CodecOf[c]
<1>7. PICK m \in Nat : m = Settled(c) /\ cmds[a] = Count[c] - m /\ m <= Count[c] /\ Count[c] \in Nat
  BY <1>6, CallAssumption DEF Waiting, Settled
<1>8. ~Serving(c) /\ m < Count[c] /\ Progress(c, m, m, m)
  BY <1>4, <1>6, <1>7 DEF Waiting, Serving, Taken
<1>9. k = m + 1
  <2>1. k > m
    BY <1>1, <1>3, <1>8 DEF Progress
  <2>2. m + 1 \in 1 .. Count[c] /\ m + 1 > m
    BY <1>7, <1>8
  <2>3. <<c, m + 1>> \in Ahead
    BY <1>8, <2>2 DEF Progress
  <2>4. k <= m + 1
    BY <1>1, <1>3, <2>3
  <2> QED
    BY <1>7, <2>1, <2>4
<1>10. dpc' = "credit"
  BY <1>4, <1>7, <1>8
<1>11. Serving(c)' /\ resp' = <<c, m + 1>>
  BY <1>3, <1>9, <1>10 DEF Serving, Taken
<1>12. Progress(c, m + 1, m, m)'
  <2>1. ASSUME NEW j \in 1 .. Count[c]
        PROVE  /\ <<c, j>> \in Ahead' <=> j > m + 1
               /\ input'[<<c, j>>] = IF j <= m THEN <<c, j>> ELSE NULL
               /\ j > m => xfer'[a][j - m - 1] = <<c, j>>
    <3>1. <<c, j>> \in Ahead' <=> (<<c, j>> \in Ahead /\ j # m + 1)
      BY <1>1, <1>11
    <3>2. <<c, j>> \in Ahead' <=> j > m + 1
      BY <1>7, <1>8, <3>1 DEF Progress
    <3> QED
      BY <1>4, <1>8, <3>2 DEF Progress
  <2> QED
    BY <2>1 DEF Progress
<1>13. Waiting(c)'
  <2>1. Settled(c)' = m /\ cmds'[a] \in 0 .. Count[c]
    BY <1>4, <1>6, <1>7 DEF Settled, Waiting
  <2>2. pc'[c] \in {"wait", "waiting"} /\ ~event'[a]
    BY <1>4, <1>6 DEF Waiting
  <2> QED
    BY <1>8, <1>10, <1>11, <1>12, <2>1, <2>2 DEF Waiting
<1>14. BatchOthers(c)
  <2>1. \A d \in Calls \ {c} : ~Serving(d) /\ ~Serving(d)'
    BY <1>2, <1>4 DEF Serving, Taken
  <2>2. \A d \in Calls \ {c} : \A j \in 1 .. Count[d] : <<d, j>> \in Ahead' <=> <<d, j>> \in Ahead
    BY <1>1, <1>3
  <2> QED
    BY <1>4, <2>1, <2>2 DEF BatchOthers, BatchStill, SameCodec
<1>15. ~Idle(c) /\ ~Idle(c)' /\ Stage(c)'
  BY <1>4, <1>6, <1>13 DEF Waiting, Idle, Stage
<1> QED
  BY <1>14, <1>15, Turn, BatchMoves DEF BaseInv, BatchInv

\* The batch whose response the DPC is dealing with.
LEMMA BatchServed ==
  ASSUME BaseInv, BatchInv, dpc \in Taken
  PROVE \E c \in Calls, m \in Nat :
          /\ Serving(c) /\ RespCodec = CodecOf[c] /\ CodecOf[c] \in Codecs
          /\ ~Idle(c) /\ Alone(c)
          /\ pc[c] \in {"wait", "waiting"} /\ ~event[CodecOf[c]]
          /\ Count[c] \in Nat /\ m <= Count[c] /\ cmds[CodecOf[c]] = Count[c] - m
          /\ dpc # "event" => m < Count[c] /\ resp = <<c, m + 1>>
          /\ dpc = "credit" => Progress(c, m + 1, m, m)
          /\ dpc = "shift" => Progress(c, m + 1, m + 1, m)
          /\ dpc = "decrement" => Progress(c, m + 1, m + 1, m + 1)
          /\ dpc = "event" => m = Count[c] /\ Progress(c, m, m, m)
          /\ \A d \in Calls \ {c} : ~Serving(d)
<1>1. resp \in Transfers
  BY DEF BaseInv, DpcInv
<1>2. PICK c \in Calls : c = resp[1] /\ CodecOf[c] \in Codecs
  BY <1>1, TransferParts
<1>3. Serving(c) /\ RespCodec = CodecOf[c] /\ \A d \in Calls \ {c} : ~Serving(d)
  BY <1>2 DEF Serving, RespCodec
<1>4. Waiting(c)
  BY <1>3 DEF BatchInv, Stage, Composing, Done, TurnedAway
<1>5. ~Idle(c)
  BY <1>4 DEF Waiting, Idle
<1>6. PICK m \in Nat : /\ m = Settled(c) /\ cmds[CodecOf[c]] = Count[c] - m /\ m <= Count[c]
                       /\ Count[c] \in Nat
  BY <1>4, CallAssumption DEF Waiting, Settled
<1>7. /\ dpc # "event" => m < Count[c] /\ resp = <<c, m + 1>>
      /\ dpc = "credit" => Progress(c, m + 1, m, m)
      /\ dpc = "shift" => Progress(c, m + 1, m + 1, m)
      /\ dpc = "decrement" => Progress(c, m + 1, m + 1, m + 1)
      /\ dpc = "event" => m = Count[c] /\ Progress(c, m, m, m)
  BY <1>3, <1>4, <1>6 DEF Waiting
<1>8. Alone(c) /\ pc[c] \in {"wait", "waiting"} /\ ~event[CodecOf[c]]
  BY <1>4, <1>5, Turn DEF BatchInv, Waiting
<1> QED
  BY <1>2, <1>3, <1>5, <1>6, <1>7, <1>8

LEMMA BatchFlush ==
  ASSUME BaseInv, BatchInv, OneProcessor,
         FlushCredit \/ FlushShift \/ FlushDecrement \/ FlushSetEvent
  PROVE BatchInv'
<1>1. dpc \in Taken
  BY DEF FlushCredit, FlushShift, FlushDecrement, FlushSetEvent, Taken
<1>2. PICK c \in Calls, m \in Nat :
          /\ Serving(c) /\ RespCodec = CodecOf[c] /\ CodecOf[c] \in Codecs
          /\ ~Idle(c) /\ Alone(c)
          /\ pc[c] \in {"wait", "waiting"} /\ ~event[CodecOf[c]]
          /\ Count[c] \in Nat /\ m <= Count[c] /\ cmds[CodecOf[c]] = Count[c] - m
          /\ dpc # "event" => m < Count[c] /\ resp = <<c, m + 1>>
          /\ dpc = "credit" => Progress(c, m + 1, m, m)
          /\ dpc = "shift" => Progress(c, m + 1, m + 1, m)
          /\ dpc = "decrement" => Progress(c, m + 1, m + 1, m + 1)
          /\ dpc = "event" => m = Count[c] /\ Progress(c, m, m, m)
          /\ \A d \in Calls \ {c} : ~Serving(d)
  BY <1>1, BatchServed
<1> DEFINE a == CodecOf[c]
<1>3. UNCHANGED <<at, slot, status, resp, rirb, fetched, posted>>
  BY DEF FlushCredit, FlushShift, FlushDecrement, FlushSetEvent, callVars, hwVars
<1>4. Ahead' = Ahead
  BY <1>3, AheadStill
<1>5. \A d \in Calls \ {c} : ~Serving(d)'
  BY <1>2, <1>3 DEF Serving
<1>6. Entries \in Nat /\ Count[c] <= Entries
  BY CallAssumption DEF OneProcessor
<1>7. CASE FlushCredit
  <2>1. /\ dpc = "credit" /\ dpc' = "shift" /\ UNCHANGED <<pc, cmds, event, xfer>>
        /\ input' = IF xfer[a][0] = NULL THEN input
                    ELSE [input EXCEPT ![xfer[a][0]] = resp]
    BY <1>2, <1>7 DEF FlushCredit, callVars
  <2>2. m < Count[c] /\ resp = <<c, m + 1>> /\ Progress(c, m + 1, m, m)
    BY <1>2, <2>1
  <2>3. m + 1 \in 1 .. Count[c] /\ m + 1 > m /\ (m + 1) - m - 1 = 0
    BY <1>2, <2>2
  <2>4. <<c, m + 1>> \in Transfers
    BY <2>3, TransferMade
  <2>5. xfer[a][0] = <<c, m + 1>>
    <3>1. xfer[a][(m + 1) - m - 1] = <<c, m + 1>>
      BY <2>2, <2>3 DEF Progress
    <3> QED
      BY <2>3, <3>1
  <2>6. input' = [input EXCEPT ![<<c, m + 1>>] = <<c, m + 1>>]
    BY <2>1, <2>2, <2>4, <2>5, CallAssumption
  <2>7. /\ input'[<<c, m + 1>>] = <<c, m + 1>>
        /\ \A t \in Transfers : t # <<c, m + 1>> => input'[t] = input[t]
    BY <2>4, <2>6 DEF BaseInv, TypeOK
  <2>8. Progress(c, m + 1, m + 1, m)'
    <3>1. ASSUME NEW j \in 1 .. Count[c]
          PROVE  input'[<<c, j>>] = IF j <= m + 1 THEN <<c, j>> ELSE NULL
      <4>1. CASE j = m + 1
        BY <2>7, <4>1
      <4>2. CASE j # m + 1
        <5>1. input'[<<c, j>>] = input[<<c, j>>]
          BY <2>7, <4>2, TransferMade
        <5> QED
          BY <1>2, <2>2, <4>2, <5>1 DEF Progress
      <4> QED
        BY <4>1, <4>2
    <3> QED
      BY <1>4, <2>1, <2>2, <3>1 DEF Progress
  <2>9. Serving(c)' /\ Settled(c)' = m /\ cmds'[a] \in 0 .. Count[c]
    BY <1>2, <1>3, <2>1 DEF Serving, Taken, Settled
  <2>10. Waiting(c)'
    BY <1>2, <1>3, <2>1, <2>2, <2>8, <2>9 DEF Waiting
  <2>11. BatchOthers(c)
    <3>1. \A d \in Calls \ {c} : \A j \in 1 .. Count[d] : input'[<<d, j>>] = input[<<d, j>>]
      BY <2>7, TransferMade
    <3> QED
      BY <1>2, <1>3, <1>4, <1>5, <2>1, <3>1 DEF BatchOthers, BatchStill, SameCodec
  <2> QED
    BY <1>2, <2>1, <2>10, <2>11, BatchMoves DEF BaseInv, Stage, Idle
<1>8. CASE FlushShift
  <2>1. /\ dpc = "shift" /\ dpc' = "decrement" /\ UNCHANGED <<pc, input, cmds, event>>
        /\ xfer' = [xfer EXCEPT ![a] =
                      [i \in Slots |-> IF i = Entries - 1 THEN NULL ELSE xfer[a][i + 1]]]
    BY <1>2, <1>8 DEF FlushShift, callVars
  <2>2. m < Count[c] /\ resp = <<c, m + 1>> /\ Progress(c, m + 1, m + 1, m)
    BY <1>2, <2>1
  <2>3. /\ \A i \in Slots : i # Entries - 1 => xfer'[a][i] = xfer[a][i + 1]
        /\ \A b \in Codecs \ {a} : xfer'[b] = xfer[b]
    BY <1>2, <2>1 DEF BaseInv, TypeOK
  <2>4. Progress(c, m + 1, m + 1, m + 1)'
    <3>1. ASSUME NEW j \in 1 .. Count[c], j > m + 1
          PROVE  xfer'[a][j - (m + 1) - 1] = <<c, j>>
      <4> DEFINE i == j - (m + 1) - 1
      <4>1. i \in Slots /\ i # Entries - 1 /\ i + 1 = j - m - 1 /\ j > m
        BY <1>2, <1>6, <3>1 DEF Slots
      <4>2. xfer[a][j - m - 1] = <<c, j>>
        BY <2>2, <4>1 DEF Progress
      <4> HIDE DEF i
      <4>3. xfer'[a][i] = <<c, j>>
        BY <2>3, <4>1, <4>2
      <4> QED
        BY <4>3 DEF i
    <3> QED
      BY <1>4, <2>1, <2>2, <3>1 DEF Progress
  <2>5. Serving(c)' /\ Settled(c)' = m /\ cmds'[a] \in 0 .. Count[c]
    BY <1>2, <1>3, <2>1 DEF Serving, Taken, Settled
  <2>6. Waiting(c)'
    BY <1>2, <1>3, <2>1, <2>2, <2>4, <2>5 DEF Waiting
  <2>7. BatchOthers(c)
    BY <1>2, <1>3, <1>4, <1>5, <2>1, <2>3 DEF BatchOthers, BatchStill, SameCodec
  <2> QED
    BY <1>2, <2>1, <2>6, <2>7, BatchMoves DEF BaseInv, Stage, Idle
<1>9. CASE FlushDecrement
  <2>1. /\ dpc = "decrement" /\ UNCHANGED <<pc, input, xfer, event>>
        /\ cmds' = [cmds EXCEPT ![a] = cmds[a] - 1]
        /\ IF cmds'[a] = 0 THEN dpc' = "event" ELSE dpc' \in {"idle", "test"}
    BY <1>2, <1>9 DEF FlushDecrement, FlushNext, callVars
  <2>2. m < Count[c] /\ resp = <<c, m + 1>> /\ Progress(c, m + 1, m + 1, m + 1)
    BY <1>2, <2>1
  <2>3. /\ cmds'[a] = Count[c] - (m + 1) /\ cmds'[a] \in 0 .. Count[c]
        /\ \A b \in Codecs \ {a} : cmds'[b] = cmds[b]
    <3>1. cmds'[a] = cmds[a] - 1 /\ \A b \in Codecs \ {a} : cmds'[b] = cmds[b]
      BY <1>2, <2>1 DEF BaseInv, TypeOK
    <3> QED
      BY <1>2, <2>2, <3>1
  <2>4. Settled(c)' = m + 1
    BY <1>2, <2>3 DEF Settled
  <2>5. Progress(c, m + 1, m + 1, m + 1)'
    BY <1>4, <2>1, <2>2 DEF Progress
  <2>6. ASSUME cmds'[a] = 0 PROVE Waiting(c)'
    <3>1. dpc' = "event" /\ m + 1 = Count[c]
      BY <1>2, <2>1, <2>3, <2>6
    <3>2. Serving(c)'
      BY <1>2, <1>3, <3>1 DEF Serving, Taken
    <3> QED
      BY <1>2, <2>1, <2>3, <2>4, <2>5, <3>1, <3>2 DEF Waiting
  <2>7. ASSUME cmds'[a] # 0 PROVE Waiting(c)'
    <3>1. dpc' \in {"idle", "test"} /\ m + 1 < Count[c]
      BY <1>2, <2>1, <2>2, <2>3, <2>7
    <3>2. ~Serving(c)'
      BY <3>1 DEF Serving, Taken
    <3> QED
      BY <1>2, <2>1, <2>3, <2>4, <2>5, <3>1, <3>2 DEF Waiting
  <2>8. Waiting(c)'
    BY <2>6, <2>7
  <2>9. BatchOthers(c)
    BY <1>2, <1>3, <1>4, <1>5, <2>1, <2>3 DEF BatchOthers, BatchStill, SameCodec
  <2> QED
    BY <1>2, <2>1, <2>8, <2>9, BatchMoves DEF BaseInv, Stage, Idle
<1>10. CASE FlushSetEvent
  <2>1. /\ dpc = "event" /\ dpc' \in {"idle", "test"} /\ UNCHANGED <<input, xfer, cmds>>
        /\ event' = [event EXCEPT ![a] = TRUE]
        /\ pc' = [d \in Calls |-> IF pc[d] = "waiting" /\ CodecOf[d] = a THEN "clear" ELSE pc[d]]
    BY <1>2, <1>10 DEF FlushSetEvent, FlushNext
  <2>2. m = Count[c] /\ Progress(c, m, m, m)
    BY <1>2, <2>1
  <2>3. pc'[c] \in {"wait", "clear"} /\ \A d \in Calls \ {c} : pc'[d] = pc[d]
    BY <1>2, <2>1 DEF Alone, Idle
  <2>4. event'[a] /\ \A b \in Codecs \ {a} : event'[b] = event[b]
    BY <1>2, <2>1 DEF BaseInv, TypeOK
  <2>5. ~Serving(c)' /\ cmds'[a] = 0
    BY <1>2, <2>1, <2>2 DEF Serving, Taken
  <2>6. \A k \in 1 .. Count[c] : <<c, k>> \notin Ahead' /\ input'[<<c, k>>] = <<c, k>>
    BY <1>2, <1>4, <2>1, <2>2 DEF Progress
  <2>7. Done(c)'
    BY <2>3, <2>4, <2>5, <2>6 DEF Done
  <2>8. BatchOthers(c)
    BY <1>2, <1>3, <1>4, <1>5, <2>1, <2>3, <2>4 DEF BatchOthers, BatchStill, SameCodec
  <2> QED
    BY <1>2, <2>3, <2>7, <2>8, BatchMoves DEF BaseInv, Stage, Idle
<1> QED
  BY <1>7, <1>8, <1>9, <1>10
-----------------------------------------------------------------------------
LEMMA BatchInit == Init => BatchInv
<1> SUFFICES ASSUME Init PROVE BatchInv
  OBVIOUS
<1>1. /\ \A c \in Calls : pc[c] = "idle" /\ at[c] = 0
      /\ \A t \in Transfers : input[t] = NULL
      /\ \A a \in Codecs : cmds[a] = 0 /\ ~event[a]
      /\ dpc = "idle" /\ rirb = <<>> /\ posted = <<>> /\ fetched = 0
  BY DEF Init
<1>2. Ahead = {}
  <2>1. Len(rirb) = 0 /\ Len(posted) = 0
    BY <1>1, EmptySeq
  <2> QED
    BY <1>1, <2>1 DEF Ahead, InCorb, InRirb
<1>3. ASSUME NEW c \in Calls PROVE Composing(c)
  <2>1. \A k \in 1 .. Count[c] : input[<<c, k>>] = NULL /\ ~(k <= at[c])
    BY <1>1, TransferMade
  <2> QED
    BY <1>1, <1>2, <2>1 DEF Composing, Serving, Taken
<1>4. TurnInv /\ FreeInv
  BY <1>1 DEF TurnInv, FreeInv, Idle, Quiet
<1> QED
  BY <1>3, <1>4 DEF BatchInv, Stage

\* A batch that was refused half way stays so.
LEMMA RetryStays ==
  ASSUME BaseInv, [Next]_vars, NoneSplit'
  PROVE NoneSplit
<1> SUFFICES ASSUME NEW c \in Calls, status[c] = "STATUS_RETRY", at[c] # 0 PROVE FALSE
  BY DEF NoneSplit
<1>1. pc[c] \in {"out", "returned"} /\ ~(status'[c] = "STATUS_RETRY" /\ at'[c] = at[c])
  BY DEF BaseInv, AtInv, NoneSplit
<1>2. ASSUME NEW d \in Calls, Check(d) \/ CountValid(d) \/ Settle(d) PROVE FALSE
  <2>1. d # c
    BY <1>1, <1>2 DEF Check, CountValid, Settle
  <2>2. status'[c] = status[c] /\ at'[c] = at[c]
    BY <1>2, <2>1 DEF Check, CountValid, Settle, Finish, BaseInv, TypeOK
  <2> QED
    BY <1>1, <2>2
<1>3. ASSUME NEW d \in Calls, PostVerb(d) PROVE FALSE
  <2>1. d # c
    BY <1>1, <1>3 DEF PostVerb
  <2>2. status'[c] = status[c] /\ at'[c] = at[c]
    BY <1>3, <2>1 DEF PostVerb, BaseInv, TypeOK
  <2> QED
    BY <1>1, <2>2
<1>4. status' = status /\ at' = at
  BY <1>2, <1>3, Steps DEF Begin, AcquireLock, Reserve, Wait, Timeout, ClearEvent, Return,
        Interrupt, FlushReadWp, FlushTest, FlushCredit, FlushShift, FlushDecrement,
        FlushSetEvent, Fetch, Vanish, vars, callVars
<1> QED
  BY <1>1, <1>4

LEMMA BatchKept ==
  ASSUME BaseInv, FifoInv, FifoInv', NoneSplit => BatchInv, OneProcessor, [Next]_vars, NoneSplit'
  PROVE BatchInv'
<1>1. BatchInv
  BY RetryStays
<1> QED
  BY <1>1, Steps, BatchBegin, BatchSend, BatchPost, BatchWait, BatchTake, BatchHardware,
     BatchTest, BatchFlush

LEMMA BatchHolds == ASSUME OneProcessor PROVE Spec => [](NoneSplit => BatchInv)
<1>1. /\ BaseInv /\ FifoInv /\ FifoInv' /\ (NoneSplit => BatchInv) /\ [Next]_vars
      => (NoneSplit => BatchInv)'
  BY BatchKept
<1>2. Init => (NoneSplit => BatchInv)
  BY BatchInit
<1> QED
  BY <1>1, <1>2, BaseHolds, FifoHolds, PTL DEF Spec

\* A response goes into the transfer of the command it answers, for batches
\* of any length on any codecs, unless one was refused half way.
THEOREM AnswersAreMatched == OneProcessor => (Spec => [](NoneSplit => AnswersMatch))
<1> SUFFICES ASSUME OneProcessor PROVE Spec => [](NoneSplit => AnswersMatch)
  OBVIOUS
<1>1. BatchInv => AnswersMatch
  <2> SUFFICES ASSUME BatchInv, NEW t \in Transfers, input[t] # NULL PROVE input[t] = t
    BY DEF AnswersMatch
  <2>1. PICK c \in Calls : \E k \in 1 .. Count[c] : t = <<c, k>>
    BY TransferParts
  <2>2. PICK k \in 1 .. Count[c] : t = <<c, k>>
    BY <2>1
  <2> QED
    BY <2>2 DEF BatchInv, Stage, Composing, Waiting, Progress, Done, TurnedAway
<1> QED
  BY <1>1, BatchHolds, PTL

\* A batch that is reported to have succeeded has the answer to every verb.
THEOREM BatchIsAnswered == OneProcessor => (Spec => [](NoneSplit => SuccessMeansAnswered))
<1> SUFFICES ASSUME OneProcessor PROVE Spec => [](NoneSplit => SuccessMeansAnswered)
  OBVIOUS
<1>1. BaseInv /\ BatchInv => SuccessMeansAnswered
  <2> SUFFICES ASSUME BaseInv, BatchInv, NEW c \in Calls, status[c] = "STATUS_SUCCESS",
                      NEW k \in 1 .. Count[c]
               PROVE  input[<<c, k>>] = <<c, k>>
    BY DEF SuccessMeansAnswered
  <2>1. pc[c] \in {"out", "returned"}
    BY DEF BaseInv, AtInv
  <2> QED
    BY <2>1 DEF BatchInv, Stage, Composing, Waiting, Done, TurnedAway
<1> QED
  BY <1>1, BaseHolds, BatchHolds, PTL

\* The verbs of a call that are ahead of the DPC were posted in their order.
LEMMA AheadInOrder ==
  ASSUME BaseInv, NEW t \in Ahead, NEW u \in Ahead, t[1] = u[1], t[2] < u[2], FifoInv
  PROVE PostedBefore(t, u)
<1> DEFINE n == fetched - Len(rirb)
<1>1. n \in Nat /\ Len(posted) \in Nat
  BY LenProperties DEF BaseInv, TypeOK, FifoInv
<1>2. Ahead = {posted[i] : i \in n + 1 .. Len(posted)}
  BY AheadPositions DEF BaseInv
<1> HIDE DEF n
<1>3. PICK i \in n + 1 .. Len(posted) : t = posted[i]
  BY <1>2
<1>4. PICK j \in n + 1 .. Len(posted) : u = posted[j]
  BY <1>2
<1>5. i \in 1 .. Len(posted) /\ j \in 1 .. Len(posted)
  BY <1>1
<1>6. t[2] \in Int /\ u[2] \in Int
  <2>1. t \in Transfers /\ u \in Transfers
    BY <1>3, <1>4, <1>5, ElementOfSeq DEF BaseInv, TypeOK
  <2>2. t[2] \in 1 .. Count[t[1]] /\ u[2] \in 1 .. Count[u[1]]
    BY <2>1, TransferParts
  <2> QED
    BY <2>2
<1>7. ~(j < i)
  BY <1>3, <1>4, <1>5, <1>6 DEF BaseInv, PostedInv
<1>8. i # j
  BY <1>3, <1>4, <1>6
<1>9. i < j
  BY <1>1, <1>7, <1>8
<1> QED
  BY <1>3, <1>4, <1>5, <1>9 DEF PostedBefore

\* Between senders and DPC, xfer lists the verbs without an answer in the
\* order of their commands, and cmds counts them.
THEOREM QueueIsExact == OneProcessor => (Spec => [](NoneSplit => QueueAgrees))
<1> SUFFICES ASSUME OneProcessor PROVE Spec => [](NoneSplit => QueueAgrees)
  OBVIOUS
<1>1. ASSUME BaseInv, FifoInv, BatchInv PROVE QueueAgrees
  <2> SUFFICES ASSUME lock = NULL, dpc \in {"idle", "test"}, NEW a \in Codecs
               PROVE  /\ cmds[a] \in 0 .. Entries
                      /\ {xfer[a][i] : i \in 0 .. cmds[a] - 1} = Unsettled(a)
                      /\ \A i, j \in 0 .. cmds[a] - 1 :
                            i < j => PostedBefore(xfer[a][i], xfer[a][j])
    BY DEF QueueAgrees
  <2>1. \A c \in Calls : ~Serving(c) /\ pc[c] \notin Sending
    BY <1>1, CallAssumption DEF Serving, Taken, BaseInv, LockInv
  <2>2. Ahead \subseteq Transfers
    <3>1. /\ fetched \in Nat /\ Len(rirb) \in Nat /\ Len(rirb) <= fetched
      BY <1>1, LenProperties DEF BaseInv, TypeOK, FifoInv
    <3>2. \A i \in fetched - Len(rirb) + 1 .. Len(posted) : i \in 1 .. Len(posted)
      BY <3>1
    <3>3. \A i \in 1 .. Len(posted) : posted[i] \in Transfers
      BY <1>1, ElementOfSeq DEF BaseInv, TypeOK
    <3> QED
      BY <1>1, <3>2, <3>3, AheadPositions DEF BaseInv
  \* The verbs of a call that are ahead belong to a batch that is waited for.
  <2>3. ASSUME NEW t \in Ahead PROVE t[1] \in Calls /\ Waiting(t[1])
    <3>0. PICK c \in Calls : \E k \in 1 .. Count[c] : t = <<c, k>>
      BY <2>2, TransferParts
    <3>1. PICK k \in 1 .. Count[c] : t = <<c, k>>
      BY <3>0
    <3>2. ~Done(c) /\ ~TurnedAway(c)
      BY <3>1 DEF Done, TurnedAway
    <3>3. ~Composing(c)
      <4> SUFFICES ASSUME Composing(c) PROVE FALSE
        OBVIOUS
      <4>1. pc[c] \in {"idle", "lock"} /\ k <= at[c]
        BY <2>1, <3>1 DEF Composing, Sending
      <4>2. at[c] = 0
        BY <1>1, <4>1 DEF BaseInv, AtInv
      <4> QED
        BY <4>1, <4>2
    <3> QED
      BY <1>1, <3>1, <3>2, <3>3 DEF BatchInv, Stage
  <2>4. Unsettled(a) = {t \in Ahead : CodecOf[t[1]] = a}
    <3>1. \A t \in Ahead : status[t[1]] # "STATUS_IO_TIMEOUT"
      BY <1>1, <2>3 DEF Waiting, BaseInv, AtInv
    <3> QED
      BY <1>1, <3>1 DEF Unsettled, Ahead, FifoInv
  <2>5. CASE \E c \in Calls : CodecOf[c] = a /\ Waiting(c)
    <3>1. PICK c \in Calls : CodecOf[c] = a /\ Waiting(c)
      BY <2>5
    <3>2. PICK m \in Nat : /\ m = Settled(c) /\ cmds[a] = Count[c] - m /\ m <= Count[c]
                           /\ Count[c] \in Nat
      BY <3>1, CallAssumption DEF Waiting, Settled
    <3>3. Progress(c, m, m, m) /\ m < Count[c]
      BY <2>1, <3>1, <3>2 DEF Waiting
    <3>4. cmds[a] \in 0 .. Entries
      BY <3>2, CallAssumption DEF OneProcessor
    <3>5. ASSUME NEW i \in 0 .. cmds[a] - 1
          PROVE  /\ m + i + 1 \in 1 .. Count[c] /\ xfer[a][i] = <<c, m + i + 1>>
                 /\ <<c, m + i + 1>> \in Ahead
      <4> DEFINE k == m + i + 1
      <4>1. k \in 1 .. Count[c] /\ k > m /\ k - m - 1 = i
        BY <3>2
      <4> HIDE DEF k
      <4>2. xfer[a][k - m - 1] = <<c, k>> /\ <<c, k>> \in Ahead
        BY <3>1, <3>3, <4>1 DEF Progress
      <4> QED
        BY <4>1, <4>2 DEF k
    <3>6. ASSUME NEW t \in Ahead, CodecOf[t[1]] = a
          PROVE  \E i \in 0 .. cmds[a] - 1 : t = xfer[a][i]
      <4>1. t[1] = c
        BY <1>1, <2>3, <3>1, <3>6 DEF BatchInv, TurnInv, Waiting, Idle
      <4>2. PICK k \in 1 .. Count[c] : t = <<c, k>>
        BY <2>2, <4>1, TransferParts
      <4>3. k > m
        BY <3>3, <4>2 DEF Progress
      <4>4. k - m - 1 \in 0 .. cmds[a] - 1
        BY <3>2, <4>3
      <4>5. xfer[a][k - m - 1] = <<c, k>>
        BY <3>1, <3>3, <4>3 DEF Progress
      <4> QED
        BY <4>2, <4>4, <4>5
    <3>7. {xfer[a][i] : i \in 0 .. cmds[a] - 1} = Unsettled(a)
      <4>1. \A i \in 0 .. cmds[a] - 1 : xfer[a][i] \in Unsettled(a)
        BY <2>4, <3>1, <3>5
      <4> QED
        BY <2>4, <3>6, <4>1
    <3>8. ASSUME NEW i \in 0 .. cmds[a] - 1, NEW j \in 0 .. cmds[a] - 1, i < j
          PROVE  PostedBefore(xfer[a][i], xfer[a][j])
      <4>1. /\ xfer[a][i] \in Ahead /\ xfer[a][j] \in Ahead
            /\ xfer[a][i][1] = xfer[a][j][1] /\ xfer[a][i][2] < xfer[a][j][2]
        <5>1. xfer[a][i] = <<c, m + i + 1>> /\ <<c, m + i + 1>> \in Ahead
          BY <3>5
        <5>2. xfer[a][j] = <<c, m + j + 1>> /\ <<c, m + j + 1>> \in Ahead
          BY <3>5
        <5>3. m + i + 1 < m + j + 1
          BY <3>2, <3>8
        <5> QED
          BY <5>1, <5>2, <5>3
      <4> QED
        BY <1>1, <4>1, AheadInOrder
    <3> QED
      BY <3>4, <3>7, <3>8
  <2>6. CASE ~\E c \in Calls : CodecOf[c] = a /\ Waiting(c)
    <3>1. Unsettled(a) = {}
      BY <2>3, <2>4, <2>6
    <3>2. cmds[a] = 0
      <4>1. CASE \A c \in Calls : CodecOf[c] = a => Idle(c)
        BY <1>1, <4>1 DEF BatchInv, FreeInv, Quiet
      <4>2. ASSUME NEW c \in Calls, CodecOf[c] = a, ~Idle(c) PROVE cmds[a] = 0
        <5>1. CASE Composing(c)
          <6>1. pc[c] = "lock"
            BY <2>1, <4>2, <5>1 DEF Composing, Sending, Idle
          <6>2. at[c] = 0
            BY <1>1, <6>1 DEF BaseInv, AtInv
          <6> QED
            BY <4>2, <5>1, <6>1, <6>2 DEF Composing
        <5>2. CASE Done(c)
          BY <4>2, <5>2 DEF Done, Idle
        <5>3. CASE TurnedAway(c)
          BY <4>2, <5>3 DEF TurnedAway, Idle, Quiet
        <5> QED
          BY <1>1, <2>6, <4>2, <5>1, <5>2, <5>3 DEF BatchInv, Stage
      <4> QED
        BY <4>1, <4>2
    <3>3. 0 .. cmds[a] - 1 = {} /\ cmds[a] \in 0 .. Entries
      BY <3>2, CallAssumption
    <3> QED
      BY <3>1, <3>3
  <2> QED
    BY <2>5, <2>6
<1> QED
  BY <1>1, BaseHolds, FifoHolds, BatchHolds, PTL

\* Batches too are written only into transfers that their callers wait for,
\* at indices of the array; the event is exact, and no wait expires.
THEOREM BatchesAreSound ==
  OneProcessor => (Spec => [](NoneSplit => QueueSound /\ EventExact /\ TimeoutMeansLost))
<1> SUFFICES ASSUME OneProcessor
             PROVE  Spec => [](NoneSplit => QueueSound /\ EventExact /\ TimeoutMeansLost)
  OBVIOUS
<1>1. ASSUME BaseInv, BatchInv PROVE NoWriteAfterReturn
  <2> SUFFICES ASSUME dpc = "credit", xfer[RespCodec][0] # NULL
               PROVE  pc[xfer[RespCodec][0][1]] # "returned"
    BY DEF NoWriteAfterReturn
  <2>1. dpc \in Taken
    BY DEF Taken
  <2>2. PICK c \in Calls, m \in Nat :
          /\ RespCodec = CodecOf[c] /\ pc[c] \in {"wait", "waiting"}
          /\ m < Count[c] /\ Count[c] \in Nat /\ Progress(c, m + 1, m, m)
    BY <1>1, <2>1, BatchServed
  <2>3. m + 1 \in 1 .. Count[c] /\ m + 1 > m /\ (m + 1) - m - 1 = 0
    BY <2>2
  <2>4. xfer[CodecOf[c]][(m + 1) - m - 1] = <<c, m + 1>>
    BY <2>2, <2>3 DEF Progress
  <2>5. xfer[RespCodec][0] = <<c, m + 1>>
    BY <2>2, <2>3, <2>4
  <2> QED
    BY <2>2, <2>5
<1>2. ASSUME BaseInv, BatchInv PROVE SlotInArray
  <2> SUFFICES ASSUME NEW c \in Calls, pc[c] = "post" PROVE slot[c] - 1 \in Slots
    BY DEF SlotInArray
  <2>1. slot[c] = at[c] + 1
    BY <1>2 DEF BatchInv, Stage, Composing, Waiting, Done, TurnedAway
  <2>2. at[c] \in Nat /\ at[c] < Count[c] /\ Count[c] \in Nat /\ Count[c] <= Entries
        /\ Entries \in Nat
    BY <1>2, CallAssumption DEF BaseInv, AtInv, Sending, OneProcessor
  <2> QED
    BY <2>1, <2>2 DEF Slots
<1>3. ASSUME BatchInv PROVE NoStaleEvent
  <2> SUFFICES ASSUME NEW a \in Codecs, event[a]
               PROVE  \E c \in Calls : CodecOf[c] = a
                        /\ pc[c] \in {"check", "reserve", "post", "wait", "waiting", "clear"}
    BY DEF NoStaleEvent
  <2>1. PICK c \in Calls : CodecOf[c] = a /\ ~Idle(c)
    BY <1>3 DEF BatchInv, FreeInv, Quiet
  <2>2. Done(c)
    BY <1>3, <2>1 DEF BatchInv, Stage, Composing, Waiting, Idle, TurnedAway, Quiet
  <2> QED
    BY <2>1, <2>2 DEF Done, Idle
<1>4. ASSUME BatchInv PROVE NoMissedEvent
  <2> SUFFICES ASSUME NEW c \in Calls, pc[c] = "waiting",
                      \A k \in 1 .. Count[c] : input[<<c, k>>] # NULL
               PROVE  dpc \in {"shift", "decrement", "event"} /\ RespCodec = CodecOf[c]
    BY DEF NoMissedEvent
  <2>1. Waiting(c)
    BY <1>4 DEF BatchInv, Stage, Composing, Done, TurnedAway
  <2>2. PICK m \in Nat : m = Settled(c) /\ m <= Count[c] /\ Count[c] \in Nat
    BY <2>1, CallAssumption DEF Waiting, Settled
  <2>3. ASSUME NEW i \in Nat, m < Count[c] PROVE ~Progress(c, i, m, m)
    <3>1. m + 1 \in 1 .. Count[c] /\ ~(m + 1 <= m)
      BY <2>2, <2>3
    <3> QED
      BY <3>1 DEF Progress
  <2>4. Serving(c) /\ dpc # "credit"
    BY <2>1, <2>2, <2>3 DEF Waiting
  <2> QED
    BY <2>4 DEF Serving, Taken, RespCodec
<1>5. ASSUME BaseInv, BatchInv PROVE TimeoutMeansLost
  <2>1. ASSUME NEW c \in Calls PROVE status[c] # "STATUS_IO_TIMEOUT"
    <3>1. CASE pc[c] \in {"out", "returned"}
      BY <1>5, <3>1 DEF BatchInv, Stage, Composing, Waiting, Done, TurnedAway
    <3>2. CASE pc[c] \notin {"out", "returned"}
      BY <1>5, <3>2 DEF BaseInv, AtInv
    <3> QED
      BY <3>1, <3>2
  <2> QED
    BY <2>1 DEF TimeoutMeansLost
<1>6. BaseInv /\ BatchInv => QueueSound /\ EventExact /\ TimeoutMeansLost
  BY <1>1, <1>2, <1>3, <1>4, <1>5 DEF QueueSound, EventExact
<1> QED
  BY <1>6, BaseHolds, BatchHolds, PTL
=============================================================================
