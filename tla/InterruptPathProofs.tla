------------------------- MODULE InterruptPathProofs -------------------------
(***************************************************************************)
(* Theorems about InterruptPath, for every ring size, number of streams    *)
(* and bound on what the controller does.                                  *)
(***************************************************************************)
EXTENDS InterruptPath, TLAPS

LEMMA NextSlotInRing ==
    \A i \in Slots : NextSlot(i) = IF i + 1 = N THEN 0 ELSE i + 1
BY RingAssumption DEF NextSlot, Slots

LEMMA NextSlotType == \A i \in Slots : NextSlot(i) \in Slots
BY NextSlotInRing, RingAssumption DEF Slots

LEMMA ZeroSlot == 0 \in Slots
BY RingAssumption DEF Slots

LEMMA TypeInit == Init => TypeOK
<1> SUFFICES ASSUME Init PROVE TypeOK
  OBVIOUS
<1> USE ZeroSlot, StreamAssumption DEF Init
<1>1. /\ rirbbuf \in [Slots -> Nat] /\ RIRBWP \in Slots
      /\ RIRBSTS \in SUBSET RirbCauses /\ SD_STS \in [Streams -> SUBSET StreamCauses]
      /\ isrTodo \in SUBSET Streams /\ isrSts \in SUBSET (RirbCauses \cup StreamCauses)
  OBVIOUS
<1>2. dpcAt \in 0 .. NumStreams /\ flushTo \in Slots /\ rp \in Slots /\ wp \in Slots
  OBVIOUS
<1>3. /\ irqReceived \in [Streams -> BOOLEAN]
      /\ done \in [Streams -> Nat] /\ seen \in [Streams -> Nat]
  OBVIOUS
<1>4. posted \in Nat /\ delivered \in Seq(Nat)
  OBVIOUS
<1> QED  BY <1>1, <1>2, <1>3, <1>4 DEF TypeOK

LEMMA TypeNext == TypeOK /\ [Next]_vars => TypeOK'
<1> SUFFICES ASSUME TypeOK, [Next]_vars PROVE TypeOK'
  OBVIOUS
<1> USE RingAssumption, StreamAssumption
<1>1. CASE Respond
  BY <1>1, NextSlotType
     DEF Respond, TypeOK, RirbCauses, isrVars, dpcVars, fdoVars
<1>2. CASE RaiseError
  <2>1. /\ RIRBSTS' \in SUBSET RirbCauses
        /\ SD_STS' \in [Streams -> SUBSET StreamCauses]
    BY <1>2 DEF RaiseError, TypeOK, RirbCauses, StreamCauses
  <2>2. UNCHANGED <<rirbbuf, RIRBWP, gone, isrVars, dpcVars, fdoVars, histVars>>
    BY <1>2 DEF RaiseError
  <2> QED
    BY <2>1, <2>2 DEF TypeOK, isrVars, dpcVars, fdoVars, histVars
<1>3. CASE Vanish
  BY <1>3 DEF Vanish, TypeOK, isrVars, dpcVars, fdoVars, histVars
<1>4. ASSUME NEW s \in Streams, Complete(s) PROVE TypeOK'
  BY <1>4 DEF Complete, TypeOK, StreamCauses, isrVars, dpcVars, fdoVars
<1>5. CASE Isr
  <2>1. CASE IsrEnter
    BY <2>1 DEF IsrEnter, TypeOK, IntStreams, hwVars, dpcVars, fdoVars, histVars
  <2>2. CASE IsrQueueStream
    BY <2>2 DEF IsrQueueStream, TypeOK, hwVars, fdoVars, histVars
  <2>3. CASE IsrReadRirb
    BY <2>3 DEF IsrReadRirb, TypeOK, RirbCauses, hwVars, dpcVars, fdoVars, histVars
  <2>4. CASE IsrAckRirb
    BY <2>4 DEF IsrAckRirb, TypeOK, dpcVars, fdoVars, histVars
  <2>5. CASE IsrFlagRirb
    BY <2>5 DEF IsrFlagRirb, TypeOK, hwVars, dpcVars, histVars
  <2>6. CASE IsrQueueRirb
    BY <2>6 DEF IsrQueueRirb, TypeOK, hwVars, fdoVars, histVars
  <2>7. ASSUME NEW s \in Streams, IsrReadStream(s) PROVE TypeOK'
    BY <2>7 DEF IsrReadStream, TypeOK, StreamCauses, RirbCauses, hwVars, dpcVars, fdoVars, histVars
  <2>8. ASSUME NEW s \in Streams, IsrAckStream(s) PROVE TypeOK'
    BY <2>8 DEF IsrAckStream, TypeOK, dpcVars, fdoVars, histVars
  <2>9. ASSUME NEW s \in Streams, IsrFlagStream(s) PROVE TypeOK'
    BY <2>9 DEF IsrFlagStream, TypeOK, hwVars, dpcVars, histVars
  <2> QED  BY <1>5, <2>1, <2>2, <2>3, <2>4, <2>5, <2>6, <2>7, <2>8, <2>9 DEF Isr
<1>6. CASE Dpc
  <2>1. CASE DpcStart
    <3>1. dpcAt' \in 0 .. NumStreams
      BY <2>1 DEF DpcStart
    <3> QED  BY <2>1, <3>1 DEF DpcStart, TypeOK, hwVars, isrVars, fdoVars, histVars
  <2>2. CASE DpcTestStream
    BY <2>2 DEF DpcTestStream, TypeOK, hwVars, isrVars, fdoVars, histVars
  <2>3. CASE DpcClearStream
    BY <2>3 DEF DpcClearStream, TypeOK, hwVars, isrVars, histVars
  <2>4. CASE DpcNotify
    <3>1. dpcAt \in 0 .. NumStreams /\ dpcAt < NumStreams
      BY <2>4 DEF DpcNotify, TypeOK
    <3>2. dpcAt \in Streams /\ dpcAt + 1 \in 0 .. NumStreams
      BY <3>1 DEF Streams
    <3>3. seen' \in [Streams -> Nat] /\ dpcAt' \in 0 .. NumStreams
      BY <2>4, <3>2 DEF DpcNotify, TypeOK
    <3> QED  BY <2>4, <3>3 DEF DpcNotify, TypeOK, hwVars, isrVars, fdoVars
  <2>5. CASE DpcTestRirb
    BY <2>5 DEF DpcTestRirb, TypeOK, hwVars, isrVars, fdoVars, histVars
  <2>6. CASE DpcClearRirb
    BY <2>6 DEF DpcClearRirb, TypeOK, hwVars, isrVars, histVars
  <2>7. CASE FlushReadWp
    BY <2>7 DEF FlushReadWp, TypeOK, hwVars, isrVars, histVars
  <2>8. CASE FlushOne
    BY <2>8, NextSlotType DEF FlushOne, TypeOK, hwVars, isrVars, dpcVars
  <2>9. CASE FlushDone
    BY <2>9 DEF FlushDone, TypeOK, hwVars, isrVars, fdoVars, histVars
  <2> QED  BY <1>6, <2>1, <2>2, <2>3, <2>4, <2>5, <2>6, <2>7, <2>8, <2>9 DEF Dpc
<1>7. CASE D0Exit
  <2>1. delivered' \in Seq(Nat) /\ posted' \in Nat
    BY <1>7 DEF D0Exit
  <2>2. /\ done' \in [Streams -> Nat] /\ seen' \in [Streams -> Nat]
        /\ SD_STS' \in [Streams -> SUBSET StreamCauses]
    BY <1>7 DEF D0Exit
  <2> QED  BY <1>7, <2>1, <2>2 DEF D0Exit, TypeOK, isrVars, dpcVars
<1>8. CASE D0Entry
  BY <1>8, ZeroSlot DEF D0Entry, TypeOK, isrVars, dpcVars, histVars
<1>9. CASE UNCHANGED vars
  BY <1>9 DEF vars, hwVars, isrVars, dpcVars, fdoVars, histVars, TypeOK
<1> QED
  BY <1>1, <1>2, <1>3, <1>4, <1>5, <1>6, <1>7, <1>8, <1>9 DEF Next

(***************************************************************************)
(* Every variable keeps its type.                                          *)
(***************************************************************************)
THEOREM TypeCorrect == Spec => []TypeOK
BY TypeInit, TypeNext, PTL DEF Spec
-----------------------------------------------------------------------------
(* The ring.  Slots are counted from rp: the d-th response that waits is   *)
(* d slots further on, modulo the ring.                                    *)

Ahead(i, d) == IF i + d < N THEN i + d ELSE i + d - N

\* While the controller is enabled, the write pointer is Pending slots ahead
\* of rp, and those slots hold the responses that wait, in order.
WaitingInRing ==
    /\ Pending \in 0 .. MaxPending
    /\ RIRBWP = Ahead(rp, Pending)
    /\ \A d \in 1 .. Pending : rirbbuf[Ahead(rp, d)] = Len(delivered) + d

\* rirb.wp caches where the last flush ended: it is rp itself but for the
\* flush's own loop, whose target lies between rp and the write pointer.
FlushTarget ==
    /\ dpc # "loop" => wp = rp
    /\ dpc = "loop" => wp = flushTo /\ \E e \in 0 .. Pending : flushTo = Ahead(rp, e)

PoweredDown == Quiet /\ posted = 0 /\ delivered = <<>> /\ seen = done

RingInv ==
    /\ TypeOK
    /\ InOrder
    /\ ControllerEnabled => WaitingInRing /\ FlushTarget
    /\ ~ControllerEnabled => PoweredDown

LEMMA AheadFacts ==
    ASSUME NEW i \in Slots, NEW d \in Nat, d < N
    PROVE  /\ Ahead(i, d) \in Slots
           /\ Ahead(i, 0) = i
           /\ Ahead(i, 1) = NextSlot(i) \/ N = 1
           /\ d + 1 < N => NextSlot(Ahead(i, d)) = Ahead(i, d + 1)
           /\ d >= 1 => Ahead(NextSlot(i), d - 1) = Ahead(i, d)
           /\ d >= 1 => Ahead(i, d) # i
           /\ \A e \in Nat : e < d => Ahead(i, e) # Ahead(i, d)
<1>1. NextSlot(i) = IF i + 1 = N THEN 0 ELSE i + 1
  BY NextSlotInRing
<1>2. Ahead(i, d) \in Slots
  BY RingAssumption DEF Ahead, Slots
<1>3. NextSlot(Ahead(i, d)) = IF Ahead(i, d) + 1 = N THEN 0 ELSE Ahead(i, d) + 1
  BY <1>2, NextSlotInRing
<1> QED
  BY <1>1, <1>2, <1>3, RingAssumption DEF Ahead, Slots

LEMMA EmptyLen == Len(<<>>) = 0
OBVIOUS

LEMMA RingInit == Init => RingInv
<1> SUFFICES ASSUME Init PROVE RingInv
  OBVIOUS
<1>1. TypeOK
  BY TypeInit
<1>0. posted = 0 /\ Len(delivered) = 0
  BY EmptyLen DEF Init
<1>2. Pending = 0
  BY <1>0 DEF Pending
<1>3. WaitingInRing
  BY <1>2, RingAssumption DEF WaitingInRing, Ahead, Init
<1>4. FlushTarget /\ InOrder
  BY DEF FlushTarget, InOrder, Init
<1> QED
  BY <1>1, <1>3, <1>4 DEF RingInv, Init

\* A step that leaves the ring, its indices and the history alone, and does
\* not enter or leave the flush's loop.
LEMMA RingFrame ==
    ASSUME RingInv, TypeOK',
           UNCHANGED <<rirbbuf, RIRBWP, ControllerEnabled, rp, wp, posted, delivered, flushTo>>,
           ControllerEnabled,
           dpc' = "loop" <=> dpc = "loop"
    PROVE  RingInv'
<1>1. Pending' = Pending /\ InOrder'
  BY DEF RingInv, Pending, InOrder
<1>2. WaitingInRing'
  BY <1>1 DEF RingInv, WaitingInRing, Ahead
<1>3. FlushTarget'
  BY <1>1 DEF RingInv, FlushTarget, Ahead
<1> QED  BY <1>1, <1>2, <1>3 DEF RingInv

\* The slot the flush's loop reads next holds the response that is due.
LEMMA FlushOneDue ==
    ASSUME RingInv, FlushOne, ControllerEnabled
    PROVE  /\ rp' = Ahead(rp, 1) /\ N # 1
           /\ Pending \in 1 .. MaxPending
           /\ rirbbuf[rp'] = Len(delivered) + 1
           /\ \E e \in 1 .. Pending : flushTo = Ahead(rp, e)
<1>1. /\ WaitingInRing /\ FlushTarget /\ rp \in Slots /\ Pending \in 0 .. MaxPending
  BY DEF RingInv, TypeOK, WaitingInRing
<1>2. dpc = "loop" /\ rp # flushTo /\ rp' = NextSlot(rp)
  BY DEF FlushOne
<1>3. PICK e \in 0 .. Pending : flushTo = Ahead(rp, e)
  BY <1>1, <1>2 DEF FlushTarget
<1>4. e \in 1 .. Pending /\ Pending \in 1 .. MaxPending
  BY <1>1, <1>2, <1>3, RingAssumption, AheadFacts
<1>5. N # 1 /\ Ahead(rp, 1) = rp'
  BY <1>1, <1>2, <1>4, RingAssumption, AheadFacts
<1>6. rirbbuf[rp'] = Len(delivered) + 1
  BY <1>1, <1>4, <1>5 DEF WaitingInRing
<1> QED  BY <1>3, <1>4, <1>5, <1>6

LEMMA RingNext == RingInv /\ [Next]_vars => RingInv'
<1> SUFFICES ASSUME RingInv, [Next]_vars PROVE RingInv'
  OBVIOUS
<1>0. TypeOK /\ TypeOK'
  BY TypeNext DEF RingInv
<1> USE RingAssumption
<1>1. CASE Respond
  <2>1. ControllerEnabled /\ ControllerEnabled' /\ WaitingInRing /\ FlushTarget
    BY <1>1 DEF Respond, Working, fdoVars, RingInv
  <2>2. Pending' = Pending + 1 /\ Pending + 1 \in 1 .. MaxPending /\ posted = Len(delivered) + Pending
    BY <1>0, <1>1, <2>1 DEF Respond, Pending, WaitingInRing, TypeOK
  <2>3. rp \in Slots /\ Pending \in Nat /\ Pending + 1 < N
    BY <1>0, <2>2, <2>1 DEF TypeOK, WaitingInRing
  <2>4. RIRBWP' = Ahead(rp, Pending + 1) /\ rp' = rp /\ delivered' = delivered
    BY <1>1, <2>1, <2>3, AheadFacts DEF Respond, WaitingInRing, fdoVars
  <2>5. ASSUME NEW d \in 1 .. Pending + 1
        PROVE  rirbbuf'[Ahead(rp, d)] = Len(delivered) + d
    <3>1. rirbbuf' = [rirbbuf EXCEPT ![Ahead(rp, Pending + 1)] = posted + 1]
      BY <1>1, <2>4 DEF Respond
    <3>2. Ahead(rp, Pending + 1) \in Slots
      BY <2>3, AheadFacts
    <3>3. CASE d = Pending + 1
      <4>1. rirbbuf'[Ahead(rp, d)] = posted + 1
        BY <3>1, <3>2, <3>3, <1>0 DEF TypeOK
      <4>2. Len(delivered) \in Nat
        BY <1>0 DEF TypeOK
      <4> QED  BY <3>3, <4>1, <4>2, <2>2, <2>3
    <3>4. CASE d \in 1 .. Pending
      <4>1. Ahead(rp, d) \in Slots /\ Ahead(rp, d) # Ahead(rp, Pending + 1)
        BY <3>4, <2>3, AheadFacts
      <4> QED  BY <3>1, <3>4, <4>1, <1>0, <2>1 DEF TypeOK, WaitingInRing
    <3> QED  BY <3>3, <3>4, <2>3
  <2>6. WaitingInRing'
    BY <2>2, <2>4, <2>5 DEF WaitingInRing, Ahead
  <2>7. FlushTarget'
    BY <1>1, <2>1, <2>2, <2>3, <2>4 DEF Respond, FlushTarget, dpcVars, fdoVars, Ahead
  <2> QED  BY <1>0, <2>1, <2>4, <2>6, <2>7 DEF RingInv, InOrder
<1>2. CASE RaiseError
  BY <1>0, <1>2, RingFrame DEF RaiseError, Working, isrVars, dpcVars, fdoVars, histVars
<1>3. CASE Vanish
  BY <1>0, <1>3, RingFrame DEF Vanish, Working, isrVars, dpcVars, fdoVars, histVars
<1>4. ASSUME NEW s \in Streams, Complete(s) PROVE RingInv'
  BY <1>0, <1>4, RingFrame DEF Complete, Working, isrVars, dpcVars, fdoVars
<1>5. CASE Isr
  <2>1. ControllerEnabled
    BY <1>5 DEF RingInv, PoweredDown, Quiet, Isr, IsrEnter, IsrQueueStream, IsrReadRirb,
                IsrAckRirb, IsrFlagRirb, IsrQueueRirb, IsrReadStream, IsrAckStream,
                IsrFlagStream
  <2>2. /\ UNCHANGED <<rirbbuf, RIRBWP, ControllerEnabled, rp, wp, posted, delivered>>
        /\ UNCHANGED <<flushTo, dpc>>
    BY <1>5 DEF Isr, IsrEnter, IsrQueueStream, IsrReadRirb, IsrAckRirb, IsrFlagRirb,
                IsrQueueRirb, IsrReadStream, IsrAckStream, IsrFlagStream, hwVars, dpcVars,
                fdoVars, histVars
  <2> QED  BY <1>0, <2>1, <2>2, RingFrame
<1>6. CASE Dpc
  <2>0. ControllerEnabled
    BY <1>6 DEF RingInv, PoweredDown, Quiet, Dpc, DpcStart, DpcTestStream, DpcClearStream,
                DpcNotify, DpcTestRirb, DpcClearRirb, FlushReadWp, FlushOne, FlushDone
  <2>1. CASE DpcStart
    BY <1>0, <2>0, <2>1, RingFrame DEF DpcStart, hwVars, fdoVars, histVars
  <2>2. CASE DpcTestStream
    BY <1>0, <2>0, <2>2, RingFrame DEF DpcTestStream, hwVars, fdoVars, histVars
  <2>3. CASE DpcClearStream
    BY <1>0, <2>0, <2>3, RingFrame DEF DpcClearStream, hwVars, histVars
  <2>4. CASE DpcNotify
    BY <1>0, <2>0, <2>4, RingFrame DEF DpcNotify, hwVars, fdoVars
  <2>5. CASE DpcTestRirb
    BY <1>0, <2>0, <2>5, RingFrame DEF DpcTestRirb, hwVars, fdoVars, histVars
  <2>6. CASE DpcClearRirb
    BY <1>0, <2>0, <2>6, RingFrame DEF DpcClearRirb, hwVars, histVars
  <2>7. CASE FlushReadWp
    <3>1. /\ UNCHANGED <<rirbbuf, RIRBWP, ControllerEnabled, rp, posted, delivered>>
          /\ dpc # "loop" /\ wp = rp /\ Pending \in Nat /\ RIRBWP = Ahead(rp, Pending)
      BY <2>0, <2>7 DEF FlushReadWp, hwVars, histVars, RingInv, FlushTarget, WaitingInRing
    <3>2. Pending' = Pending /\ InOrder' /\ WaitingInRing'
      BY <2>0, <3>1 DEF RingInv, Pending, InOrder, WaitingInRing, Ahead
    <3>3. FlushTarget'
      <4>1. CASE gone \/ RIRBWP = wp
        BY <2>7, <4>1, <3>1 DEF FlushReadWp, FlushTarget
      <4>2. CASE ~(gone \/ RIRBWP = wp)
        <5>1. dpc' = "loop" /\ wp' = flushTo' /\ flushTo' = Ahead(rp', Pending')
          BY <2>7, <4>2, <3>1, <3>2 DEF FlushReadWp, Ahead
        <5>2. Pending' \in 0 .. Pending'
          BY <3>1, <3>2
        <5> QED  BY <5>1, <5>2 DEF FlushTarget, Ahead
      <4> QED  BY <4>1, <4>2
    <3> QED  BY <1>0, <2>0, <3>1, <3>2, <3>3 DEF RingInv
  <2>8. CASE FlushOne
    <3>1. /\ WaitingInRing /\ FlushTarget /\ rp \in Slots /\ delivered \in Seq(Nat)
          /\ rirbbuf \in [Slots -> Nat] /\ Pending \in 0 .. MaxPending /\ posted \in Nat
      BY <1>0, <2>0 DEF RingInv, TypeOK, WaitingInRing
    <3>2. /\ UNCHANGED <<rirbbuf, RIRBWP, ControllerEnabled, wp, posted, flushTo, dpc>>
          /\ dpc = "loop" /\ rp # flushTo /\ rp' = NextSlot(rp)
          /\ delivered' = Append(delivered, rirbbuf[rp'])
      BY <2>8 DEF FlushOne, hwVars, dpcVars
    <3>3. /\ rp' = Ahead(rp, 1) /\ N # 1
          /\ Pending \in 1 .. MaxPending
          /\ rirbbuf[rp'] = Len(delivered) + 1
      BY <2>0, <2>8, FlushOneDue
    <3>4. PICK e \in 1 .. Pending : flushTo = Ahead(rp, e)
      BY <2>0, <2>8, FlushOneDue
    <3>7. /\ Len(delivered') = Len(delivered) + 1 /\ Len(delivered) \in Nat
          /\ \A i \in 1 .. Len(delivered) : delivered'[i] = delivered[i]
          /\ delivered'[Len(delivered) + 1] = Len(delivered) + 1
      BY <3>1, <3>2, <3>3
    <3>8. InOrder'
      BY <3>7 DEF RingInv, InOrder
    <3>9. Pending' = Pending - 1
      BY <3>1, <3>2, <3>7 DEF Pending
    <3>10. \A d \in 1 .. Pending : Ahead(rp', d - 1) = Ahead(rp, d)
      BY <3>1, <3>2, AheadFacts
    <3>11. RIRBWP' = Ahead(rp', Pending') /\ flushTo' = Ahead(rp', e - 1)
      BY <3>1, <3>2, <3>3, <3>4, <3>9, <3>10 DEF WaitingInRing
    <3>12. ASSUME NEW d \in 1 .. Pending'
           PROVE  rirbbuf'[Ahead(rp', d)] = Len(delivered') + d
      <4>1. d + 1 \in 1 .. Pending /\ d \in Nat
        BY <3>1, <3>9
      <4>2. Ahead(rp', d) = Ahead(rp, d + 1)
        BY <3>10, <4>1
      <4>3. rirbbuf[Ahead(rp, d + 1)] = Len(delivered) + (d + 1)
        BY <3>1, <4>1 DEF WaitingInRing
      <4> QED  BY <3>2, <3>7, <4>1, <4>2, <4>3
    <3>13. WaitingInRing'
      BY <3>3, <3>9, <3>11, <3>12 DEF WaitingInRing, Ahead
    <3>14. e - 1 \in 0 .. Pending'
      BY <3>3, <3>4, <3>9
    <3>15. FlushTarget'
      BY <3>1, <3>2, <3>11, <3>14 DEF FlushTarget, Ahead
    <3> QED  BY <1>0, <2>0, <3>2, <3>8, <3>13, <3>15 DEF RingInv
  <2>9. CASE FlushDone
    <3>1. /\ UNCHANGED <<rirbbuf, RIRBWP, ControllerEnabled, rp, wp, posted, delivered>>
          /\ dpc' # "loop" /\ wp = rp
      BY <2>0, <2>9 DEF FlushDone, hwVars, fdoVars, histVars, RingInv, FlushTarget
    <3>2. Pending' = Pending /\ InOrder' /\ WaitingInRing' /\ FlushTarget'
      BY <2>0, <3>1 DEF RingInv, Pending, InOrder, WaitingInRing, FlushTarget, Ahead
    <3> QED  BY <1>0, <2>0, <3>1, <3>2 DEF RingInv
  <2> QED
    BY <1>6, <2>1, <2>2, <2>3, <2>4, <2>5, <2>6, <2>7, <2>8, <2>9 DEF Dpc
<1>7. CASE D0Exit
  BY <1>0, <1>7 DEF D0Exit, RingInv, PoweredDown, Quiet, InOrder, isrVars, dpcVars
<1>8. CASE D0Entry
  <2>1. /\ posted' = 0 /\ delivered' = <<>> /\ RIRBWP' = 0 /\ rp' = 0 /\ wp' = 0
        /\ dpc' # "loop" /\ ControllerEnabled'
    BY <1>8 DEF D0Entry, RingInv, PoweredDown, Quiet, dpcVars, histVars
  <2>2. Pending' = 0
    <3>1. posted' = 0 /\ Len(delivered') = 0
      BY <2>1, EmptyLen
    <3> QED  BY <3>1 DEF Pending
  <2>3. WaitingInRing' /\ FlushTarget' /\ InOrder'
    BY <2>1, <2>2 DEF WaitingInRing, FlushTarget, InOrder, Ahead
  <2> QED  BY <1>0, <2>1, <2>3 DEF RingInv
<1>9. CASE UNCHANGED vars
  <2>1. CASE ControllerEnabled
    BY <1>0, <1>9, <2>1, RingFrame DEF vars, hwVars, dpcVars, fdoVars, histVars
  <2>2. CASE ~ControllerEnabled
    BY <1>0, <1>9, <2>2 DEF vars, isrVars, dpcVars, fdoVars, histVars, RingInv, PoweredDown,
                            Quiet, InOrder
  <2> QED  BY <2>1, <2>2
<1> QED
  BY <1>1, <1>2, <1>3, <1>4, <1>5, <1>6, <1>7, <1>8, <1>9 DEF Next

(***************************************************************************)
(* HDAFlushRIRB dispatches the k-th response as the k-th, whatever the     *)
(* size of the ring, as long as fewer than N responses wait in it.         *)
(***************************************************************************)
THEOREM DeliveryInOrder == Spec => []InOrder
<1>1. RingInv => InOrder
  BY DEF RingInv
<1> QED  BY <1>1, RingInit, RingNext, PTL DEF Spec
-----------------------------------------------------------------------------
(***************************************************************************)
(* The ring with its ISR and DPC implements the abstract channel: a        *)
(* response posted by the controller is a Post, one turn of the flush's    *)
(* loop a Deliver, D0Exit a Reset, and every other step a stutter.         *)
(***************************************************************************)
THEOREM PathImplementsChannel == Spec => ImplementsChannel
<1>1. Init => Channel!ChanInit
  BY DEF Init, Channel!ChanInit
<1>2. RingInv /\ [Next]_vars => [Channel!ChanNext]_(Channel!chanVars)
  <2> SUFFICES ASSUME RingInv, [Next]_vars,
                      ~UNCHANGED <<posted, delivered>>
               PROVE  Channel!ChanNext
    BY DEF Channel!chanVars
  <2>1. CASE Respond
    BY <2>1 DEF Respond, Channel!ChanNext, Channel!Post
  <2>2. CASE FlushOne
    <3>1. ControllerEnabled
      BY <2>2 DEF FlushOne, RingInv, PoweredDown, Quiet
    <3>2. Pending >= 1 /\ posted \in Nat /\ Len(delivered) \in Nat
      BY <2>2, <3>1, FlushOneDue, RingAssumption DEF RingInv, TypeOK
    <3>3. Len(delivered) < posted
      BY <3>2 DEF Pending
    <3> QED
      BY <2>2, <3>1, <3>3, FlushOneDue DEF FlushOne, Channel!ChanNext, Channel!Deliver
  <2>3. CASE D0Exit
    BY <2>3 DEF D0Exit, Channel!ChanNext, Channel!Reset
  <2>4. CASE RaiseError \/ Vanish \/ (\E s \in Streams : Complete(s)) \/ Isr \/ D0Entry
    BY <2>4 DEF RaiseError, Vanish, Complete, D0Entry, Isr, IsrEnter, IsrQueueStream,
         IsrReadRirb, IsrAckRirb, IsrFlagRirb, IsrQueueRirb, IsrReadStream, IsrAckStream,
         IsrFlagStream, histVars
  <2>5. CASE Dpc /\ ~FlushOne
    BY <2>5 DEF Dpc, DpcStart, DpcTestStream, DpcClearStream, DpcNotify, DpcTestRirb,
         DpcClearRirb, FlushReadWp, FlushDone, histVars
  <2> QED
    BY <2>1, <2>2, <2>3, <2>4, <2>5 DEF Next, vars, histVars, Dpc
<1> QED
  BY <1>1, <1>2, RingInit, RingNext, PTL DEF Spec, ImplementsChannel, Channel!ChanSpec
-----------------------------------------------------------------------------
(* Handing work over.  What the ISR holds between reading a status and     *)
(* acknowledging it: without errors the only cause it can have read is the *)
(* one it acts on.                                                         *)

IsrInv ==
    ~Errors =>
      /\ RIRBSTS \subseteq {"response"}
      /\ \A s \in Streams : SD_STS[s] \subseteq {"complete"}
      /\ isr \in {"stream", "streamAck"} /\ ~gone =>
            \A s \in isrTodo : SD_STS[s] # {}
      /\ isr = "streamFlag" /\ ~gone =>
            \A s \in isrTodo : Visits(s) \/ SD_STS[s] # {}
      /\ isr \in {"streamAck", "streamFlag"} => "complete" \in isrSts
      /\ isr = "rirbAck" => "response" \in isrSts

HandoverInv == RingInv /\ IsrInv /\ NoLostResponse

LEMMA IsrInvInit == Init => IsrInv
BY DEF Init, IsrInv

LEMMA IsrInvNext == RingInv /\ IsrInv /\ [Next]_vars => IsrInv'
<1> SUFFICES ASSUME TypeOK, ~ControllerEnabled => PoweredDown,
                    IsrInv, [Next]_vars, ~Errors
             PROVE  IsrInv'
  BY DEF IsrInv, RingInv
<1> USE DEF Visits
<1>1. CASE Respond \/ Vanish \/ D0Entry
  <2>1. CASE Respond
    BY <2>1 DEF Respond, IsrInv, isrVars
  <2>2. CASE Vanish
    BY <2>2 DEF Vanish, IsrInv, isrVars
  <2>3. CASE D0Entry
    BY <2>3 DEF D0Entry, PoweredDown, Quiet, IsrInv, isrVars
  <2> QED  BY <1>1, <2>1, <2>2, <2>3
<1>2. CASE RaiseError
  BY <1>2 DEF RaiseError
<1>3. ASSUME NEW s \in Streams, Complete(s) PROVE IsrInv'
  BY <1>3 DEF Complete, IsrInv, isrVars, TypeOK
<1>4. CASE Isr
  <2>1. CASE IsrEnter
    BY <2>1 DEF IsrEnter, IsrInv, IntStreams, hwVars
  <2>2. CASE IsrQueueStream \/ IsrFlagRirb \/ IsrQueueRirb
    BY <2>2 DEF IsrQueueStream, IsrFlagRirb, IsrQueueRirb, IsrInv, hwVars
  <2>3. CASE IsrReadRirb
    BY <2>3 DEF IsrReadRirb, IsrInv, RirbCauses, hwVars
  <2>4. CASE IsrAckRirb
    BY <2>4 DEF IsrAckRirb, IsrInv
  <2>5. ASSUME NEW s \in Streams, IsrReadStream(s) PROVE IsrInv'
    BY <2>5 DEF IsrReadStream, Visits, IsrInv, StreamCauses, hwVars
  <2>6. ASSUME NEW s \in Streams, IsrAckStream(s) PROVE IsrInv'
    <3>1. /\ \A t \in Streams : SD_STS'[t] \subseteq {"complete"}
          /\ \A t \in isrTodo : t = s \/ SD_STS'[t] = SD_STS[t]
      BY <2>6 DEF IsrAckStream, IsrInv, TypeOK
    <3>2. /\ UNCHANGED <<gone, RIRBSTS, isrTodo, isrSts>> /\ Visits(s)
          /\ isr = "streamAck" /\ isr' = "streamFlag"
      BY <2>6 DEF IsrAckStream
    <3> QED  BY <3>1, <3>2 DEF IsrInv
  <2>7. ASSUME NEW s \in Streams, IsrFlagStream(s) PROVE IsrInv'
    <3>1. /\ UNCHANGED <<SD_STS, RIRBSTS, gone>> /\ isrTodo' = isrTodo \ {s} /\ Visits(s)
          /\ isr = "streamFlag" /\ isr' \in {"stream", "streamQueue"}
      BY <2>7 DEF IsrFlagStream, hwVars
    <3>2. \A t \in isrTodo : Visits(t) => t = s
      BY <3>1, StreamAssumption DEF TypeOK, Streams
    <3> QED  BY <3>1, <3>2 DEF IsrInv
  <2> QED  BY <1>4, <2>1, <2>2, <2>3, <2>4, <2>5, <2>6, <2>7 DEF Isr
<1>5. CASE Dpc
  BY <1>5 DEF Dpc, DpcStart, DpcTestStream, DpcClearStream, DpcNotify, DpcTestRirb,
              DpcClearRirb, FlushReadWp, FlushOne, FlushDone, hwVars, isrVars, IsrInv
<1>6. CASE D0Exit
  BY <1>6 DEF D0Exit, Quiet, IsrInv, isrVars
<1>7. CASE UNCHANGED vars
  BY <1>7 DEF vars, hwVars, isrVars, IsrInv
<1> QED
  BY <1>1, <1>2, <1>3, <1>4, <1>5, <1>6, <1>7 DEF Next

\* When the write pointer is where the driver stopped reading, nothing waits.
LEMMA CaughtUp ==
    ASSUME RingInv, ControllerEnabled, RIRBWP = rp
    PROVE  Len(delivered) = posted
<1>1. RIRBWP = Ahead(rp, Pending) /\ rp \in Slots
  BY DEF RingInv, WaitingInRing, TypeOK
<1>2. Pending \in Nat /\ Pending < N
  <2>1. Pending \in 0 .. MaxPending
    BY DEF RingInv, WaitingInRing
  <2> QED  BY <2>1, RingAssumption
<1>3. ~(Pending >= 1)
  BY <1>1, <1>2, AheadFacts
<1>4. Len(delivered) \in Nat /\ posted \in Nat
  BY DEF RingInv, TypeOK
<1> QED  BY <1>2, <1>3, <1>4 DEF Pending

LEMMA HandoverNext == HandoverInv /\ [Next]_vars => HandoverInv'
<1> SUFFICES ASSUME HandoverInv, [Next]_vars PROVE NoLostResponse'
  BY RingNext, IsrInvNext DEF HandoverInv, RingInv
<1>0. RingInv /\ RingInv' /\ IsrInv /\ NoLostResponse
  BY RingNext DEF HandoverInv
<1> SUFFICES ASSUME ~Errors, Working', Len(delivered') < posted'
             PROVE  \/ "response" \in RIRBSTS'
                    \/ isr' = "rirbAck" \/ isr' = "rirbFlag"
                    \/ processRirb' /\ (isr' = "rirbQueue" \/ DpcComing')
                    \/ dpc' = "flush"
                    \/ dpc' = "loop" /\ flushTo' = RIRBWP'
  BY DEF NoLostResponse
<1>1. CASE Respond
  BY <1>1 DEF Respond
<1>2. CASE RaiseError \/ Vanish
  BY <1>2 DEF RaiseError, Vanish, Working
<1>3. ASSUME NEW s \in Streams, Complete(s) PROVE NoLostResponse'
  BY <1>0, <1>3 DEF Complete, NoLostResponse, Working, DpcComing, isrVars, dpcVars, fdoVars
<1>4. CASE Isr
  <2>0. UNCHANGED <<gone, ControllerEnabled, posted, delivered>>
    BY <1>4 DEF Isr, IsrEnter, IsrQueueStream, IsrReadRirb, IsrAckRirb, IsrFlagRirb,
         IsrQueueRirb, IsrReadStream, IsrAckStream, IsrFlagStream, hwVars, fdoVars, histVars
  <2>1. ~Errors /\ Working /\ Len(delivered) < posted
    BY <2>0 DEF Working
  <2>2. CASE \/ IsrEnter \/ IsrQueueStream
             \/ \E s \in Streams : IsrReadStream(s) \/ IsrAckStream(s) \/ IsrFlagStream(s)
    BY <1>0, <2>1, <2>2 DEF NoLostResponse, DpcComing, IsrEnter, IsrQueueStream, IsrReadStream,
         IsrAckStream, IsrFlagStream, hwVars, dpcVars, fdoVars
  <2>3. CASE IsrReadRirb
    BY <1>0, <2>1, <2>3 DEF NoLostResponse, DpcComing, IsrReadRirb, Working, hwVars, dpcVars, fdoVars
  <2>4. CASE IsrAckRirb
    BY <1>0, <2>4 DEF IsrAckRirb, IsrInv
  <2>5. CASE IsrFlagRirb
    BY <1>0, <2>1, <2>5 DEF NoLostResponse, DpcComing, IsrFlagRirb, hwVars, dpcVars
  <2>6. CASE IsrQueueRirb
    BY <1>0, <2>1, <2>6 DEF NoLostResponse, DpcComing, IsrQueueRirb, hwVars, fdoVars
  <2> QED  BY <1>4, <2>2, <2>3, <2>4, <2>5, <2>6 DEF Isr
<1>5. CASE Dpc
  <2>0. UNCHANGED <<gone, ControllerEnabled>>
    BY <1>5 DEF Dpc, DpcStart, DpcTestStream, DpcClearStream, DpcNotify, DpcTestRirb,
         DpcClearRirb, FlushReadWp, FlushOne, FlushDone, hwVars, fdoVars
  <2>1. ~Errors /\ Working
    BY <2>0 DEF Working
  <2>2. CASE DpcStart \/ DpcTestStream \/ DpcClearStream \/ DpcNotify \/ DpcTestRirb
    BY <1>0, <2>1, <2>2 DEF DpcStart, DpcTestStream, DpcClearStream, DpcNotify, DpcTestRirb,
         NoLostResponse, DpcComing, hwVars, isrVars, fdoVars, histVars
  <2>3. CASE DpcClearRirb
    BY <2>3 DEF DpcClearRirb
  <2>4. CASE FlushReadWp
    <3>1. CASE RIRBWP = wp
      <4>1. RIRBWP = rp /\ ControllerEnabled /\ UNCHANGED <<delivered, posted>>
        BY <1>0, <2>1, <2>4, <3>1 DEF FlushReadWp, RingInv, FlushTarget, Working, histVars
      <4>2. Len(delivered) = posted /\ posted \in Nat
        BY <1>0, <4>1, CaughtUp DEF RingInv, TypeOK
      <4> QED  BY <4>1, <4>2
    <3>2. CASE RIRBWP # wp
      BY <2>1, <2>4, <3>2 DEF FlushReadWp, Working, hwVars
    <3> QED  BY <3>1, <3>2
  <2>5. CASE FlushOne
    <3>1. Len(delivered) < posted
      <4>1. Pending \in 1 .. MaxPending
        BY <1>0, <2>1, <2>5, FlushOneDue DEF Working
      <4>2. Len(delivered) \in Nat /\ posted \in Nat
        BY <1>0 DEF RingInv, TypeOK
      <4> QED  BY <4>1, <4>2, RingAssumption DEF Pending
    <3> QED
      BY <1>0, <2>1, <2>5, <3>1 DEF FlushOne, NoLostResponse, DpcComing, hwVars, isrVars, dpcVars
  <2>6. CASE FlushDone
    <3>1. Len(delivered) < posted /\ ControllerEnabled /\ posted \in Nat
      BY <1>0, <2>1, <2>6 DEF FlushDone, Working, histVars, RingInv, TypeOK
    <3>2. RIRBWP # flushTo
      BY <1>0, <2>6, <3>1, CaughtUp DEF FlushDone
    <3> QED
      BY <1>0, <2>1, <2>6, <3>1, <3>2
         DEF FlushDone, NoLostResponse, DpcComing, hwVars, isrVars, fdoVars
  <2> QED  BY <1>5, <2>2, <2>3, <2>4, <2>5, <2>6 DEF Dpc
<1>6. CASE D0Exit
  BY <1>6 DEF D0Exit, Working
<1>7. CASE D0Entry
  <2>1. Len(delivered') = posted' /\ posted' \in Nat
    BY <1>0, <1>7, EmptyLen DEF D0Entry, RingInv, PoweredDown, histVars
  <2> QED  BY <2>1
<1>8. CASE UNCHANGED vars
  BY <1>0, <1>8 DEF vars, hwVars, isrVars, dpcVars, fdoVars, histVars, NoLostResponse,
                    DpcComing, Working
<1> QED
  BY <1>1, <1>2, <1>3, <1>4, <1>5, <1>6, <1>7, <1>8 DEF Next, NoLostResponse

(***************************************************************************)
(* No response is forgotten between the ISR and the DPC.                   *)
(***************************************************************************)
THEOREM ResponsesKept == Spec => []NoLostResponse
<1>1. Init => HandoverInv
  BY RingInit, IsrInvInit, EmptyLen DEF HandoverInv, NoLostResponse, Init
<1>2. HandoverInv => NoLostResponse
  BY DEF HandoverInv
<1> QED  BY <1>1, <1>2, HandoverNext, PTL DEF Spec
-----------------------------------------------------------------------------
(* The same argument for one stream. *)

\* Where a completion that stream s owes its clients can be.
Held(s) ==
    \/ "complete" \in SD_STS[s]
    \/ isr = "streamFlag" /\ Visits(s)
    \/ irqReceived[s] /\ (isr \in IsrInStreams \/ dpcQueued)
    \/ irqReceived[s] /\ dpc \in {"streams", "streamClear", "notify"} /\ dpcAt <= s
    \/ dpc = "notify" /\ dpcAt = s

LEMMA HeldKept ==
    ASSUME RingInv, IsrInv, [Next]_vars, ~Errors, Working', NEW s \in Streams,
           seen'[s] < done'[s],
           Working /\ seen[s] < done[s] => Held(s)
    PROVE  Held(s)'
<1> USE DEF Visits, IsrInStreams
<1>0. TypeOK /\ TypeOK'
  BY TypeNext DEF RingInv
<1>a. s \in Int /\ dpcAt \in Int /\ s < NumStreams /\ NumStreams \in Int
  BY <1>0, StreamAssumption DEF TypeOK, Streams
<1>1. CASE Respond \/ RaiseError \/ Vanish
  BY <1>1 DEF Respond, RaiseError, Vanish, Held, Working, isrVars, dpcVars, fdoVars, histVars
<1>2. ASSUME NEW t \in Streams, Complete(t) PROVE Held(s)'
  <2>1. CASE t = s
    BY <1>0, <1>2, <2>1 DEF Complete, Held, TypeOK
  <2>2. CASE t # s
    BY <1>0, <1>2, <2>2 DEF Complete, Held, TypeOK, Working, isrVars, dpcVars, fdoVars
  <2> QED  BY <2>1, <2>2
<1>3. CASE Isr
  <2>0. UNCHANGED <<gone, ControllerEnabled, seen, done, dpc, dpcAt>>
    BY <1>3 DEF Isr, IsrEnter, IsrQueueStream, IsrReadRirb, IsrAckRirb, IsrFlagRirb,
         IsrQueueRirb, IsrReadStream, IsrAckStream, IsrFlagStream, hwVars, dpcVars, fdoVars,
         histVars
  <2>1. Held(s)
    BY <2>0 DEF Working
  <2>2. CASE IsrEnter
    BY <2>1, <2>2 DEF IsrEnter, Held, hwVars, dpcVars, fdoVars
  <2>3. CASE IsrQueueStream
    BY <2>1, <2>3 DEF IsrQueueStream, Held, hwVars, fdoVars
  <2>4. CASE IsrReadRirb \/ IsrAckRirb \/ IsrFlagRirb
    BY <2>1, <2>4 DEF IsrReadRirb, IsrAckRirb, IsrFlagRirb, Held, hwVars, dpcVars, fdoVars
  <2>5. CASE IsrQueueRirb
    BY <2>1, <2>5 DEF IsrQueueRirb, Held, hwVars, fdoVars
  <2>6. ASSUME NEW t \in Streams, IsrReadStream(t) PROVE Held(s)'
    BY <2>1, <2>6 DEF IsrReadStream, Held, hwVars, dpcVars, fdoVars
  <2>7. ASSUME NEW t \in Streams, IsrAckStream(t) PROVE Held(s)'
    <3>1. /\ isr = "streamAck" /\ isr' = "streamFlag" /\ Visits(t)
          /\ UNCHANGED <<dpcQueued, isrTodo, irqReceived>>
      BY <2>7 DEF IsrAckStream, dpcVars, fdoVars
    <3>2. CASE t = s
      BY <3>1, <3>2 DEF Held
    <3>3. CASE t # s
      <4>1. SD_STS'[s] = SD_STS[s]
        BY <1>0, <2>7, <3>3 DEF IsrAckStream, TypeOK
      <4> QED  BY <2>0, <2>1, <3>1, <4>1 DEF Held
    <3> QED  BY <3>2, <3>3
  <2>8. ASSUME NEW t \in Streams, IsrFlagStream(t) PROVE Held(s)'
    <3>1. /\ isr = "streamFlag" /\ isr' \in {"stream", "streamQueue"} /\ Visits(t)
          /\ UNCHANGED <<dpcQueued, SD_STS>>
      BY <2>8 DEF IsrFlagStream, dpcVars, hwVars
    <3>2. CASE t = s
      <4>1. "complete" \in isrSts
        BY <3>1 DEF IsrInv
      <4>2. irqReceived'[s]
        BY <1>0, <2>8, <3>2, <4>1 DEF IsrFlagStream, TypeOK
      <4> QED  BY <3>1, <4>2 DEF Held
    <3>3. CASE t # s
      <4>1. irqReceived'[s] = irqReceived[s]
        BY <1>0, <2>8, <3>3 DEF IsrFlagStream, TypeOK
      <4>2. ~Visits(s)
        BY <1>0, <3>1, <3>3, StreamAssumption DEF Streams, TypeOK
      <4> QED  BY <2>0, <2>1, <3>1, <4>1, <4>2 DEF Held
    <3> QED  BY <3>2, <3>3
  <2> QED  BY <1>3, <2>2, <2>3, <2>4, <2>5, <2>6, <2>7, <2>8 DEF Isr
<1>4. CASE Dpc
  <2>0. UNCHANGED <<gone, ControllerEnabled, done, SD_STS, isr, isrTodo>>
    BY <1>4 DEF Dpc, DpcStart, DpcTestStream, DpcClearStream, DpcNotify, DpcTestRirb,
         DpcClearRirb, FlushReadWp, FlushOne, FlushDone, hwVars, isrVars, fdoVars, histVars
  <2>1. CASE DpcStart
    <3>1. Held(s) /\ 0 <= s
      BY <2>0, <2>1 DEF DpcStart, Working, Streams, histVars
    <3> QED  BY <2>0, <2>1, <3>1 DEF DpcStart, Held, fdoVars
  <2>2. CASE DpcTestStream
    <3>1. Held(s)
      BY <2>0, <2>2 DEF DpcTestStream, Working, histVars
    <3>2. CASE irqReceived[dpcAt]
      BY <2>0, <2>2, <3>1, <3>2 DEF DpcTestStream, Held, fdoVars
    <3>3. CASE ~irqReceived[dpcAt]
      <4>1. irqReceived[s] => (dpcAt <= s => dpcAt + 1 <= s)
        BY <1>a, <3>3
      <4> QED  BY <2>0, <2>2, <3>1, <3>3, <4>1 DEF DpcTestStream, Held, fdoVars
    <3> QED  BY <3>2, <3>3
  <2>3. CASE DpcClearStream
    <3>1. Held(s)
      BY <2>0, <2>3 DEF DpcClearStream, Working, histVars
    <3>2. dpc = "streamClear" /\ dpc' = "notify" /\ UNCHANGED <<dpcAt, dpcQueued>>
      BY <2>3 DEF DpcClearStream
    <3>3. CASE dpcAt = s
      BY <3>2, <3>3 DEF Held
    <3>4. CASE dpcAt # s
      <4>1. irqReceived'[s] = irqReceived[s]
        BY <1>0, <2>3, <3>4 DEF DpcClearStream, TypeOK
      <4> QED  BY <2>0, <3>1, <3>2, <4>1 DEF Held
    <3> QED  BY <3>3, <3>4
  <2>4. CASE DpcNotify
    <3>1. dpc = "notify" /\ dpc' = "streams" /\ dpcAt' = dpcAt + 1
          /\ UNCHANGED <<dpcQueued, irqReceived>>
      BY <2>4 DEF DpcNotify, fdoVars
    <3>2. dpcAt # s
      <4>1. dpcAt = s => seen'[s] = done[s]
        BY <1>0, <2>4 DEF DpcNotify, TypeOK
      <4>2. done[s] \in Nat
        BY <1>0 DEF TypeOK
      <4> QED  BY <2>0, <4>1, <4>2
    <3>3. seen'[s] = seen[s]
      BY <1>0, <2>4, <3>2 DEF DpcNotify, TypeOK
    <3>4. Held(s)
      BY <2>0, <3>3 DEF Working
    <3>5. dpcAt <= s => dpcAt + 1 <= s
      BY <1>a, <3>2
    <3> QED  BY <2>0, <3>1, <3>2, <3>4, <3>5 DEF Held
  <2>5. CASE DpcTestRirb
    <3>1. Held(s) /\ ~(dpcAt <= s)
      BY <1>a, <2>0, <2>5 DEF DpcTestRirb, Working, histVars
    <3> QED  BY <2>0, <2>5, <3>1 DEF DpcTestRirb, Held, fdoVars
  <2>6. CASE DpcClearRirb \/ FlushReadWp \/ FlushOne \/ FlushDone
    <3>1. /\ UNCHANGED <<seen, irqReceived, dpcQueued>>
          /\ dpc \in {"rirbClear", "flush", "loop"}
      BY <2>6 DEF DpcClearRirb, FlushReadWp, FlushOne, FlushDone, dpcVars, fdoVars, histVars
    <3>2. Held(s)
      BY <2>0, <3>1 DEF Working
    <3> QED  BY <2>0, <3>1, <3>2 DEF Held
  <2> QED  BY <1>4, <2>1, <2>2, <2>3, <2>4, <2>5, <2>6 DEF Dpc
<1>5. CASE D0Exit
  BY <1>5 DEF D0Exit, Working
<1>6. CASE D0Entry
  <2>1. seen'[s] = done'[s] /\ done'[s] \in Nat
    BY <1>0, <1>6 DEF D0Entry, histVars, TypeOK, RingInv, PoweredDown
  <2> QED  BY <2>1
<1>7. CASE UNCHANGED vars
  BY <1>7 DEF vars, hwVars, isrVars, dpcVars, fdoVars, histVars, Held, Working
<1> QED
  BY <1>1, <1>2, <1>3, <1>4, <1>5, <1>6, <1>7 DEF Next

(***************************************************************************)
(* No buffer completion is forgotten between the ISR and the DPC.          *)
(***************************************************************************)
THEOREM CompletionsKept == Spec => []NoLostCompletion
<1> DEFINE KInv == RingInv /\ IsrInv /\ NoLostCompletion
<1>1. Init => KInv
  <2> SUFFICES ASSUME Init PROVE NoLostCompletion
    BY RingInit, IsrInvInit
  <2>1. \A s \in Streams : seen[s] = 0 /\ done[s] = 0
    BY DEF Init
  <2> QED  BY <2>1 DEF NoLostCompletion
<1>2. KInv /\ [Next]_vars => KInv'
  <2> SUFFICES ASSUME KInv, [Next]_vars PROVE NoLostCompletion'
    BY RingNext, IsrInvNext
  <2> SUFFICES ASSUME ~Errors, Working', NEW s \in Streams, seen'[s] < done'[s]
               PROVE  Held(s)'
    BY DEF NoLostCompletion, Held
  <2>1. Working /\ seen[s] < done[s] => Held(s)
    BY DEF NoLostCompletion, Held
  <2> QED  BY <2>1, HeldKept
<1>3. KInv => NoLostCompletion
  OBVIOUS
<1> QED  BY <1>1, <1>2, <1>3, PTL DEF Spec

\* Nothing is forgotten: both theorems together.
THEOREM WorkKept == Spec => []NothingForgotten
<1>1. NoLostResponse /\ NoLostCompletion => NothingForgotten
  BY DEF NothingForgotten
<1> QED
  BY <1>1, ResponsesKept, CompletionsKept, PTL
=============================================================================
