---------------------------- MODULE InterruptPath ----------------------------
(***************************************************************************)
(* From the controller's interrupt to the driver's deferred procedure call *)
(* (hdac_controller.cpp: hda_interrupt, hda_stream_interrupt, hda_dpc,     *)
(* HDAFlushRIRB) and the reset of both in D0Entry / D0Exit (fdo.cpp).      *)
(*                                                                         *)
(* Four parties interleave:                                                *)
(*   - the controller writes responses to the RIRB ring and raises RIRBSTS *)
(*     and the streams' SD_STS;                                            *)
(*   - the ISR reads the status registers, acknowledges them by writing    *)
(*     ones, leaves processRirb / irqReceived behind and queues the DPC;   *)
(*   - the DPC, which holds no lock, clears the flags and acts on them;    *)
(*   - the framework powers the device down and up; it does so only while  *)
(*     neither the ISR nor the DPC can run.                                *)
(* Every access to state shared between two parties is a step of its own.  *)
(*                                                                         *)
(* Responses are numbered as the controller posts them; what the DPC does  *)
(* with one (HDAFlushRIRB's dispatch) is the subject of CodecTransfer.     *)
(* Overrunning the ring is outside the model: at most MaxPending < N       *)
(* responses wait in it (the code keeps no count of its own).              *)
(***************************************************************************)
EXTENDS Integers, Sequences

CONSTANTS
    N,          \* HDA_MAX_RIRB_ENTRIES
    NumStreams, \* fdoCtx->numStreams
    MaxPending, \* responses waiting in the ring at once
    MaxPosted,  \* bound: responses posted in one power cycle
    MaxDone,    \* bound: buffers a stream completes in one power cycle
    MaxDonePair, \* bound: buffers two streams complete together in one power cycle
    Errors      \* may the controller raise FIFO errors and RIRB overruns?

ASSUME RingAssumption == N \in Nat /\ MaxPending \in Nat /\ MaxPending < N
ASSUME StreamAssumption == NumStreams \in Nat
ASSUME BoundAssumption == /\ MaxPosted \in Nat /\ Errors \in BOOLEAN
                          /\ MaxDone \in Nat /\ MaxDonePair \in Nat

VARIABLES
    \* the controller
    rirbbuf,           \* the ring, in memory: slot -> number of a response
    RIRBWP,            \* slot written last
    RIRBSTS,           \* pending causes, subset of {"response", "overrun"}
    SD_STS,            \* [stream -> subset of {"complete", "fifo"}]
    gone,              \* the controller fell asleep: reads return all ones
    \* the ISR
    isr,               \* where the ISR is, "idle" when it does not run
    isrTodo,           \* streams of INTSTS it has still to look at
    isrSts,            \* status register value it holds, {} when it holds none
    \* the DPC
    dpcQueued,         \* the DPC is in the framework's queue
    dpc,               \* where the DPC is, "idle" when it does not run
    dpcAt,             \* its loop index over the streams
    flushTo,           \* HDAFlushRIRB's local wp
    \* fdoCtx
    ControllerEnabled, \* fdoCtx->ControllerEnabled
    processRirb,       \* fdoCtx->processRirb
    irqReceived,       \* [stream -> stream->irqReceived]
    rp, wp,            \* fdoCtx->rirb.rp, fdoCtx->rirb.wp
    \* history, since the last power up
    posted,            \* responses the controller posted
    delivered,         \* responses the DPC dispatched, in order
    done,              \* [stream -> buffers completed]
    seen               \* [stream -> value of done at its last notification]

hwVars     == <<rirbbuf, RIRBWP, RIRBSTS, SD_STS, gone>>
isrVars    == <<isr, isrTodo, isrSts>>
dpcVars    == <<dpcQueued, dpc, dpcAt, flushTo>>
fdoVars    == <<ControllerEnabled, processRirb, irqReceived, rp, wp>>
histVars   == <<posted, delivered, done, seen>>
vars == <<hwVars, isrVars, dpcVars, fdoVars, histVars>>

Streams == 0 .. NumStreams - 1
Slots == 0 .. N - 1
RirbCauses == {"response", "overrun"}
StreamCauses == {"complete", "fifo"}

Pending == posted - Len(delivered)

\* The step of the ring's indices: ++ and %= HDA_MAX_RIRB_ENTRIES.
NextSlot(i) == (i + 1) % N

\* INTSTS: streams with a pending cause, and whether any cause is pending.
IntStreams == {s \in Streams : SD_STS[s] # {}}
IntPending == RIRBSTS # {} \/ IntStreams # {}

Init ==
    /\ rirbbuf = [i \in Slots |-> 0]
    /\ RIRBWP = 0 /\ RIRBSTS = {} /\ SD_STS = [s \in Streams |-> {}] /\ gone = FALSE
    /\ isr = "idle" /\ isrTodo = {} /\ isrSts = {}
    /\ dpcQueued = FALSE /\ dpc = "idle" /\ dpcAt = 0 /\ flushTo = 0
    /\ ControllerEnabled = TRUE /\ processRirb = FALSE
    /\ irqReceived = [s \in Streams |-> FALSE]
    /\ rp = 0 /\ wp = 0
    /\ posted = 0 /\ delivered = <<>>
    /\ done = [s \in Streams |-> 0] /\ seen = [s \in Streams |-> 0]
-----------------------------------------------------------------------------
(* The controller. *)

Working == ControllerEnabled /\ ~gone

\* A response, solicited or not: memory first, then RIRBWP, then the cause.
Respond ==
    /\ Working /\ posted < MaxPosted /\ Pending < MaxPending
    /\ posted' = posted + 1
    /\ RIRBWP' = NextSlot(RIRBWP)
    /\ rirbbuf' = [rirbbuf EXCEPT ![NextSlot(RIRBWP)] = posted + 1]
    /\ RIRBSTS' = RIRBSTS \cup {"response"}
    /\ UNCHANGED <<SD_STS, gone, isrVars, dpcVars, fdoVars, delivered, done, seen>>

\* A stream reaches a buffer whose descriptor asks for an interrupt.
Complete(s) ==
    /\ Working /\ done[s] < MaxDone
    /\ \A t \in Streams \ {s} : done[s] + done[t] < MaxDonePair
    /\ done' = [done EXCEPT ![s] = @ + 1]
    /\ SD_STS' = [SD_STS EXCEPT ![s] = @ \cup {"complete"}]
    /\ UNCHANGED <<rirbbuf, RIRBWP, RIRBSTS, gone, isrVars, dpcVars, fdoVars,
                   posted, delivered, seen>>

RaiseError ==
    /\ Errors /\ Working
    /\ \/ RIRBSTS' = RIRBSTS \cup {"overrun"} /\ UNCHANGED SD_STS
       \/ \E s \in Streams :
             SD_STS' = [SD_STS EXCEPT ![s] = @ \cup {"fifo"}] /\ UNCHANGED RIRBSTS
    /\ UNCHANGED <<rirbbuf, RIRBWP, gone, isrVars, dpcVars, fdoVars, histVars>>

\* "Something wrong, controller likely went to sleep": from now on every
\* register reads as all ones.
Vanish ==
    /\ Working /\ gone' = TRUE
    /\ UNCHANGED <<rirbbuf, RIRBWP, RIRBSTS, SD_STS, isrVars, dpcVars, fdoVars, histVars>>
-----------------------------------------------------------------------------
(* hda_interrupt.  The line stays raised while a cause is pending. *)

\* `if (!ControllerEnabled) return`; INTSTS == 0 or 0xffffffff returns too.
IsrEnter ==
    /\ isr = "idle" /\ ControllerEnabled /\ ~gone /\ IntPending
    /\ isr' = IF IntStreams = {} THEN "rirb" ELSE "stream"
    /\ isrTodo' = IntStreams
    /\ UNCHANGED <<isrSts, hwVars, dpcVars, fdoVars, histVars>>

\* hda_stream_interrupt visits the streams in index order.
Visits(s) == s \in isrTodo /\ \A t \in isrTodo : s <= t

\* sd_status = stream_read8(stream, SD_STS): all ones once the controller is gone.
IsrReadStream(s) ==
    /\ isr = "stream" /\ Visits(s)
    /\ isrSts' = IF gone THEN StreamCauses ELSE SD_STS[s]
    /\ isr' = "streamAck"
    /\ UNCHANGED <<isrTodo, hwVars, dpcVars, fdoVars, histVars>>

\* Writing SD_INT_MASK clears every cause, one raised since the read too.
IsrAckStream(s) ==
    /\ isr = "streamAck" /\ Visits(s)
    /\ SD_STS' = IF gone THEN SD_STS ELSE [SD_STS EXCEPT ![s] = {}]
    /\ isr' = "streamFlag"
    /\ UNCHANGED <<isrTodo, isrSts, rirbbuf, RIRBWP, RIRBSTS, gone, dpcVars,
                   fdoVars, histVars>>

\* if (sd_status & SD_INT_COMPLETE) stream->irqReceived = TRUE; the next stream.
IsrFlagStream(s) ==
    /\ isr = "streamFlag" /\ Visits(s)
    /\ irqReceived' = [irqReceived EXCEPT ![s] = @ \/ "complete" \in isrSts]
    /\ isrTodo' = isrTodo \ {s}
    /\ isr' = IF isrTodo = {s} THEN "streamQueue" ELSE "stream"
    /\ isrSts' = {}
    /\ UNCHANGED <<hwVars, dpcVars, ControllerEnabled, processRirb, rp, wp,
                   histVars>>

\* Mutant of IsrQueueStream: a DPC that runs already is not queued again.
IsrQueueStream_UnlessRunning ==
    /\ isr = "streamQueue"
    /\ dpcQueued' = (dpcQueued \/ dpc = "idle") /\ isr' = "rirb"
    /\ UNCHANGED <<isrTodo, isrSts, hwVars, dpc, dpcAt, flushTo, fdoVars, histVars>>

\* Mutant of IsrQueueStream: hda_stream_interrupt's result is not looked at.
IsrQueueStream_Forgets ==
    /\ isr = "streamQueue"
    /\ isr' = "rirb"
    /\ UNCHANGED <<isrTodo, isrSts, hwVars, dpcVars, fdoVars, histVars>>

\* WdfInterruptQueueDpcForIsr: no effect when the DPC is already queued.
IsrQueueStream ==
    /\ isr = "streamQueue"
    /\ dpcQueued' = TRUE /\ isr' = "rirb"
    /\ UNCHANGED <<isrTodo, isrSts, hwVars, dpc, dpcAt, flushTo, fdoVars, histVars>>

\* status = hda_read8(fdoCtx, RIRBSTS); nothing to do when no cause is set.
IsrReadRirb ==
    /\ isr = "rirb"
    /\ isrSts' = IF gone THEN RirbCauses ELSE RIRBSTS
    /\ isr' = IF isrSts' = {} THEN "idle" ELSE "rirbAck"
    /\ UNCHANGED <<isrTodo, hwVars, dpcVars, fdoVars, histVars>>

\* Writing RIRB_INT_MASK clears both causes.
IsrAckRirb ==
    /\ isr = "rirbAck"
    /\ RIRBSTS' = IF gone THEN RIRBSTS ELSE {}
    /\ isr' = IF "response" \in isrSts THEN "rirbFlag" ELSE "idle"
    /\ isrSts' = {}
    /\ UNCHANGED <<isrTodo, rirbbuf, RIRBWP, SD_STS, gone, dpcVars,
                   fdoVars, histVars>>

IsrFlagRirb ==
    /\ isr = "rirbFlag"
    /\ processRirb' = TRUE /\ isr' = "rirbQueue"
    /\ UNCHANGED <<isrTodo, isrSts, hwVars, dpcVars, ControllerEnabled,
                   irqReceived, rp, wp, histVars>>

\* Mutant of IsrQueueRirb: the DPC is not queued.
IsrQueueRirb_Forgets ==
    /\ isr = "rirbQueue"
    /\ isr' = "idle"
    /\ UNCHANGED <<isrTodo, isrSts, hwVars, dpcVars, fdoVars, histVars>>

IsrQueueRirb ==
    /\ isr = "rirbQueue"
    /\ dpcQueued' = TRUE /\ isr' = "idle"
    /\ UNCHANGED <<isrTodo, isrSts, hwVars, dpc, dpcAt, flushTo, fdoVars, histVars>>

Isr ==
    \/ IsrEnter \/ IsrQueueStream \/ IsrReadRirb \/ IsrAckRirb
    \/ IsrFlagRirb \/ IsrQueueRirb
    \/ \E s \in Streams : IsrReadStream(s) \/ IsrAckStream(s) \/ IsrFlagStream(s)
-----------------------------------------------------------------------------
(* hda_dpc and HDAFlushRIRB. *)

DpcStart ==
    /\ dpc = "idle" /\ dpcQueued
    /\ dpcQueued' = FALSE /\ dpc' = "streams" /\ dpcAt' = 0
    /\ UNCHANGED <<flushTo, hwVars, isrVars, fdoVars, histVars>>

\* if (stream->irqReceived)
DpcTestStream ==
    /\ dpc = "streams" /\ dpcAt < NumStreams
    /\ IF irqReceived[dpcAt]
         THEN dpc' = "streamClear" /\ UNCHANGED dpcAt
         ELSE dpcAt' = dpcAt + 1 /\ UNCHANGED dpc
    /\ UNCHANGED <<dpcQueued, flushTo, hwVars, isrVars, fdoVars, histVars>>

DpcClearStream ==
    /\ dpc = "streamClear"
    /\ irqReceived' = [irqReceived EXCEPT ![dpcAt] = FALSE]
    /\ dpc' = "notify"
    /\ UNCHANGED <<dpcQueued, dpcAt, flushTo, hwVars, isrVars,
                   ControllerEnabled, processRirb, rp, wp, histVars>>

\* The registered callbacks and events of the stream.
DpcNotify ==
    /\ dpc = "notify"
    /\ seen' = [seen EXCEPT ![dpcAt] = done[dpcAt]]
    /\ dpc' = "streams" /\ dpcAt' = dpcAt + 1
    /\ UNCHANGED <<dpcQueued, flushTo, hwVars, isrVars, fdoVars, posted, delivered, done>>

\* if (fdoCtx->processRirb)
DpcTestRirb ==
    /\ dpc = "streams" /\ dpcAt = NumStreams
    /\ dpc' = IF processRirb THEN "rirbClear" ELSE "idle"
    /\ UNCHANGED <<dpcQueued, dpcAt, flushTo, hwVars, isrVars, fdoVars, histVars>>

DpcClearRirb ==
    /\ dpc = "rirbClear"
    /\ processRirb' = FALSE /\ dpc' = "flush"
    /\ UNCHANGED <<dpcQueued, dpcAt, flushTo, hwVars, isrVars,
                   ControllerEnabled, irqReceived, rp, wp, histVars>>

\* wp = hda_read16(RIRBWP); return when it is 0xffff or did not move.
FlushReadWp ==
    /\ dpc = "flush"
    /\ IF gone \/ RIRBWP = wp
         THEN dpc' = "idle" /\ UNCHANGED <<flushTo, wp>>
         ELSE dpc' = "loop" /\ flushTo' = RIRBWP /\ wp' = RIRBWP
    /\ UNCHANGED <<dpcQueued, dpcAt, hwVars, isrVars, ControllerEnabled,
                   processRirb, irqReceived, rp, histVars>>

\* Mutant of FlushOne: the slot is read before rp is advanced.
FlushOne_ReadsFirst ==
    /\ dpc = "loop" /\ rp # flushTo
    /\ rp' = NextSlot(rp)
    /\ delivered' = Append(delivered, rirbbuf[rp])
    /\ UNCHANGED <<dpcVars, hwVars, isrVars, ControllerEnabled, processRirb,
                   irqReceived, wp, posted, done, seen>>

\* while (rirb.rp != wp): advance rp, read the slot, dispatch the response.
FlushOne ==
    /\ dpc = "loop" /\ rp # flushTo
    /\ rp' = NextSlot(rp)
    /\ delivered' = Append(delivered, rirbbuf[rp'])
    /\ UNCHANGED <<dpcVars, hwVars, isrVars, ControllerEnabled, processRirb,
                   irqReceived, wp, posted, done, seen>>

\* Mutant of FlushDone: processRirb is cleared after the ring was read.
FlushDone_ClearsFlag ==
    /\ dpc = "loop" /\ rp = flushTo
    /\ dpc' = "idle" /\ processRirb' = FALSE
    /\ UNCHANGED <<dpcQueued, dpcAt, flushTo, hwVars, isrVars, ControllerEnabled,
                   irqReceived, rp, wp, histVars>>

FlushDone ==
    /\ dpc = "loop" /\ rp = flushTo
    /\ dpc' = "idle"
    /\ UNCHANGED <<dpcQueued, dpcAt, flushTo, hwVars, isrVars, fdoVars, histVars>>

Dpc ==
    \/ DpcStart \/ DpcTestStream \/ DpcClearStream \/ DpcNotify
    \/ DpcTestRirb \/ DpcClearRirb \/ FlushReadWp \/ FlushOne \/ FlushDone
-----------------------------------------------------------------------------
(* Power.  The framework disconnects the interrupt and flushes the DPC     *)
(* queue before D0Exit and connects it again after D0Entry.                *)

Quiet == isr = "idle" /\ dpc = "idle" /\ ~dpcQueued

\* Fdo_EvtDeviceD0Exit: StopHDAController stops every stream (which clears
\* its status), stops the RIRB and puts the controller into reset.
D0Exit ==
    /\ Quiet /\ ControllerEnabled
    /\ ControllerEnabled' = FALSE
    /\ RIRBSTS' = {} /\ SD_STS' = [s \in Streams |-> {}]
    /\ posted' = 0 /\ delivered' = <<>>
    /\ done' = [s \in Streams |-> 0] /\ seen' = [s \in Streams |-> 0]
    /\ UNCHANGED <<rirbbuf, RIRBWP, gone, isrVars, dpcVars, processRirb,
                   irqReceived, rp, wp>>

\* Mutant of D0Entry: rirb.rp keeps its value from before the power cycle.
D0Entry_KeepsRp ==
    /\ ~ControllerEnabled
    /\ ControllerEnabled' = TRUE /\ gone' = FALSE
    /\ RIRBWP' = 0 /\ wp' = 0 /\ processRirb' = FALSE
    /\ UNCHANGED <<rirbbuf, RIRBSTS, SD_STS, isrVars, dpcVars, irqReceived, rp, histVars>>

\* Fdo_EvtDeviceD0Entry: rirb and processRirb are zeroed, StartHDAController
\* resets the write pointer and enables the controller.
D0Entry ==
    /\ ~ControllerEnabled
    /\ ControllerEnabled' = TRUE /\ gone' = FALSE
    /\ RIRBWP' = 0 /\ rp' = 0 /\ wp' = 0 /\ processRirb' = FALSE
    /\ UNCHANGED <<rirbbuf, RIRBSTS, SD_STS, isrVars, dpcVars, irqReceived, histVars>>
-----------------------------------------------------------------------------
Next ==
    \/ Respond \/ RaiseError \/ Vanish
    \/ \E s \in Streams : Complete(s)
    \/ Isr \/ Dpc
    \/ D0Exit \/ D0Entry

Spec == Init /\ [][Next]_vars

\* The processor runs a raised ISR and a queued DPC; nothing makes the
\* controller answer, fail or change its power state.
FairSpec == Spec /\ WF_vars(Isr) /\ WF_vars(Dpc)
-----------------------------------------------------------------------------
TypeOK ==
    /\ rirbbuf \in [Slots -> Nat] /\ RIRBWP \in Slots
    /\ RIRBSTS \in SUBSET RirbCauses /\ SD_STS \in [Streams -> SUBSET StreamCauses]
    /\ gone \in BOOLEAN
    /\ isr \in {"idle", "stream", "streamAck", "streamFlag", "streamQueue",
                "rirb", "rirbAck", "rirbFlag", "rirbQueue"}
    /\ isrTodo \in SUBSET Streams /\ isrSts \in SUBSET (RirbCauses \cup StreamCauses)
    /\ dpcQueued \in BOOLEAN
    /\ dpc \in {"idle", "streams", "streamClear", "notify", "rirbClear", "flush", "loop"}
    /\ dpcAt \in 0 .. NumStreams /\ flushTo \in Slots
    /\ ControllerEnabled \in BOOLEAN /\ processRirb \in BOOLEAN
    /\ irqReceived \in [Streams -> BOOLEAN]
    /\ rp \in Slots /\ wp \in Slots
    /\ posted \in Nat /\ delivered \in Seq(Nat)
    /\ done \in [Streams -> Nat] /\ seen \in [Streams -> Nat]
    /\ dpc \in {"streamClear", "notify"} => dpcAt < NumStreams

\* HDAFlushRIRB dispatches the responses exactly once and in the order in
\* which the controller posted them, however often the ring wraps, whatever
\* the ISR does meanwhile and across power cycles (rp, wp and the cached
\* rirb.wp agree with the controller's write pointer after D0Entry).
InOrder == \A i \in 1 .. Len(delivered) : delivered[i] = i

\* Work the ISR handed over and the DPC has still to look at.
DpcComing ==
    dpcQueued \/ dpc \in {"streams", "streamClear", "notify", "rirbClear"}

\* A response that was not dispatched is never forgotten: its cause is still
\* raised, or the ISR is about to set processRirb, or processRirb is set and
\* a DPC will test it, or the DPC has yet to read RIRBWP, or it has read a
\* RIRBWP that covers the response.  It fails when processRirb is cleared
\* after the ring was read, or the DPC is not queued again while it runs.
NoLostResponse ==
    ~Errors /\ Working /\ Len(delivered) < posted =>
        \/ "response" \in RIRBSTS
        \/ isr = "rirbAck" \/ isr = "rirbFlag"
        \/ processRirb /\ (isr = "rirbQueue" \/ DpcComing)
        \/ dpc = "flush"
        \/ dpc = "loop" /\ flushTo = RIRBWP

\* The ISR is in hda_stream_interrupt, or about to queue the DPC for it.
IsrInStreams == {"stream", "streamAck", "streamFlag", "streamQueue"}

\* The same for the buffer completions of a stream: one its client was not
\* notified of is still raised, held by the ISR, flagged in irqReceived with
\* a DPC to come that has not passed the stream, or about to be notified.
NoLostCompletion ==
    ~Errors /\ Working => \A s \in Streams : seen[s] < done[s] =>
        \/ "complete" \in SD_STS[s]
        \/ isr = "streamFlag" /\ Visits(s)
        \/ irqReceived[s] /\ (isr \in IsrInStreams \/ dpcQueued)
        \/ irqReceived[s] /\ dpc \in {"streams", "streamClear", "notify"} /\ dpcAt <= s
        \/ dpc = "notify" /\ dpcAt = s

\* Between the ISR and the DPC no work is forgotten, of the ring or a stream.
NothingForgotten == NoLostResponse /\ NoLostCompletion

\* Every response reaches HDAFlushRIRB's dispatch, unless the controller
\* disappears or is powered down first (posted is then reset).
ResponsesDelivered ==
    \A k \in 1 .. MaxPosted :
        posted >= k ~> Len(delivered) >= k \/ posted < k \/ gone

\* The clients of a stream are notified after every buffer it completes: two
\* completions may share a notification, but none comes after the last one.
CompletionsSeen ==
    \A s \in Streams : \A k \in 1 .. MaxDone :
        done[s] >= k ~> seen[s] >= k \/ done[s] < k \/ gone

\* The ring, the ISR and the DPC together implement the abstract channel.
Channel == INSTANCE ResponseChannel WITH posted <- posted, delivered <- delivered
ImplementsChannel == Channel!ChanSpec
=============================================================================
