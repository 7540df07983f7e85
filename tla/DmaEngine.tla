------------------------------ MODULE DmaEngine ------------------------------
(***************************************************************************)
(* The DMA engines (streams) of the controller and the drivers that borrow *)
(* them: the HD Audio function drivers through the HDAUDIO bus interface   *)
(* (hdaudio.cpp) and the audio DSP driver through the ADSP bus interface   *)
(* (adsp.cpp), on top of hdac_stream.cpp.                                  *)
(*                                                                         *)
(* Each client runs one operation at a time.  A region under the interrupt *)
(* lock is one step, unless it updates INTCTL: that is a read, then a      *)
(* write, and ADSPStartStopDSP does it without the lock.  The owner checks *)
(* at the head of the operations precede the lock.                         *)
(***************************************************************************)
EXTENDS Integers, FiniteSets

CONSTANTS
    NumCapture, NumPlayback, \* fdoCtx->captureStreams, playbackStreams
    HdaClients, DspClients,  \* PDOs of function drivers, of the DSP driver
    PpctlBits,               \* bits of PPCTL that a read16 returns: 16
    DspTriggers,             \* does the DSP driver start and stop streams?
    NULL

Clients == HdaClients \cup DspClients
\* Capture streams come first; a stream's number is its idx.
Capture == 0 .. NumCapture - 1
Playback == NumCapture .. NumCapture + NumPlayback - 1
Streams == Capture \cup Playback

ASSUME ClientAssumption ==
    /\ HdaClients \cap DspClients = {} /\ NULL \notin Clients
    /\ IsFiniteSet(Clients)
ASSUME StreamAssumption ==
    /\ NumCapture \in Nat /\ NumPlayback \in Nat /\ PpctlBits \in Nat
    /\ DspTriggers \in BOOLEAN

VARIABLES
    owner,      \* [Streams -> stream->PdoContext]
    running,    \* [Streams -> stream->running]
    mdlBuf,     \* [Streams -> is stream->mdlBuf set?]
    dmaBuf,     \* [Streams -> is stream->dmaBuf set?]
    listed,     \* [Streams -> memory that the stream's BDL names]
    runBit,     \* [Streams -> SD_CTL_DMA_START]
    SIE,        \* streams enabled in INTCTL
    PROCEN,     \* streams given to the DSP in PPCTL
    lock,       \* the client that holds the interrupt lock, or NULL
    idleRefs,   \* references that keep the device from idling
    held,       \* [Clients -> handles the client has]
    pc, cur,    \* [Clients -> step, stream of the operation it is in]
    snap,       \* [Clients -> INTCTL as it read it]
    lost        \* history: streams whose bit of INTCTL an update that raced
                \* one of ADSPStartStopDSP put back

engineVars == <<owner, running, mdlBuf, dmaBuf, listed>>
regVars == <<runBit, SIE, PROCEN>>
vars == <<engineVars, regVars, lock, idleRefs, held, pc, cur, snap, lost>>

Memory == {"nothing", "mdl", "contiguous", "dsp", "freed"}

Init ==
    /\ owner = [s \in Streams |-> NULL] /\ running = [s \in Streams |-> FALSE]
    /\ mdlBuf = [s \in Streams |-> FALSE] /\ dmaBuf = [s \in Streams |-> FALSE]
    /\ listed = [s \in Streams |-> "nothing"]
    /\ runBit = [s \in Streams |-> FALSE] /\ SIE = {} /\ PROCEN = {}
    /\ lock = NULL /\ idleRefs = 0
    /\ held = [c \in Clients |-> {}]
    /\ pc = [c \in Clients |-> "idle"] /\ cur = [c \in Clients |-> 0]
    /\ snap = [c \in Clients |-> {}] /\ lost = {}

Goto(c, l) == pc' = [pc EXCEPT ![c] = l]
\* The operation is over; what it kept in locals is forgotten.
End(c) == Goto(c, "idle") /\ cur' = [cur EXCEPT ![c] = 0] /\ snap' = [snap EXCEPT ![c] = {}]
Set(f, s, v) == [f EXCEPT ![s] = v]
\* stream->PdoContext != devData: STATUS_INVALID_HANDLE
Owns(c, s) == s \in held[c] /\ owner[s] = c
-----------------------------------------------------------------------------
(* Allocating and freeing an engine. *)

\* WdfDeviceStopIdle comes first; when it fails nothing is lent and no
\* reference kept, which is no step.
AllocateBegin(c) ==
    /\ pc[c] = "idle"
    /\ \E l \in {"capture", "render"} : Goto(c, l)
    /\ idleRefs' = idleRefs + 1
    /\ UNCHANGED <<engineVars, regVars, lock, held, cur, snap, lost>>

Wanted(c) == IF pc[c] = "capture" THEN Capture ELSE Playback
\* Mutant of FirstFree: an engine that has an owner is taken.
FirstFree_First(S, s) == s \in S /\ \A t \in S : s <= t

FirstFree(S, s) ==
    /\ s \in S /\ owner[s] = NULL
    /\ \A t \in S : owner[t] = NULL => s <= t

\* The first engine without a PdoContext; for the DSP, PROCEN too: a bit that
\* is not among those read16 returns looks clear and is set again.
Allocate(c) ==
    /\ pc[c] \in {"capture", "render"} /\ lock = NULL
    /\ \E s \in Streams :
          /\ FirstFree(Wanted(c), s)
          /\ owner' = Set(owner, s, c) /\ running' = Set(running, s, FALSE)
          /\ PROCEN' = IF c \in DspClients THEN PROCEN \cup {s} ELSE PROCEN
          /\ held' = [held EXCEPT ![c] = @ \cup {s}]
    /\ Goto(c, "idle")
    /\ UNCHANGED <<mdlBuf, dmaBuf, listed, runBit, SIE, lock, idleRefs, cur, snap, lost>>

\* Mutant of AllocateNone: no WdfDeviceResumeIdle on failure.
AllocateNone_Leaks(c) ==
    /\ pc[c] \in {"capture", "render"} /\ lock = NULL
    /\ \A s \in Wanted(c) : owner[s] # NULL
    /\ Goto(c, "idle")
    /\ UNCHANGED <<engineVars, regVars, lock, idleRefs, held, cur, snap, lost>>

\* STATUS_INSUFFICIENT_RESOURCES
AllocateNone(c) ==
    /\ pc[c] \in {"capture", "render"} /\ lock = NULL
    /\ \A s \in Wanted(c) : owner[s] # NULL
    /\ idleRefs' = idleRefs - 1 /\ Goto(c, "idle")
    /\ UNCHANGED <<engineVars, regVars, lock, held, cur, snap, lost>>

\* The owner check of HDA_FreeDmaEngine and ADSPFreeStream.  Clients give the
\* buffers back first; nothing in the code does it for them.
FreeBegin(c, s) ==
    /\ pc[c] = "idle" /\ Owns(c, s) /\ ~mdlBuf[s] /\ ~dmaBuf[s]
    /\ cur' = Set(cur, c, s) /\ Goto(c, "free")
    /\ UNCHANGED <<engineVars, regVars, lock, idleRefs, held, snap, lost>>

\* Mutant of Free: ADSPFreeStream leaves the stream to the DSP.
Free_Decoupled(c) ==
    /\ pc[c] = "free" /\ lock = NULL
    /\ IF running[cur[c]]
         THEN End(c) /\ UNCHANGED <<owner, held>>
         ELSE /\ owner' = Set(owner, cur[c], NULL)
              /\ held' = [held EXCEPT ![c] = @ \ {cur[c]}]
              /\ Goto(c, "resume") /\ UNCHANGED <<cur, snap>>
    /\ UNCHANGED <<running, mdlBuf, dmaBuf, listed, runBit, SIE, PROCEN, lock, idleRefs, lost>>

\* Refused while the stream runs; the DSP's PROCEN bit is cleared if read16
\* shows it set.
Free(c) ==
    /\ pc[c] = "free" /\ lock = NULL
    /\ IF running[cur[c]]
         THEN End(c) /\ UNCHANGED <<owner, PROCEN, held>>
         ELSE /\ owner' = Set(owner, cur[c], NULL)
              /\ PROCEN' = IF c \in DspClients /\ cur[c] < PpctlBits
                             THEN PROCEN \ {cur[c]} ELSE PROCEN
              /\ held' = [held EXCEPT ![c] = @ \ {cur[c]}]
              /\ Goto(c, "resume") /\ UNCHANGED <<cur, snap>>
    /\ UNCHANGED <<running, mdlBuf, dmaBuf, listed, runBit, SIE, lock, idleRefs, lost>>

\* WdfDeviceResumeIdle
FreeResume(c) ==
    /\ pc[c] = "resume"
    /\ idleRefs' = idleRefs - 1 /\ End(c)
    /\ UNCHANGED <<engineVars, regVars, lock, held, lost>>
-----------------------------------------------------------------------------
(* Running state: HDA_SetDmaEngineState and ADSPStartStopDSP. *)

\* Mutant of Run: the interrupt lock is not taken.
Run_NoLock(c, s) ==
    /\ c \in HdaClients /\ pc[c] = "idle" /\ Owns(c, s) /\ lock = NULL
    /\ ~running[s] /\ listed[s] \in {"mdl", "contiguous"}
    /\ cur' = Set(cur, c, s) /\ Goto(c, "startRead")
    /\ UNCHANGED <<engineVars, regVars, lock, idleRefs, held, snap, lost>>

\* RunState, not running: hdac_stream_setup, then hdac_stream_start.  Clients
\* run an engine whose list names memory they still have.
Run(c, s) ==
    /\ c \in HdaClients /\ pc[c] = "idle" /\ Owns(c, s) /\ lock = NULL
    /\ ~running[s] /\ listed[s] \in {"mdl", "contiguous"}
    /\ lock' = c /\ cur' = Set(cur, c, s) /\ Goto(c, "startRead")
    /\ UNCHANGED <<engineVars, regVars, idleRefs, held, snap, lost>>

\* PauseState or StopState, running: hdac_stream_stop begins with
\* hdac_stream_clear.
Stop(c, s) ==
    /\ c \in HdaClients /\ pc[c] = "idle" /\ Owns(c, s) /\ lock = NULL /\ running[s]
    /\ lock' = c /\ cur' = Set(cur, c, s) /\ Goto(c, "stopRead")
    /\ runBit' = Set(runBit, s, FALSE) /\ running' = Set(running, s, FALSE)
    /\ UNCHANGED <<owner, mdlBuf, dmaBuf, listed, SIE, PROCEN, idleRefs, held, snap, lost>>

\* ADSPStartStopDSP: neither the lock nor a test of stream->running.
Trigger(c, s, start) ==
    /\ c \in DspClients /\ DspTriggers /\ pc[c] = "idle" /\ Owns(c, s)
    /\ listed[s] = "dsp"
    /\ cur' = Set(cur, c, s)
    /\ IF start
         THEN Goto(c, "startRead") /\ UNCHANGED <<runBit, running>>
         ELSE /\ Goto(c, "stopRead")
              /\ runBit' = Set(runBit, s, FALSE) /\ running' = Set(running, s, FALSE)
    /\ UNCHANGED <<owner, mdlBuf, dmaBuf, listed, SIE, PROCEN, lock, idleRefs, held, snap, lost>>

\* hda_update32(INTCTL): the read ...
ReadIntctl(c) ==
    /\ pc[c] \in {"startRead", "stopRead"}
    /\ snap' = [snap EXCEPT ![c] = SIE]
    /\ Goto(c, IF pc[c] = "startRead" THEN "startWrite" ELSE "stopWrite")
    /\ UNCHANGED <<engineVars, regVars, lock, idleRefs, held, cur, lost>>

Unlock(c) == lock' = IF lock = c THEN NULL ELSE lock

\* What c writes back over a change made since it read INTCTL, when it or the
\* change was made without the lock.
Overwritten(c) ==
    {s \in (snap[c] \ SIE) \cup (SIE \ snap[c]) :
        s # cur[c] /\ (c \in DspClients \/ owner[s] \in DspClients)}
Note(c) == lost' = (lost \cup Overwritten(c)) \ {cur[c]}

\* Mutant of StartWrite: the bit of the stream tag, which is idx + 1.
StartWrite_Tag(c) ==
    /\ pc[c] = "startWrite"
    /\ SIE' = snap[c] \cup {cur[c] + 1}
    /\ runBit' = Set(runBit, cur[c], TRUE) /\ running' = Set(running, cur[c], TRUE)
    /\ Unlock(c) /\ End(c) /\ Note(c)
    /\ UNCHANGED <<owner, mdlBuf, dmaBuf, listed, PROCEN, idleRefs, held>>

\* ... and the write, then DMA start and running.
StartWrite(c) ==
    /\ pc[c] = "startWrite"
    /\ SIE' = snap[c] \cup {cur[c]}
    /\ runBit' = Set(runBit, cur[c], TRUE) /\ running' = Set(running, cur[c], TRUE)
    /\ Unlock(c) /\ End(c) /\ Note(c)
    /\ UNCHANGED <<owner, mdlBuf, dmaBuf, listed, PROCEN, idleRefs, held>>

\* Mutant of StopWrite: the interrupt stays enabled.
StopWrite_Keeps(c) ==
    /\ pc[c] = "stopWrite"
    /\ SIE' = snap[c]
    /\ Unlock(c) /\ End(c) /\ Note(c)
    /\ UNCHANGED <<engineVars, runBit, PROCEN, idleRefs, held>>

StopWrite(c) ==
    /\ pc[c] = "stopWrite"
    /\ SIE' = snap[c] \ {cur[c]}
    /\ Unlock(c) /\ End(c) /\ Note(c)
    /\ UNCHANGED <<engineVars, runBit, PROCEN, idleRefs, held>>
-----------------------------------------------------------------------------
(* Buffers. *)

\* hdac_stream_reset / hdac_stream_setup clear the run bit and running.
Cleared(s) == runBit' = Set(runBit, s, FALSE) /\ running' = Set(running, s, FALSE)

\* HDA_AllocateDmaBufferWithNotification: checks, then the list under the lock.
AllocateBufferBegin(c, s) ==
    /\ c \in HdaClients /\ pc[c] = "idle" /\ Owns(c, s) /\ ~running[s] /\ ~mdlBuf[s]
    /\ cur' = Set(cur, c, s) /\ Goto(c, "list")
    /\ UNCHANGED <<engineVars, regVars, lock, idleRefs, held, snap, lost>>

AllocateBufferList(c) ==
    /\ pc[c] = "list" /\ lock = NULL
    /\ mdlBuf' = Set(mdlBuf, cur[c], TRUE) /\ listed' = Set(listed, cur[c], "mdl")
    /\ Goto(c, "setup")
    /\ UNCHANGED <<owner, running, dmaBuf, regVars, lock, idleRefs, held, cur, snap, lost>>

\* hdac_stream_reset and hdac_stream_setup follow after the lock is released.
AllocateBufferSetup(c) ==
    /\ pc[c] = "setup" /\ Cleared(cur[c]) /\ End(c)
    /\ UNCHANGED <<owner, mdlBuf, dmaBuf, listed, SIE, PROCEN, lock, idleRefs, held, lost>>

\* Mutant of FreeBuffer: neither a test of running nor a reset of SD_CTL.
FreeBuffer_Running(c, s) ==
    /\ c \in HdaClients /\ pc[c] = "idle" /\ Owns(c, s) /\ mdlBuf[s]
    /\ lock = NULL
    /\ mdlBuf' = Set(mdlBuf, s, FALSE)
    /\ listed' = IF listed[s] = "mdl" THEN Set(listed, s, "freed") ELSE listed
    /\ UNCHANGED <<owner, running, dmaBuf, regVars, lock, idleRefs, held, pc, cur, snap, lost>>

\* HDA_FreeDmaBufferWithNotification: the pages are freed, the list keeps them.
FreeBuffer(c, s) ==
    /\ c \in HdaClients /\ pc[c] = "idle" /\ Owns(c, s) /\ ~running[s] /\ mdlBuf[s]
    /\ lock = NULL
    /\ mdlBuf' = Set(mdlBuf, s, FALSE) /\ runBit' = Set(runBit, s, FALSE)
    /\ listed' = IF listed[s] = "mdl" THEN Set(listed, s, "freed") ELSE listed
    /\ UNCHANGED <<owner, running, dmaBuf, SIE, PROCEN, lock, idleRefs, held, pc, cur, snap, lost>>

AllocateContiguous(c, s) ==
    /\ c \in HdaClients /\ pc[c] = "idle" /\ Owns(c, s) /\ ~running[s] /\ ~dmaBuf[s]
    /\ lock = NULL
    /\ dmaBuf' = Set(dmaBuf, s, TRUE)
    /\ UNCHANGED <<owner, running, mdlBuf, listed, regVars, lock, idleRefs, held, pc, cur, snap, lost>>

\* HDA_SetupDmaEngineWithBdl: the client wrote the list itself.
SetupWithBdl(c, s) ==
    /\ c \in HdaClients /\ pc[c] = "idle" /\ Owns(c, s) /\ ~running[s] /\ dmaBuf[s]
    /\ lock = NULL
    /\ listed' = Set(listed, s, "contiguous") /\ Cleared(s)
    /\ UNCHANGED <<owner, mdlBuf, dmaBuf, SIE, PROCEN, lock, idleRefs, held, pc, cur, snap, lost>>

FreeContiguous(c, s) ==
    /\ c \in HdaClients /\ pc[c] = "idle" /\ Owns(c, s) /\ ~running[s] /\ dmaBuf[s]
    /\ lock = NULL
    /\ dmaBuf' = Set(dmaBuf, s, FALSE) /\ runBit' = Set(runBit, s, FALSE)
    /\ listed' = IF listed[s] = "contiguous" THEN Set(listed, s, "freed") ELSE listed
    /\ UNCHANGED <<owner, running, mdlBuf, SIE, PROCEN, lock, idleRefs, held, pc, cur, snap, lost>>

\* HDA_ChangeBandwidthAllocation and ResetState, when the stream does not run.
SetUpAgain(c, s) ==
    /\ c \in HdaClients /\ pc[c] = "idle" /\ Owns(c, s) /\ ~running[s] /\ lock = NULL
    /\ Cleared(s)
    /\ UNCHANGED <<owner, mdlBuf, dmaBuf, listed, SIE, PROCEN, lock, idleRefs, held, pc, cur, snap, lost>>

\* ADSPPrepareDSP, ADSPCleanupDSP: the DSP driver brings its own memory.
\* Cleaning up does not ask whether the stream runs.
PrepareDsp(c, s) ==
    /\ c \in DspClients /\ pc[c] = "idle" /\ Owns(c, s) /\ ~running[s] /\ lock = NULL
    /\ mdlBuf' = Set(mdlBuf, s, FALSE) /\ listed' = Set(listed, s, "dsp") /\ Cleared(s)
    /\ UNCHANGED <<owner, dmaBuf, SIE, PROCEN, lock, idleRefs, held, pc, cur, snap, lost>>

\* Mutant of CleanupDsp: SD_CTL is not cleared.
CleanupDsp_KeepsRunning(c, s) ==
    /\ c \in DspClients /\ pc[c] = "idle" /\ Owns(c, s) /\ lock = NULL
    /\ listed' = Set(listed, s, "freed")
    /\ UNCHANGED <<owner, running, mdlBuf, dmaBuf, regVars, lock, idleRefs, held, pc, cur, snap, lost>>

CleanupDsp(c, s) ==
    /\ c \in DspClients /\ pc[c] = "idle" /\ Owns(c, s) /\ lock = NULL
    /\ listed' = Set(listed, s, "freed") /\ runBit' = Set(runBit, s, FALSE)
    /\ UNCHANGED <<owner, running, mdlBuf, dmaBuf, SIE, PROCEN, lock, idleRefs, held, pc, cur, snap, lost>>
-----------------------------------------------------------------------------
\* System sleep: D0Exit stops every stream and resets the controller.  The
\* drivers above have seen it coming; the DSP driver has given its streams back.
Sleep ==
    /\ \A c \in Clients : pc[c] = "idle"
    /\ \A c \in DspClients : held[c] = {}
    /\ running' = [s \in Streams |-> FALSE] /\ runBit' = [s \in Streams |-> FALSE]
    /\ SIE' = {} /\ PROCEN' = {} /\ lost' = {}
    /\ UNCHANGED <<owner, mdlBuf, dmaBuf, listed, lock, idleRefs, held, pc, cur, snap>>

Operation(c) ==
    \/ AllocateBegin(c) \/ Allocate(c) \/ AllocateNone(c)
    \/ Free(c) \/ FreeResume(c)
    \/ ReadIntctl(c) \/ StartWrite(c) \/ StopWrite(c)
    \/ AllocateBufferList(c) \/ AllocateBufferSetup(c)
    \/ \E s \in Streams :
          \/ FreeBegin(c, s) \/ Run(c, s) \/ Stop(c, s)
          \/ \E start \in BOOLEAN : Trigger(c, s, start)
          \/ AllocateBufferBegin(c, s) \/ FreeBuffer(c, s)
          \/ AllocateContiguous(c, s) \/ SetupWithBdl(c, s) \/ FreeContiguous(c, s)
          \/ SetUpAgain(c, s) \/ PrepareDsp(c, s) \/ CleanupDsp(c, s)

Next == Sleep \/ \E c \in Clients : Operation(c)

Spec == Init /\ [][Next]_vars
-----------------------------------------------------------------------------
TypeOK ==
    /\ owner \in [Streams -> Clients \cup {NULL}] /\ running \in [Streams -> BOOLEAN]
    /\ mdlBuf \in [Streams -> BOOLEAN] /\ dmaBuf \in [Streams -> BOOLEAN]
    /\ listed \in [Streams -> Memory] /\ runBit \in [Streams -> BOOLEAN]
    /\ SIE \subseteq Streams /\ PROCEN \subseteq Streams
    /\ lock \in Clients \cup {NULL} /\ idleRefs \in Int
    /\ held \in [Clients -> SUBSET Streams]
    /\ pc \in [Clients -> {"idle", "capture", "render", "free", "resume", "startRead",
                           "startWrite", "stopRead", "stopWrite", "list", "setup"}]
    /\ cur \in [Clients -> Int] /\ snap \in [Clients -> SUBSET Streams] /\ lost \subseteq Streams

\* The handles the clients have are exactly the engines they own: no engine
\* is lent twice, and none is taken back behind its client.
HandlesAreOwners == \A s \in Streams : \A c \in Clients : s \in held[c] <=> owner[s] = c

\* Every engine lent keeps the device out of idle with one reference, which
\* comes back when the allocation fails or the engine is freed.
OneReferenceEach ==
    idleRefs = Cardinality({s \in Streams : owner[s] # NULL})
                 + Cardinality({c \in Clients : pc[c] \in {"capture", "render", "resume"}})

\* A client is at work on INTCTL for stream s.
Changing(s) ==
    \E c \in Clients : cur[c] = s /\ pc[c] \in {"startRead", "startWrite", "stopRead", "stopWrite"}

\* "enable SIE" / "disable SIE": a stream's interrupt is enabled exactly while
\* it runs; starting or stopping one stream leaves the others' alone, but for
\* an update that ADSPStartStopDSP made, or raced, without the lock.
SieAgrees ==
    \A s \in Streams : ~Changing(s) /\ s \notin lost => (s \in SIE <=> running[s])

\* The DSP processes exactly the streams lent to it: a stream a function
\* driver gets is not left decoupled from the link.
ProcenAgrees == \A s \in Streams : s \in PROCEN <=> owner[s] \in DspClients

\* The controller never runs through a list that names memory given back.
NoDmaToFreedMemory ==
    \A s \in Streams : runBit[s] =>
        CASE listed[s] = "mdl" -> mdlBuf[s]
          [] listed[s] = "contiguous" -> dmaBuf[s]
          [] OTHER -> listed[s] = "dsp"

\* An engine nobody has is stopped, silent and without buffers: its next owner
\* starts from there.
FreeMeansClean ==
    \A s \in Streams : owner[s] = NULL =>
        /\ ~running[s] /\ ~runBit[s] /\ ~mdlBuf[s] /\ ~dmaBuf[s]
        /\ s \in SIE => s \in lost
=============================================================================
