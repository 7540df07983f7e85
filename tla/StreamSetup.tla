---------------------------- MODULE StreamSetup ----------------------------
(***************************************************************************)
(* What a stream's registers say when it runs: hdac_format and             *)
(* hdac_stream_setup (hdac_stream.cpp), and the operations of hdaudio.cpp  *)
(* that call them, for one engine a function driver was lent.  The list of *)
(* a buffer is built by the loops of BdlLayout; a buffer of the client's   *)
(* own comes with a list of the client's (SetupDmaEngineWithBdl).          *)
(*                                                                         *)
(* The client makes one call at a time, and each takes effect at once:     *)
(* DmaEngine has the interleavings.  The engine was used before: its       *)
(* registers and the fields of HDAC_STREAM hold what was left in them.     *)
(***************************************************************************)
EXTENDS BdlLayout, FiniteSets

CONSTANTS
    Formats,     \* formats a client asks for: [rate, channels, bits]
    ClientLists  \* lists a client writes itself: [bytes, entries]

ASSUME FormatAssumption == Formats \subseteq [rate : Nat, channels : Nat, bits : Nat]
ASSUME ListAssumption ==
    \A l \in ClientLists : l.bytes \in Nat \ {0} /\ l.entries \in 1 .. MaxEntries
\* HDA_MAX_BDL_ENTRIES is 256, and SD_LVI has 16 bits.
ASSUME LviAssumption == MaxEntries < 65536

VARIABLES
    streamFormat,  \* stream->streamFormat
    told,          \* the ConverterFormat the client was given last
    bufSz, blocks, \* stream->bufSz, stream->numBlocks
    mdlBuf,        \* "none", "building", "held" or "freed"
    dmaBuf,        \* stream->dmaBuf # NULL
    list,          \* what the memory of the list holds: [of, bytes, entries], a
                   \* list of "nothing", of "mdlBuf" or of "dmaBuf"
    running,       \* stream->running and SD_CTL's run bit
    SD             \* the registers: [CBL, LVI, FORMAT, BDL, tag], tag and BDL
                   \* TRUE when they are the stream's own

engineVars == <<streamFormat, told, bufSz, blocks, mdlBuf, dmaBuf, list, running, SD>>
allVars == <<vars, engineVars>>
-----------------------------------------------------------------------------
(* hdac_format. *)

\* HDA_RATE(base, mult, div) of the sample rates it knows.
Rates ==
    {<<8000, 48, 1, 6>>, <<9600, 48, 1, 5>>, <<11025, 44, 1, 4>>, <<16000, 48, 1, 3>>,
     <<22050, 44, 1, 2>>, <<32000, 48, 2, 3>>, <<44100, 44, 1, 1>>, <<48000, 48, 1, 1>>,
     <<88200, 44, 2, 1>>, <<96000, 48, 2, 1>>, <<176400, 44, 4, 1>>, <<192000, 48, 4, 1>>}

\* The AC_FMT_BITS codes.
Bits == {<<8, 0>>, <<16, 1>>, <<20, 2>>, <<24, 3>>, <<32, 4>>}

Zero == [base |-> 48, mult |-> 0, div |-> 0, bits |-> 0, chan |-> 0]

\* Mutant of RateFields: the fields hold mult and div themselves.
RateFields_Plain(r) ==
    IF \E x \in Rates : x[1] = r
      THEN LET x == CHOOSE y \in Rates : y[1] = r
           IN  [Zero EXCEPT !.base = x[2], !.mult = x[3], !.div = x[4]]
      ELSE Zero

\* A rate it does not know leaves the fields zero.
RateFields(r) ==
    IF \E x \in Rates : x[1] = r
      THEN LET x == CHOOSE y \in Rates : y[1] = r
           IN  [Zero EXCEPT !.base = x[2], !.mult = x[3] - 1, !.div = x[4] - 1]
      ELSE Zero

BitsField(b) == IF \E x \in Bits : x[1] = b THEN (CHOOSE x \in Bits : x[1] = b)[2] ELSE 0

hdac_format(f) ==
    IF f.channels = 0 \/ f.channels > 8
      THEN Zero
      ELSE [RateFields(f.rate) EXCEPT !.chan = f.channels - 1, !.bits = BitsField(f.bits)]
-----------------------------------------------------------------------------
\* Mutant of Setup: the last valid index is the number of blocks.
Setup_Blocks(f, length, n) ==
    SD' = [CBL |-> length, FORMAT |-> hdac_format(f), LVI |-> n % 65536, BDL |-> TRUE, tag |-> TRUE]

\* hdac_stream_setup, of a stream with this format, bufSz and numBlocks.
Setup(f, length, n) ==
    SD' = [CBL |-> length, FORMAT |-> hdac_format(f), LVI |-> (n - 1) % 65536,
           BDL |-> TRUE, tag |-> TRUE]

NoList == [of |-> "nothing", bytes |-> 0, entries |-> 0]
Used(l) == [CBL |-> l.bytes, LVI |-> l.entries - 1, FORMAT |-> Zero, BDL |-> FALSE, tag |-> FALSE]

\* HDA_Allocate{Capture,Render}DmaEngine.
SetupInit ==
    /\ Init
    /\ streamFormat \in Formats /\ told = hdac_format(streamFormat)
    /\ \E l \in ClientLists : bufSz = l.bytes /\ blocks = l.entries /\ SD = Used(l)
    /\ mdlBuf = "none" /\ dmaBuf = FALSE /\ list = NoList /\ running = FALSE

Idle == mdlBuf # "building"

\* Bytes of the first n entries of the list BdlLayout built.
Described(n) == IF n = 0 THEN 0 ELSE End(n) - Start(1)

\* HDA_AllocateDmaBufferWithNotification: the checks, ...
AllocateBuffer ==
    /\ mdlBuf = "none" /\ ~running
    /\ mdlBuf' = "building" /\ list' = NoList
    /\ UNCHANGED <<vars, streamFormat, told, bufSz, blocks, dmaBuf, running, SD>>

\* ... the list, ...
Build == mdlBuf = "building" /\ Next /\ UNCHANGED engineVars

\* ... and hdac_stream_setup.
BufferDone ==
    /\ mdlBuf = "building" /\ loop = "done"
    /\ mdlBuf' = "held"
    /\ list' = [of |-> "mdlBuf", bytes |-> Described(Len(bdl)), entries |-> Len(bdl)]
    /\ bufSz' = requested /\ blocks' = numBlocks
    /\ Setup(streamFormat, requested, numBlocks)
    /\ UNCHANGED <<vars, streamFormat, told, dmaBuf, running>>

AllocateContiguous ==
    /\ Idle /\ ~dmaBuf /\ ~running /\ dmaBuf' = TRUE
    /\ UNCHANGED <<vars, streamFormat, told, bufSz, blocks, mdlBuf, list, running, SD>>

\* The client writes its list, then HDA_SetupDmaEngineWithBdl.
SetupWithBdl(l) ==
    /\ Idle /\ dmaBuf /\ ~running
    /\ list' = [of |-> "dmaBuf", bytes |-> l.bytes, entries |-> l.entries]
    /\ bufSz' = l.bytes /\ blocks' = l.entries
    /\ Setup(streamFormat, l.bytes, l.entries)
    /\ UNCHANGED <<vars, streamFormat, told, mdlBuf, dmaBuf, running>>

\* Mutant of ChangeBandwidth: the new format is not kept.
ChangeBandwidth_Forgets(f) ==
    /\ Idle /\ ~running
    /\ told' = hdac_format(f) /\ Setup(f, bufSz, blocks)
    /\ UNCHANGED <<vars, streamFormat, bufSz, blocks, mdlBuf, dmaBuf, list, running>>

\* HDA_ChangeBandwidthAllocation
ChangeBandwidth(f) ==
    /\ Idle /\ ~running
    /\ streamFormat' = f /\ told' = hdac_format(f) /\ Setup(f, bufSz, blocks)
    /\ UNCHANGED <<vars, bufSz, blocks, mdlBuf, dmaBuf, list, running>>

\* HDA_SetDmaEngineState.  A client runs an engine that has a list.
Run ==
    /\ Idle /\ ~running /\ list # NoList
    /\ Setup(streamFormat, bufSz, blocks) /\ running' = TRUE
    /\ UNCHANGED <<vars, streamFormat, told, bufSz, blocks, mdlBuf, dmaBuf, list>>

Stop ==
    /\ running /\ running' = FALSE
    /\ UNCHANGED <<vars, streamFormat, told, bufSz, blocks, mdlBuf, dmaBuf, list, SD>>

\* ResetState: hdac_stream_reset, hdac_stream_setup.
Reset ==
    /\ Idle /\ ~running /\ Setup(streamFormat, bufSz, blocks)
    /\ UNCHANGED <<vars, streamFormat, told, bufSz, blocks, mdlBuf, dmaBuf, list, running>>

\* SD_BDLPL, SD_BDLPU and SD_CTL are cleared, with it the tag.
Detach == SD' = [SD EXCEPT !.BDL = FALSE, !.tag = FALSE]

FreeBuffer ==
    /\ mdlBuf = "held" /\ ~running /\ Detach
    /\ mdlBuf' = "freed" /\ list' = IF list.of = "mdlBuf" THEN NoList ELSE list
    /\ UNCHANGED <<vars, streamFormat, told, bufSz, blocks, dmaBuf, running>>

FreeContiguous ==
    /\ Idle /\ dmaBuf /\ ~running /\ Detach
    /\ dmaBuf' = FALSE /\ list' = IF list.of = "dmaBuf" THEN NoList ELSE list
    /\ UNCHANGED <<vars, streamFormat, told, bufSz, blocks, mdlBuf, running>>

\* D0Exit and D0Entry: the streams are stopped, the reset clears the registers.
PowerCycle ==
    /\ Idle /\ running' = FALSE
    /\ SD' = [CBL |-> 0, LVI |-> 0, FORMAT |-> Zero, BDL |-> FALSE, tag |-> FALSE]
    /\ UNCHANGED <<vars, streamFormat, told, bufSz, blocks, mdlBuf, dmaBuf, list>>

SetupNext ==
    \/ AllocateBuffer \/ Build \/ BufferDone \/ AllocateContiguous
    \/ \E l \in ClientLists : SetupWithBdl(l)
    \/ \E f \in Formats : ChangeBandwidth(f)
    \/ Run \/ Stop \/ Reset \/ FreeBuffer \/ FreeContiguous \/ PowerCycle

SetupSpec == SetupInit /\ [][SetupNext]_allVars
-----------------------------------------------------------------------------
\* What a converter and the controller take the fields to mean.
RateOf(c) == ((IF c.base = 48 THEN 48000 ELSE 44100) * (c.mult + 1)) \div (c.div + 1)
BitsOf(c) == (CHOOSE x \in Bits : x[2] = c.bits)[1]

Supported(f) ==
    /\ \E x \in Rates : x[1] = f.rate
    /\ \E x \in Bits : x[1] = f.bits
    /\ f.channels \in 1 .. 8

\* "This value needs to be the same as the one programmed": a stream runs with
\* the format the client was told for the converter, whatever changed it since
\* and whether the registers were lost in between; a format the hardware knows
\* is the one that was asked for.
FormatAgreed ==
    /\ running => SD.FORMAT = told
    /\ Supported(streamFormat) =>
          [rate |-> RateOf(told), channels |-> told.chan + 1, bits |-> BitsOf(told)] = streamFormat

\* A stream that runs plays one list, its own, from the first entry to the
\* last, and these hold as many bytes as the cyclic buffer: whichever of the
\* two buffers was set up last, and although freeing the other one and a power
\* cycle clear the registers.  A list cut short is left out.
PlaysItsBuffer ==
    running =>
        /\ SD.BDL /\ SD.tag
        /\ list.of = "dmaBuf" \/ ~truncated => SD.LVI + 1 = list.entries /\ SD.CBL = list.bytes
=============================================================================
