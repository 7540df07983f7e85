-------------------------- MODULE StreamSetupProofs --------------------------
(***************************************************************************)
(* Theorems about StreamSetup, for every page size, length of list, format *)
(* and list of the client's, and every order of its calls.                 *)
(*                                                                         *)
(* The calls build the list of BdlLayout (ListBuilt): its theorems hold of *)
(* them too.  SetupInv says that the registers of a stream that runs are   *)
(* those of the stream's fields, and ListIsOurs what the fields say of the *)
(* list.                                                                   *)
(***************************************************************************)
EXTENDS StreamSetup, BdlLayoutProofs

\* hdac_stream_setup's registers.
SetUp == [CBL |-> bufSz, FORMAT |-> hdac_format(streamFormat), LVI |-> (blocks - 1) % 65536,
          BDL |-> TRUE, tag |-> TRUE]

SetupInv ==
    /\ streamFormat \in Formats /\ told = hdac_format(streamFormat)
    /\ mdlBuf = "building" => ~running /\ list = NoList
    /\ running => SD = SetUp /\ list # NoList

\* The list in use has as many bytes and entries as the stream's fields say,
\* unless it was cut short.
ListIsOurs ==
    /\ list = NoList \/ list.of \in {"mdlBuf", "dmaBuf"}
    /\ list.of = "dmaBuf" \/ (list.of = "mdlBuf" /\ ~truncated) =>
          list.bytes = bufSz /\ list.entries = blocks /\ blocks \in 1 .. MaxEntries + 1

\* The entries counted are at most one more than the list holds.
CountInv == numBlocks \in 0 .. MaxEntries + 1
-----------------------------------------------------------------------------
(* The list is BdlLayout's. *)

\* A call builds the list turn by turn or leaves it alone.
LEMMA LayoutStep == [SetupNext]_allVars => [Next]_vars
BY DEF SetupNext, AllocateBuffer, Build, BufferDone, AllocateContiguous, SetupWithBdl,
       ChangeBandwidth, Run, Stop, Reset, FreeBuffer, FreeContiguous, PowerCycle, allVars

\* The calls of hdaudio.cpp on a stream do what BdlLayout says of its list.
THEOREM ListBuilt == SetupSpec => Spec
<1>1. SetupInit => Init
  BY DEF SetupInit
<1> QED
  BY <1>1, LayoutStep, PTL DEF SetupSpec, Spec

\* Whatever calls come before and after, the list is the client's buffer, ...
THEOREM SetupCovers == SetupSpec => []Covers
BY ListBuilt, ListCoversBuffer, PTL

\* ... interrupts where its halves end, ...
THEOREM SetupInterrupts == SetupSpec => []InterruptPoints
BY ListBuilt, InterruptsAtHalves, PTL

\* ... and is no longer than the memory allocated for it.
THEOREM SetupFits == SetupSpec => []FitsList
BY ListBuilt, ListFits, PTL
-----------------------------------------------------------------------------
(* Formats. *)

\* Fields for this rate, without bits and channels, that mean that rate.
Means(r, b, m, d) ==
    /\ RateFields(r) = [base |-> b, mult |-> m, div |-> d, bits |-> 0, chan |-> 0]
    /\ r = ((IF b = 48 THEN 48000 ELSE 44100) * (m + 1)) \div (d + 1)

\* The fields of a rate that hdac_format knows mean that rate.
LEMMA RateExact ==
  ASSUME NEW r, \E x \in Rates : x[1] = r
  PROVE \E b \in {44, 48}, m \in 0 .. 3, d \in 0 .. 5 : Means(r, b, m, d)
<1> DEFINE x == CHOOSE y \in Rates : y[1] = r
<1>1. x \in Rates /\ x[1] = r
  OBVIOUS
<1>2. RateFields(r) = [base |-> x[2], mult |-> x[3] - 1, div |-> x[4] - 1, bits |-> 0, chan |-> 0]
  BY DEF RateFields, Zero
<1> HIDE DEF x
<1>3. /\ x[2] \in {44, 48} /\ x[3] - 1 \in 0 .. 3 /\ x[4] - 1 \in 0 .. 5
      /\ r = ((IF x[2] = 48 THEN 48000 ELSE 44100) * (x[3] - 1 + 1)) \div (x[4] - 1 + 1)
  <2>1. CASE x = <<8000, 48, 1, 6>>
    BY <2>1, <1>1
  <2>2. CASE x = <<9600, 48, 1, 5>>
    BY <2>2, <1>1
  <2>3. CASE x = <<11025, 44, 1, 4>>
    BY <2>3, <1>1
  <2>4. CASE x = <<16000, 48, 1, 3>>
    BY <2>4, <1>1
  <2>5. CASE x = <<22050, 44, 1, 2>>
    BY <2>5, <1>1
  <2>6. CASE x = <<32000, 48, 2, 3>>
    BY <2>6, <1>1
  <2>7. CASE x = <<44100, 44, 1, 1>>
    BY <2>7, <1>1
  <2>8. CASE x = <<48000, 48, 1, 1>>
    BY <2>8, <1>1
  <2>9. CASE x = <<88200, 44, 2, 1>>
    BY <2>9, <1>1
  <2>10. CASE x = <<96000, 48, 2, 1>>
    BY <2>10, <1>1
  <2>11. CASE x = <<176400, 44, 4, 1>>
    BY <2>11, <1>1
  <2>12. CASE x = <<192000, 48, 4, 1>>
    BY <2>12, <1>1
  <2> QED
    BY <1>1, <2>1, <2>2, <2>3, <2>4, <2>5, <2>6, <2>7, <2>8, <2>9, <2>10, <2>11, <2>12 DEF Rates
<1>4. Means(r, x[2], x[3] - 1, x[4] - 1)
  BY <1>2, <1>3 DEF Means
<1> QED
  BY <1>3, <1>4

\* So do the bits of a width it knows.
LEMMA BitsExact ==
  ASSUME NEW b, \E x \in Bits : x[1] = b
  PROVE \E x \in Bits : BitsField(b) = x[2] /\ b = x[1]
<1> DEFINE x == CHOOSE y \in Bits : y[1] = b
<1>1. x \in Bits /\ x[1] = b
  OBVIOUS
<1>2. BitsField(b) = x[2]
  BY DEF BitsField
<1> HIDE DEF x
<1> QED
  BY <1>1, <1>2

\* A code of AC_FMT_BITS stands for one width.
LEMMA CodeUnique ==
  ASSUME NEW x \in Bits
  PROVE (CHOOSE y \in Bits : y[2] = x[2]) = x
<1> DEFINE y == CHOOSE y \in Bits : y[2] = x[2]
<1>1. y \in Bits /\ y[2] = x[2]
  OBVIOUS
<1>2. \A p, q \in Bits : p[2] = q[2] => p = q
  BY DEF Bits
<1> HIDE DEF y
<1>3. y = x
  BY <1>1, <1>2
<1> QED
  BY <1>3 DEF y

\* A format the hardware knows is the one its converter plays.
LEMMA FormatExact ==
  ASSUME NEW f \in Formats, Supported(f)
  PROVE LET c == hdac_format(f)
        IN  [rate |-> RateOf(c), channels |-> c.chan + 1, bits |-> BitsOf(c)] = f
<1>1. f \in [rate : Nat, channels : Nat, bits : Nat]
  BY FormatAssumption
<1>2. PICK b \in {44, 48}, m \in 0 .. 3, d \in 0 .. 5 : Means(f.rate, b, m, d)
  BY RateExact DEF Supported
<1>3. PICK x \in Bits : BitsField(f.bits) = x[2] /\ f.bits = x[1]
  BY BitsExact DEF Supported
<1> DEFINE c == hdac_format(f)
<1>4. f.channels \in 1 .. 8
  BY DEF Supported
<1>5. c = [base |-> b, mult |-> m, div |-> d, bits |-> x[2], chan |-> f.channels - 1]
  <2>1. ~(f.channels = 0 \/ f.channels > 8)
    BY <1>4
  <2>2. c = [RateFields(f.rate) EXCEPT !.chan = f.channels - 1, !.bits = BitsField(f.bits)]
    BY <2>1 DEF hdac_format
  <2> DEFINE known == [base |-> b, mult |-> m, div |-> d, bits |-> 0, chan |-> 0]
  <2> HIDE DEF c, known
  <2>3. RateFields(f.rate) = known /\ BitsField(f.bits) = x[2]
    BY <1>2, <1>3 DEF known, Means
  <2>4. c = [known EXCEPT !.chan = f.channels - 1, !.bits = x[2]]
    BY <2>2, <2>3
  <2> QED
    BY <2>4 DEF known
<1> HIDE DEF c
<1>6. RateOf(c) = f.rate
  BY <1>2, <1>5 DEF RateOf, Means
<1>7. BitsOf(c) = f.bits
  <2>1. c.bits = x[2]
    BY <1>5
  <2>2. (CHOOSE y \in Bits : y[2] = c.bits) = x
    BY <2>1, CodeUnique
  <2> QED
    BY <1>3, <2>2 DEF BitsOf
<1>8. c.chan + 1 = f.channels
  BY <1>4, <1>5
<1>9. [rate |-> RateOf(c), channels |-> c.chan + 1, bits |-> BitsOf(c)] = f
  BY <1>1, <1>6, <1>7, <1>8
<1> QED
  BY <1>9 DEF c
-----------------------------------------------------------------------------
(* The calls. *)

\* A list of nothing, as it is when the engine was just lent.
LEMMA SetupStarts == SetupInit => SetupInv /\ ListIsOurs /\ CountInv
<1> SUFFICES ASSUME SetupInit PROVE SetupInv /\ ListIsOurs /\ CountInv
  OBVIOUS
<1>1. SetupInv
  BY DEF SetupInit, SetupInv
<1>2. ListIsOurs
  BY DEF SetupInit, ListIsOurs, NoList
<1>3. CountInv
  BY EntryAssumption DEF SetupInit, Init, CountInv
<1> QED
  BY <1>1, <1>2, <1>3

\* hdac_stream_setup, whichever call makes it, leaves the stream's fields in
\* the registers; no call runs a stream that is not set up.
LEMMA SetupKept ==
  ASSUME SetupInv, [SetupNext]_allVars
  PROVE SetupInv'
<1>1. CASE AllocateBuffer
  BY <1>1 DEF AllocateBuffer, SetupInv
<1>2. CASE Build
  BY <1>2 DEF Build, SetupInv, engineVars, SetUp
<1>3. CASE BufferDone
  BY <1>3 DEF BufferDone, SetupInv
<1>4. CASE AllocateContiguous
  BY <1>4 DEF AllocateContiguous, SetupInv, Idle
<1>5. ASSUME NEW l \in ClientLists, SetupWithBdl(l) PROVE SetupInv'
  BY <1>5 DEF SetupWithBdl, SetupInv, Idle
<1>6. ASSUME NEW f \in Formats, ChangeBandwidth(f) PROVE SetupInv'
  BY <1>6 DEF ChangeBandwidth, SetupInv, Idle
<1>7. CASE Run
  BY <1>7 DEF Run, SetupInv, Idle, Setup, SetUp
<1>8. CASE Stop
  BY <1>8 DEF Stop, SetupInv
<1>9. CASE Reset
  BY <1>9 DEF Reset, SetupInv, Idle
<1>10. CASE FreeBuffer
  BY <1>10 DEF FreeBuffer, SetupInv
<1>11. CASE FreeContiguous
  BY <1>11 DEF FreeContiguous, SetupInv, Idle
<1>12. CASE PowerCycle
  BY <1>12 DEF PowerCycle, SetupInv, Idle
<1>13. CASE UNCHANGED allVars
  BY <1>13 DEF allVars, engineVars, SetupInv, SetUp
<1> QED
  BY <1>1, <1>2, <1>3, <1>4, <1>5, <1>6, <1>7, <1>8, <1>9, <1>10, <1>11, <1>12, <1>13
     DEF SetupNext

\* Each loop is left when the count passes the list's size, and lowers it.
LEMMA CountKept ==
  ASSUME TypeOK, CountInv, [Next]_vars
  PROVE CountInv'
<1>1. ASSUME NEW len, NEW last, Describe(len, last) PROVE CountInv'
  BY <1>1, EntryAssumption DEF Describe, TooMany, CountInv
<1>2. ASSUME NEW next, GiveUp(next) PROVE CountInv'
  BY <1>2, EntryAssumption DEF GiveUp, CountInv
<1>3. CASE numBlocks' = numBlocks
  BY <1>3 DEF CountInv
<1> QED
  BY <1>1, <1>2, <1>3
     DEF Next, HalfStep, HalfGiveUp, HalfDone, RestStep, RestGiveUp, RestDone, vars

\* A list that was not cut short describes the buffer, with as many entries as
\* were counted.
LEMMA BuiltList ==
  ASSUME ListInv, CountInv, loop = "done", ~truncated
  PROVE /\ Described(Len(bdl)) = requested
        /\ Len(bdl) = numBlocks /\ numBlocks \in 1 .. MaxEntries + 1
<1>1. TypeOK /\ CursorInv /\ HalfInv /\ numBlocks = Len(bdl)
  BY DEF ListInv, Inv, FitInv
<1>2. Listed = requested /\ requested > 0
  BY <1>1 DEF CursorInv, HalfInv, Listed, TypeOK
<1>3. bdl # <<>>
  BY <1>1, <1>2 DEF CursorInv, Listed, TypeOK
<1>4. Len(bdl) \in Nat /\ Len(bdl) # 0
  BY <1>1, <1>3, EmptyLen DEF TypeOK
<1>5. Described(Len(bdl)) = Last - First
  BY <1>4 DEF Described, Last, First
<1>6. Last - First = Listed
  BY <1>1, <1>3 DEF CursorInv
<1>7. numBlocks \in 1 .. MaxEntries + 1
  BY <1>1, <1>4, EntryAssumption DEF CountInv
<1> QED
  BY <1>1, <1>2, <1>5, <1>6, <1>7

\* The fields follow the list that was set up last.
LEMMA OursKept ==
  ASSUME ListInv, CountInv, SetupInv, ListIsOurs, [SetupNext]_allVars
  PROVE ListIsOurs'
<1> USE DEF ListIsOurs
<1>1. CASE AllocateBuffer
  BY <1>1 DEF AllocateBuffer, NoList
<1>2. CASE Build
  <2>1. list' = NoList
    BY <1>2 DEF Build, SetupInv, engineVars
  <2> QED
    BY <2>1 DEF NoList
<1>3. CASE BufferDone
  <2>1. /\ list' = [of |-> "mdlBuf", bytes |-> Described(Len(bdl)), entries |-> Len(bdl)]
        /\ bufSz' = requested /\ blocks' = numBlocks /\ truncated' = truncated /\ loop = "done"
    BY <1>3 DEF BufferDone, vars
  <2>2. /\ list'.of = "mdlBuf" /\ list'.bytes = Described(Len(bdl))
        /\ list'.entries = Len(bdl)
    BY <2>1
  <2> QED
    BY <2>1, <2>2, BuiltList
<1>4. CASE AllocateContiguous
  BY <1>4 DEF AllocateContiguous, vars
<1>5. ASSUME NEW l \in ClientLists, SetupWithBdl(l) PROVE ListIsOurs'
  <2>1. /\ list' = [of |-> "dmaBuf", bytes |-> l.bytes, entries |-> l.entries]
        /\ bufSz' = l.bytes /\ blocks' = l.entries
    BY <1>5 DEF SetupWithBdl
  <2>2. l.entries \in 1 .. MaxEntries + 1
    BY ListAssumption, EntryAssumption
  <2> QED
    BY <2>1, <2>2
<1>6. ASSUME NEW f \in Formats, ChangeBandwidth(f) PROVE ListIsOurs'
  BY <1>6 DEF ChangeBandwidth, vars
<1>7. CASE Run
  BY <1>7 DEF Run, vars
<1>8. CASE Stop
  BY <1>8 DEF Stop, vars
<1>9. CASE Reset
  BY <1>9 DEF Reset, vars
<1>10. CASE FreeBuffer
  <2>1. list' = list \/ list' = NoList
    BY <1>10 DEF FreeBuffer
  <2>2. bufSz' = bufSz /\ blocks' = blocks /\ truncated' = truncated
    BY <1>10 DEF FreeBuffer, vars
  <2> QED
    BY <2>1, <2>2 DEF NoList
<1>11. CASE FreeContiguous
  <2>1. list' = list \/ list' = NoList
    BY <1>11 DEF FreeContiguous
  <2>2. bufSz' = bufSz /\ blocks' = blocks /\ truncated' = truncated
    BY <1>11 DEF FreeContiguous, vars
  <2> QED
    BY <2>1, <2>2 DEF NoList
<1>12. CASE PowerCycle
  BY <1>12 DEF PowerCycle, vars
<1>13. CASE UNCHANGED allVars
  BY <1>13 DEF allVars, engineVars, vars
<1> QED
  BY <1>1, <1>2, <1>3, <1>4, <1>5, <1>6, <1>7, <1>8, <1>9, <1>10, <1>11, <1>12, <1>13
     DEF SetupNext
-----------------------------------------------------------------------------
(* The theorems. *)

\* What holds of a stream through all the calls of its client.
SetupInd == ListInv /\ CountInv /\ SetupInv /\ ListIsOurs

LEMMA SetupHolds == SetupSpec => []SetupInd
<1>1. SetupInit => SetupInd
  BY ListInit, SetupStarts DEF SetupInd, SetupInit
<1>2. SetupInd /\ [SetupNext]_allVars => SetupInd'
  <2> SUFFICES ASSUME SetupInd, [SetupNext]_allVars PROVE SetupInd'
    OBVIOUS
  <2>1. [Next]_vars /\ TypeOK
    BY LayoutStep DEF SetupInd, ListInv, Inv
  <2> QED
    BY <2>1, ListKept, CountKept, SetupKept, OursKept DEF SetupInd
<1> QED
  BY <1>1, <1>2, PTL DEF SetupSpec

\* A stream runs with the format its converter was told, and that is the one
\* the client asked for wherever the hardware knows it.
THEOREM FormatsAgree == SetupSpec => []FormatAgreed
<1>1. ASSUME SetupInd PROVE FormatAgreed
  <2>1. /\ streamFormat \in Formats /\ told = hdac_format(streamFormat)
        /\ running => SD = SetUp
    BY <1>1 DEF SetupInd, SetupInv
  <2>2. running => SD.FORMAT = told
    BY <2>1 DEF SetUp
  <2>3. Supported(streamFormat) =>
          [rate |-> RateOf(told), channels |-> told.chan + 1, bits |-> BitsOf(told)]
             = streamFormat
    BY <2>1, FormatExact
  <2> QED
    BY <2>2, <2>3 DEF FormatAgreed
<1> QED
  BY <1>1, SetupHolds, PTL

\* SD_LVI holds the last valid index of any list.
LEMMA LviFits ==
  ASSUME NEW n \in 1 .. MaxEntries + 1
  PROVE (n - 1) % 65536 = n - 1
<1> DEFINE W == 65536
<1>1. W \in Nat \ {0} /\ MaxEntries < W
  BY LviAssumption
<1> HIDE DEF W
<1>2. n - 1 \in 0 .. W - 1
  BY <1>1, EntryAssumption
<1>3. (n - 1) % W = n - 1
  BY <1>1, <1>2, ModSmall
<1> QED
  BY <1>3 DEF W

\* A stream that runs plays one list of its own, all of it, and as many bytes
\* as the cyclic buffer has.
THEOREM StreamsPlayTheirBuffer == SetupSpec => []PlaysItsBuffer
<1>1. ASSUME SetupInd, running PROVE PlaysItsBuffer
  <2>1. SD = SetUp /\ list # NoList /\ ListIsOurs
    BY <1>1 DEF SetupInd, SetupInv
  <2>2. SD.BDL /\ SD.tag /\ SD.CBL = bufSz /\ SD.LVI = (blocks - 1) % 65536
    BY <2>1 DEF SetUp
  <2>3. ASSUME list.of = "dmaBuf" \/ ~truncated
        PROVE  SD.LVI + 1 = list.entries /\ SD.CBL = list.bytes
    <3>1. list.bytes = bufSz /\ list.entries = blocks /\ blocks \in 1 .. MaxEntries + 1
      BY <2>1, <2>3 DEF ListIsOurs
    <3>2. SD.LVI = blocks - 1
      BY <2>2, <3>1, LviFits
    <3> QED
      BY <2>2, <3>1, <3>2
  <2> QED
    BY <2>2, <2>3 DEF PlaysItsBuffer
<1>2. ~running => PlaysItsBuffer
  BY DEF PlaysItsBuffer
<1> QED
  BY <1>1, <1>2, SetupHolds, PTL
=============================================================================
