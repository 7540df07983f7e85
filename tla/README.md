# sklhdaudbus in TLA+

`sklhdaudbus` is a Windows (KMDF) bus driver for Intel and AMD HD Audio
controllers. It resets the controller, finds the codecs on its link and gives
each a child device; the function drivers of those children send verbs to their
codec and borrow DMA engines through the HDAUDIO bus interface, and the driver
of the audio DSP borrows DMA engines through the ADSP interface.

This directory models the parts of the driver in which several parties share
state: the interrupt and its DPC, the callers of the codec, the borrowers of
the engines, the DPC and those it notifies, the framework that powers the device up
and down and deletes its children. It also models the algorithms whose mistakes
a test does not hear, the buffer descriptor list and the stream format. Source names are kept wherever they could be;
paths below are relative to `src/sklhdaudbus/`.

## 1. The system

| component | code | state it keeps | operations |
|---|---|---|---|
| Interrupt path | `hdac_controller.cpp` (`hda_interrupt`, `hda_stream_interrupt`, `hda_dpc`, `HDAFlushRIRB`) | `processRirb`, `irqReceived` of each stream, `rirb.rp`, `rirb.wp`, `ControllerEnabled`; in the controller `RIRBWP`, `RIRBSTS`, `SD_STS`, the ring | ISR, DPC, reset in D0 entry and exit |
| Codec commands | `hdac_controller.cpp` (`SendHDACmds`, `RunSingleHDACmd`, `HDAFlushRIRB`), `hdaudio.cpp` (`HDA_TransferCodecVerbs`, `HDA_WaitForTransfer`, `HDA_AsyncWait`) | per codec `cmds`, `xfer[]`, `xferEvent[]`; the CORB and its pointers; idle references | send a batch, wait, time out, dispatch a response |
| DMA engines | `hdaudio.cpp`, `hdac_stream.cpp`, `adsp.cpp` | per stream its owner, `running`, `mdlBuf`, `dmaBuf`, the list it plays; `INTCTL`, `PPCTL`, `SD_CTL` | allocate, free, set up, run, stop, trigger |
| Buffer descriptor list | `hdaudio.cpp` (`HDA_AllocateDmaBufferWithNotification`) | the list, its loops' locals | build |
| Stream notifications | `hdaudio.cpp`, `hda_dpc` | `registeredEvents[]`, `registeredCallbacks[]` | register, unregister, notify |
| Unsolicited events | `hdaudio.cpp`, `HDAFlushRIRB` | `unsolitCallbacks[]` of each child | register, unregister, call |
| Controller life cycle | `hdac_controller.cpp`, `fdo.cpp` | `ControllerEnabled`, register setup, streams and their tags | prepare and release hardware, D0 entry and exit, post interrupts |
| Codec enumeration | `fdo.cpp`, `buspdo.cpp` | `codecMask`, `numCodecs`, `codecs[]`, the child list | enumerate, create a child |
| Shared graphics codec | `sgpc.cpp` | the graphics device's interface and F-state | enumerate, eject |
| Stream format | `hdac_stream.cpp` (`hdac_format`) | none | pack a format into `SD_FORMAT` |
| DSP interface | `adsp.cpp` | the streams lent to the DSP, its interrupt callback | as for engines, plus registers |
| Firmware tables | `nhlt.cpp`, `sof-tplg.cpp` | copies of two ACPI tables | read |
| Driver entry, registers | `sklhdaudbus.cpp`, `regfuncs.h`, `hda_registers.h` | none | |

How they meet:

- the ISR (at DIRQL, under the interrupt lock) leaves `processRirb` and
  `irqReceived` for the DPC; the DPC takes no lock;
- `SendHDACmds` holds the interrupt lock while it posts; so the ISR cannot run
  then, but a DPC on another processor can, and `HDAFlushRIRB` changes the same
  `cmds`, `xfer` and event;
- a waiting call and the DPC meet in a notification event per codec, which is
  set by one and cleared by the other;
- function drivers and the DSP driver take engines from the same array and
  write the same `INTCTL` and `PPCTL`, mostly under the interrupt lock;
- the DPC calls what function drivers registered, for buffers that complete
  (`registeredCallbacks`, `registeredEvents`, which no lock protects) and for
  unsolicited responses (`unsolitCallbacks`, which it copies without the lock
  their writers hold, through `codecs[]`, which nobody clears);
- the framework powers the device down and up with the interrupt disconnected
  and the DPCs flushed; idle references (`WdfDeviceStopIdle`) keep it from
  doing so.

What is hard about it: read-modify-writes and flags shared without a lock
(interrupt path, commands, `INTCTL`), a ring that must not be misread when it
wraps or after a power cycle, answers that are late or never come, a batch that
fails half way, resources lent to two kinds of clients and taken back in states
nobody tested, and arithmetic at page boundaries. `PROJECT.json` lists each of
these hazards at its line with the properties that would show it going wrong.

What makes each component correct:

- interrupt path: every response dispatched once and in order; no response and
  no buffer completion forgotten, whatever the interleaving;
- commands: a response goes to the transfer of its own command; success means
  answered, timeout means unanswered; nothing is written to a transfer its
  owner has back; no lost wake-up; every call returns;
- engines: an engine is lent to one client; no DMA to memory given back; the
  interrupt enable and DSP bits agree with the streams' state; references
  balance;
- descriptor list: entries stay in a page, follow one another without gap,
  cover the buffer and interrupt at its half and its end;
- setup: the registers of a running stream name its own buffer, all of it, and
  the format its client programmed into the converter;
- notifications and unsolicited events: everyone registered is told, with his
  own context, and nobody else; no call through a slot half filled or given
  back;
- life cycle and enumeration: a controller that refuses to reset still stops
  its DMA before its memory is freed, everything acquired is freed once, no
  codec is sent a command before its event exists; `codecs[]` names only live
  children.

## 2. Modules

| module | models | composes / refines |
|---|---|---|
| `ResponseChannel` | what the response path promises: a FIFO without loss or repetition, emptied by a power cycle | |
| `InterruptPath` | the controller's ring and causes, ISR, DPC, D0 entry and exit | implements `ResponseChannel` |
| `InterruptPathProofs` | theorems about `InterruptPath` | |
| `CodecTransfer` | callers, DPC, CORB and codecs; the RIRB is the FIFO `InterruptPath` implements | |
| `MCCodecSerial`, `MCCodecBatch` | small sets of calls for TLC | |
| `CodecTransferProofs` | theorems about `CodecTransfer` | |
| `DmaEngine` | streams, their clients, `INTCTL`, `PPCTL` | |
| `MCDmaEngine` | symmetry of the clients | |
| `DmaEngineProofs` | theorems about `DmaEngine` | |
| `BdlLayout` | one request, one turn of a loop per step | |
| `BdlLayoutProofs` | theorems about `BdlLayout` | |
| `MCBdlLayout` | the aligned sizes of the finding | |
| `StreamSetup` | `hdac_format`, `hdac_stream_setup` and the calls on one engine | `EXTENDS BdlLayout`, whose loops are its step `Build` |
| `MCStreamSetup` | formats, request sizes, a client's list | |
| `StreamSetupProofs` | theorems about `StreamSetup`, among them that it implements `BdlLayout` | `EXTENDS BdlLayoutProofs` |
| `StreamNotify` | the notification tables, their writer, the DPC's loops | continues `InterruptPath` after `irqReceived` |
| `MCStreamNotify` | three registrations that share parts | |
| `StreamNotifyProofs` | theorems about `StreamNotify` | |
| `CodecBus` | child devices, `codecs[]`, unsolicited callbacks, `HDAFlushRIRB`'s use of both | |
| `MCCodecBus` | symmetry | |
| `CodecBusProofs` | theorems about `CodecBus` | |
| `ControllerLife` | prepare, power up, scan, power down and release, with their failures | |
| `ControllerLifeProofs` | theorems about `ControllerLife` | |

Each module has a type invariant, its other properties under it, and next to a
definition its *mutants*: the same definition with a plausible mistake. A mutant
takes no part in the specification; it exists to show that a property notices
the mistake (`PROJECT.json`, `mutants`).

### InterruptPath

Every access to state that two parties share is one step. The ISR reads
`INTSTS` and walks the streams (`IsrEnter`, `IsrReadStream`, `IsrAckStream`,
`IsrFlagStream`, `IsrQueueStream`), then `RIRBSTS` (`IsrReadRirb`, `IsrAckRirb`, `IsrFlagRirb`,
`IsrQueueRirb`). The DPC tests and clears each `irqReceived`, notifies, tests
and clears `processRirb`, reads `RIRBWP` and dispatches slot by slot (`Dpc*`,
`Flush*`). The controller posts a response as one step (memory, pointer, cause)
and may raise causes that carry nothing (`RaiseError`) or read as all ones
(`Vanish`). `D0Exit` and `D0Entry` happen only in `Quiet` states, which is what
the framework guarantees by disconnecting the interrupt and flushing the DPC.
One DPC runs at a time. Responses carry their number, so that `delivered` shows
both order and identity; `done` and `seen` count buffer completions and the
value of that count at the last notification.

Bound that matters: `MaxPending < N`. The driver keeps no count of responses in
the ring; a full lap between two looks at `RIRBWP` is invisible to it. It is
reached neither by the 256 commands the CORB holds nor, in practice, by
unsolicited responses, and nothing is claimed beyond it.

### CodecTransfer

A verb is the transfer that carries it, `<<call, k>>`; a response is the verb it
answers. `Begin` to `Return` are the caller: the idle reference, the lock, the
test for a full CORB, `InterlockedIncrement` of `cmds`, `xfer` and CORB written,
the wait with its expiry, the counting of valid responses, the lowering of
`cmds` by what is missing. A call that is refused before it has its idle
reference (`hdaudio.cpp`, lines 78 to 103) changes nothing and is no step.
`Flush*` are the DPC's steps on the same variables: credit `xfer[0]`, shift,
decrement, set the event. `Fetch` is the controller and codec: a command is
taken from the CORB and answered, or lost. The RIRB is a sequence, by
`InterruptPath!ImplementsChannel`.

Constants choose the environment. `Serialised`: one call at a time on a codec.
`Smp`: the DPC may run while a caller holds the lock, which it can only on
another processor. `Losses`: a codec may not answer. `LateAnswers`: a wait may
expire before its answer comes. `Vanishes`: the controller falls asleep. Each
property is checked in the most hostile environment in which it holds.

### DmaEngine

The clients of both interfaces, one operation at a time each; an allocation
whose `WdfDeviceStopIdle` fails lends nothing and is no step. A region under the
interrupt lock is one step unless it updates `INTCTL`, which is a read and a
write (`hda_update32`), and `ADSPStartStopDSP` makes both without the lock.
`held` is what a client thinks it has, `owner` what the driver thinks. `Sleep`
is a power cycle; it needs every idle reference back. Buffers are given back
before an engine is freed, as the HDAUDIO contract demands of clients
(`FreeBegin`); the driver does not check it.

### BdlLayout

`Init` is the arithmetic before the loops (half size, offset into the first
page), `HalfStep` and `RestStep` one turn of the two loops, `HalfGiveUp` and
`RestGiveUp` the exits "Too many BDL entries!". A position is a byte of the
allocated memory, so `Start` and `End` compare what the list names with what the
client was told.

### StreamSetup

One engine after it was lent. `Build` is the loops of `BdlLayout`, the other
actions are the calls of `hdaudio.cpp` that `DmaEngine` interleaves; here each is
one step, and the registers are kept: `CBL`, `LVI`, `FORMAT` with their values,
the list's address and the tag as "the stream's own or not". A format is a
record of the register's fields, not a number; `RateOf` and `BitsOf` are what a
converter takes the fields to mean. `list` is what the memory of the list
describes: `HDA_AllocateDmaBufferWithNotification` and the client that writes
its own list share it. The engine starts with what its last owner left. One
buffer is allocated in a behaviour; a client runs only an engine that has a
list, since the driver tests nothing of the kind.

### StreamNotify

Every store into a callback's entry and every load from it is a step. They are
plain accesses, so those between two interlocked operations, or between a test
and what depends on it, may come in any order (`todo`, `toLoad`). The client
makes one call at a time; with it, and the DPC on the other processor, the
tables have one writer and one reader. `changed` remembers whether a call was at
work on the entry at which the DPC is, since it tested `InUse`; `amiss` that an
unregistration took another entry than its own (see below). A null pointer that
is used ends the behaviour (`halted`).

### CodecBus

A description is an address and the bytes nobody assigned (`junk`: the padding
of `CODEC_IDS`, and `SubsysId` when its command fails), because the framework is
given `RtlCompareMemory` over the whole to tell descriptions apart. A device is
pending until `Bus_CreatePdo`, and is freed by the framework after it was
reported missing and its driver has unregistered. `EjectGraphicsCodec` is three
steps: the test of `codecs[]`, the copy through it, the report under the lock;
or one, `EjectDropped`, when `codecs[]` has no device yet and it returns at once.
`inF0` remembers which callback came last, whatever the driver made of it. The
graphics callbacks come one at a time. `Register` and `Unregister` hold the
lock, their stores and the DPC's loads of the copy come in any order. A read of
the context of a freed device has no defined outcome, so a behaviour ends there
(`badRead`); the model reaches it, both in the DPC and in `EjectGraphicsCodec`.

### ControllerLife

The framework calls the handlers in the order of its state machine (`pnp`), one
at a time; each is one action, except that the loops over codec addresses take
one step per address (`PostAddr`, `ScanAddr`) because the graphics driver's
callbacks (`GraphicsOn`, `GraphicsOff`) may come in between. `Prepare` chooses
how far it gets; D0 exit is two steps (`D0Exit`, `D0ExitDone`), the reset and the
clearing of `ControllerEnabled`. `D0Entry` and `D0Exit` choose whether the controller obeys
(`EntersReset`) or stays up (`StaysUp`). A handler that fails leads to
`Release`. A pointer is null, live, or dangling, which is what `Release` makes
of those it frees without assigning NULL. `codecMask` keeps the first value of
`STATESTS` that is not zero; later power ups may read any other. `RunStream`
stands for all that `DmaEngine` does.

## 3. What TLC checks

| run | environment and bounds | shows |
|---|---|---|
| `interrupt_safety` | ring of 3, 2 pending, 4 responses, 1 stream, errors | the refinement `ImplementsChannel`, with errors, power cycles and `Vanish` |
| `interrupt_live` | ring of 3, 3 responses, 2 streams, 2 completions in a power cycle (of one stream, or one of each), no errors | `NothingForgotten`, and under fairness `ResponsesDelivered`, `CompletionsSeen` |
| `codec_serial` | three single verbs on two codecs, CORB of 2, SMP, losses, vanishing | exact accounting (`SuccessMeansAnswered`, `TimeoutMeansLost`, `QueueSound`, `EventExact`), `CorbIntact` and `CallsReturn` |
| `codec_batch` | batches of two, sync and async, CORB of 4, DPC kept out by the lock | `AnswersMatch`, `QueueAgrees`, `IdleBalanced` |
| `codec_smp` | batches with SMP | finding: `TimeoutMeansLost` is violated |
| `codec_late` | late answers | finding: `AnswersMatch` is violated |
| `stream_setup` | sizes 1 to 60, pages of 4, list of 6, one and two notifications; 21 formats | `Covers`, `InterruptPoints`, `FitsList` of the list; `FormatAgreed`, `PlaysItsBuffer` of the registers |
| `bdl_aligned` | halves that are whole pages | finding: `StartsAtOffset` is violated |
| `dma` | two function drivers and the DSP driver, 1 stream of each direction, unlocked triggers | `OneReferenceEach`, `SieAgrees`, `NoDmaToFreedMemory`, `FreeMeansClean`, `HandlesAreOwners`, `ProcenAgrees` |
| `controller_life` | three codec addresses, the graphics codec in the middle, two starts | `NoDmaToReleasedMemory`, `EnabledMeansUp`, `EventReady`, `ChildrenAreWoken`, `ReleasedOnce` |
| `stream_notify` | tables of 2, three registrations, an event, two buffers completed | `CallsAreWhole`, `RegistrationsKept`, and under fairness `OwedAreCalled` |
| `codec_bus` | the graphics codec and another, two descriptions, two threads, two tags, two values of unassigned bytes | `TagsAreOwn`, `ResponsesReachTheirCallback`, `PointersFollow`, `GoneWhenEjected` |

Why these bounds suffice: the ring of three wraps within one power cycle and
again after the next, while the DPC is between reading `RIRBWP` and the last
slot; two pending responses are what it takes for one to be dispatched while
another arrives. Of two completions of a stream (`MaxDone`) the second is
flagged before or after the DPC clears `irqReceived` for the first, and shares
its notification or needs one of its own, while the ISR and the DPC pass the
other stream; `MaxDonePair` lets the two streams have two completions between
them. Two calls on one codec and one on another give every pair of sharers
(caller and caller, caller and DPC, codec and codec); a CORB of two is full with
one command. For the list, sizes run through every residue of a page and past
the end of the list. The formats take every rate and width `hdac_format` knows
and one of each it does not, and numbers of channels on both sides of its
limits. Three clients and a stream of each direction are enough to lose one
`INTCTL` update, with the lock and without, and to lend an engine twice. Two
starts of the device are what a rebalance takes, and a third would meet the same
pointers as the second; a graphics codec with a codec on either side is skipped
by the loops while they go on. Two entries are enough for one to change while
the DPC is at the other or at itself, and three registrations for them meet a
full table; the second completion comes while the DPC is still at the first. Two
descriptions let the graphics codec come, go and come back, or leave it one
device and the other codec one; the two threads meet on one device, on two, and
on one tag.
`CHECK_DEADLOCK FALSE` stands only in the configuration of `BdlLayout`, whose
function returns.

Fairness. `InterruptPath!FairSpec` is weakly fair to the ISR and the DPC: a
raised interrupt is taken and a queued DPC runs. Nothing is assumed of the
controller or of power changes. `CodecTransfer!FairSpec` adds the callers
(threads are scheduled; their waits have a timeout, so an expiry is always
possible) and `Fetch`, the controller's progress through the CORB, which is not
fair to any answer: a codec may stay silent for ever. `StreamNotify!FairSpec` is
weakly fair to the DPC alone: `irqReceived` means that it is queued, and no
client has to do anything for it to get through its loops.

### Findings

- `codec_smp`: `HDAFlushRIRB` sets the event when `cmds` is zero, also while
  another processor is still posting the rest of the batch. The wait then ends
  at once and reports `STATUS_IO_TIMEOUT` although every verb is answered.
- `codec_late`: a response is credited to the first transfer of its codec,
  whatever it answers. After a timeout whose answer comes late, the next call
  on the codec gets it.
- `bdl_aligned`: when half of the buffer is a whole number of pages the client
  is told an offset of a whole page, but the list begins with page 0.

Met while modelling, without a run of its own; a property is stated around each:

- `HDA_UnregisterNotificationCallback` skips an entry only if it is in use and
  *both* its callback and its context differ (`hdaudio.cpp:875`). A free entry
  before the right one is taken, and its null `Fdo` dereferenced; so is an entry
  that shares one of the two. `StreamNotify!Taken` is that condition;
  `RegistrationsKept` holds until it takes another entry (`amiss`).
- the notification tables have no lock: an entry may be called half filled,
  half cleared or after it was unregistered. `CallsAreWhole` says that this
  takes a call at work on that very entry.
- `ADSPStartStopDSP` updates `INTCTL` without the lock. `lost` collects the
  streams whose bit such an update put back; `SieAgrees` speaks of the others.
- `codecs[]` is never cleared, so the DPC and `EjectGraphicsCodec` read the
  context of a deleted device until its successor exists (`badRead`).
- two enumerations of one codec may differ in the bytes nobody assigns; then it
  becomes two devices, or one that an eject does not find (`Mixed`).
- an eject that finds no device yet (`sgpc.cpp:100`) is dropped: the codec stays
  present and `GraphicsCodecConnected` set. `GoneWhenEjected` says that only the
  first device the codec ever had can be missed in this way.
- `StopHDAController` clears `ControllerEnabled` after the reset; in between only
  the framework, which disconnected the interrupt, keeps the ISR away
  (`EnabledMeansUp` leaves out this window).
- the list's test for too many entries is off by one in both loops (`FitsList`
  is stated below that size).
- with FIFO errors or RIRB overruns a cause can be acknowledged unseen
  (`NothingForgotten` is stated without errors).
- a full CORB in the middle of a batch leaves verbs of a failed call posted, and
  overlapping calls on one codec settle each other's verbs: the runs of
  `CodecTransfer` have neither.
- a graphics callback during power up waits for an event that is not initialised
  yet (`EventReady` allows this case alone).
- a restart whose `PrepareHardware` fails early, or one after a graphics
  notification was registered, frees twice what `ReleaseHardware` did not set to
  NULL (`ReleasedOnce` says when it does not).
- `pci_write_cfg_dword` (`regfuncs.h:37`) reads instead of writing, so that the
  clock gating bit D0 entry means to clear and set never changes. No module has
  PCI configuration space.

## 4. What is proved

TLAPS checks 55 theorems, and 235 lemmas they rest on, in eight modules, one for
each component. Every invariant of the passing runs and the refinement
`ImplementsChannel` is stated by a theorem, for all values of the constants that
the named assumptions of its module allow. The assumptions say what the code
says of its parameters: sizes are natural numbers, sets of parties that are
counted are finite, `NULL` is none of the things it is compared with. Those that
say more are `MaxPending < N` (`RingAssumption`, section 2), a list of fewer than
65536 entries (`LviAssumption`: `SD_LVI` has 16 bits, the driver's lists have 256
entries), and registrations with a callback and a driver's object (`RegAssumption`:
the driver calls the one and dereferences the other without a test; the context
may be null).

Each proof has the same shape: a conjunction of named parts that the initial
states satisfy and each action keeps, one lemma per part or per group of
actions, and a last step by `PTL`. Before it was proved each inductive invariant
was checked by TLC on the run's instance.

`InterruptPathProofs`, from `RingAssumption`, `StreamAssumption` and
`BoundAssumption`:

- `TypeCorrect`: `Spec => []TypeOK`.
- `DeliveryInOrder`: `Spec => []InOrder`. `InOrder` alone is not inductive, for
  it says nothing of the ring. The invariant `RingInv` adds where the waiting
  responses lie: `WaitingInRing` says that the d-th response that waits is d
  slots ahead of `rp`, that `RIRBWP` is as many slots ahead as responses wait,
  and that fewer than `N` do; `FlushTarget` says that the DPC's local `wp` is
  some way between the two; `PoweredDown` says that nothing is outstanding
  without power. "d slots ahead" is `Ahead`, an IF instead of a remainder, so
  that the step of an index is linear arithmetic; `AheadFacts` is what the
  steps need of it.
- `PathImplementsChannel`: `Spec => ImplementsChannel`. Under `RingInv` a
  response posted is `Post`, `FlushOne` is `Deliver` of the right number, D0
  entry is `Reset`, all other steps stutter.
- `ResponsesKept`: `Spec => []NoLostResponse`. `IsrInv` says what the ISR holds
  at each of its steps, `HandoverInv` joins it with `RingInv`: when the DPC is
  through with its loop and nothing new was raised, the ring is empty
  (`CaughtUp`).
- `CompletionsKept`: `Spec => []NoLostCompletion`, by the same argument stream
  by stream (`Held`, `HeldKept`); `WorkKept` is the two together.

`CodecTransferProofs` has three inductive invariants, because what holds
depends on who else is about: a response carries no command, and the driver
credits it to the first transfer of its codec.

- `BaseInv` holds in every environment, for calls that overlap, late answers
  and losses too: who is inside has the lock, a batch posts its verbs in
  order, a command that passed the check has room (`RoomInv`), and every
  posted verb is in one place only: the CORB, the RIRB, the DPC's hands or
  lost (`PlaceInv`). From it `TypeCorrect` and `CommandsIntact`. `IdleInv`
  counts references: one for each call under way and one for each asynchronous
  call whose send was refused. So `IdleBalanced` holds as long as none was
  (`ReferencesReturned`), and what is left when all calls are over is exactly
  those (`ReferencesLeft`): the leak at `hdaudio.cpp:142`, and no other.
- `OneVerbInv`, if calls of one verb take turns on their codec and no answer
  comes after its wait has expired (`OneVerb`: the environment of
  `codec_serial`, with a DPC on another processor, losses and a controller
  that vanishes). Every call is in one of seven phases (`Phase`), each of
  which says where its verb is, what `cmds`, `xfer` and the event of its
  codec hold and where the DPC is; between calls a codec is `Quiet`
  (`FreeInv`). From it `SuccessIsAnswered`, `TimeoutIsLoss`, `QueueIsSound`,
  `EventIsExact`, `OneAnswerMatches`.
- `BatchInv`, if batches of any length take turns, every verb is answered and
  the lock keeps the DPC out (`OneProcessor`: the environment of
  `codec_batch`), until one is refused half way (`NoneSplit`). `Progress` says
  how many verbs of a batch the DPC took, credited and shifted away; that
  these are its first verbs follows from the order in which responses come
  (`FifoInv`). From it `AnswersAreMatched`, `BatchIsAnswered`, `QueueIsExact`,
  `BatchesAreSound`.

The conditions cannot be dropped: `codec_smp` and `codec_late` violate the
properties without them, and with a CORB of three entries TLC finds
`QueueAgrees` violated after a batch was refused half way.

`DmaEngineProofs`, from `ClientAssumption` and `StreamAssumption`. `Ind` joins
to `SieAgrees` whose stream an operation is about (`CurInv`), who holds the lock
(`LockInv`), what an operation found before it waited for it and is still so
(`StillInv`), which memory a list names (`MemInv`), and in which bits a value
that was read from `INTCTL` may be out of date when it is written back
(`SnapInv`). From it follow `InterruptFollowsRunning`, `FreedMemoryUntouched` and
`EnginesLeftClean`; `EnginesLentOnce` and `ReferencesBalance` are inductive next
to it; `DspHasItsStreams` needs a bit of `PPCTL` for every stream.
`LockedUpdatesKept`: without `ADSPStartStopDSP` no update of `INTCTL` is lost at all.

`StreamNotifyProofs`, from `TableAssumption`, `RegAssumption` and
`NullAssumption`. An entry is `Settled` when no call is at work on it. `TabInv`
and `RefInv` say that settled entries are whole and counted by their driver's
object, `ForceInv` that they are the registrations in force, `WorkInv` what a
call has stored so far in whatever order, `DpcInv` that the DPC has what is in
the entry it is at unless it changed. From them `CallsWhole` and
`RegistrationsAreKept`.

`CodecBusProofs`, from `AddrAssumption` and `NullAssumption`. `HoldInv` and
`EntryInv` say what the lock does for the tables of callbacks, `CopyInv` what the
DPC knows without it: `TagsNotShared`, `ResponsesReach`. `ChildInv`, `OneDevice`
and `EjectInv` follow a description from the scan to its device, `codecs[]` and
the eject, `FirstInv` those whose eject was dropped: `PointersAreFollowed`,
`EjectedIsGone`. `OneDevice` is `PointersFollow`
with "the descriptions of the codec agree" in place of its history.

`StreamSetupProofs`: `ListBuilt` is `SetupSpec => Spec`, the calls of
`hdaudio.cpp` implement `BdlLayout`: a call takes one turn of its loops or leaves
the list alone. So the theorems of `BdlLayoutProofs` hold whatever calls come
before and after (`SetupCovers`, `SetupInterrupts`, `SetupFits`). `SetupInv` says
that the registers of a stream that runs are those `hdac_stream_setup` computes
from the stream's fields, `ListIsOurs` and `CountInv` what these say of the list:
`FormatsAgree`, `StreamsPlayTheirBuffer`.

`ControllerLifeProofs`, for every number of codec addresses, any set of graphics
codecs and any number of starts, from `AddrAssumption` and `StartAssumption`,
proves its type invariant and every property its run checks: `TypeCorrect`, `ReleasedMemoryUntouched`,
`IsrSeesController`, `EventsInitialised`, `ChildrenWoken`, `NothingFreedTwice`.
None of them is inductive. `PhaseInv` adds what each phase of the framework
says of pointers, DMA and registers (a ring runs only between a D0 entry that
worked and the next reset); `LoopInv` and `ChildInv` say how much of the loops
over addresses is done, and that a mask once latched holds every child that is
not a graphics codec; `FreeInv` says what may dangle: nothing before the second
start, later only the graphics notification as long as no handler failed.

`BdlLayoutProofs`, for every page size, every size of the list and every request,
from `PageAssumption`, `EntryAssumption` and `RequestAssumption`, proves every property of the list: `TypeCorrect`, `EntriesWithinPage`,
`ListContiguous`, `WholeBufferListed`, `InterruptsAtHalves`,
`ListStartsAtBuffer`, `ListFits`, and `ListCoversBuffer`, which joins four of
them into `Covers`. The invariant `ListInv` joins to the properties
of the entries `CursorInv` (the next entry goes where the last one ended, and
what is described and what is left add up to the request), `HalfInv` (the first
loop stops at the half), `IocInv` (an entry interrupts if and only if a half ends
with it) and `FitInv` (behind the first entry all start on a page, so that only
the first and the last are short; this bounds the entries by the bytes
described). The lemmas before them are the arithmetic of remainders that the
steps need, among them `HalfFillsPage`: the first half ends on a page, which is
what the driver chose the offset for.

Type invariants and other properties that are proved are no longer run where a
run's place was worth more to something that is not: `TypeOK` of `InterruptPath`,
`ControllerLife` and `BdlLayout`, and `InOrder`, which `ImplementsChannel`
implies.

Only model-checked: the liveness properties `ResponsesDelivered`,
`CompletionsSeen`, `CallsReturn` and `OwedAreCalled`, since fairness and `ENABLED`
are outside the prover's reach. The runs also check for deadlock, and the
findings are counterexamples of TLC's. One property was restated for the prover:
`QueueAgrees` compares `cmds` and `xfer` with the set `Unsettled` and the order
`PostedBefore` instead of a selection of the sequence `posted`, whose definition
is recursive; the two say the same.

## 5. What is not modelled, and the plan

Left out for good: ACPI table readers (`nhlt.cpp`, `sof-tplg.cpp`), driver entry,
tracing and register names. They are straight-line code around external calls.

Left out of the modules above: the DSP's interrupt callback and the BDL client's
`IsrCallback`, which touch none of their state; SPIB and position registers; the
arrival, removal and registration of graphics devices (`sgpc.cpp`, outside
`EnumerateGraphicsCodec` and `EjectGraphicsCodec`), calls to the framework and the
graphics driver around one collection with a lock of its own; names, ids and
capabilities of a child and the answers to interface queries (`buspdo.cpp`); PCI
configuration writes; two DPCs at once.

Not composed: the modules meet at single variables (`irqReceived`, the RIRB as a
FIFO, the list), and each says of the other side what the other module shows.
One composition, the list inside the calls that use it, is `StreamSetup`.

Left to prove: action properties that the invariants imply but no run states
yet (a transfer that its caller has back is written no more; a verb answered is
not answered again), batches whose DPC runs beside the sender, with the early
end of the wait as the one exception, and batches with losses, where a count
remains true although its answers do not match.
