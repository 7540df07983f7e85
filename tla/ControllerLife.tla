---------------------------- MODULE ControllerLife ----------------------------
(***************************************************************************)
(* The life of the controller's device (fdo.cpp, hdac_controller.cpp):     *)
(* what PrepareHardware acquires and ReleaseHardware gives back, how D0    *)
(* entry and exit bring the controller up and down, whether or not it      *)
(* obeys, and which codecs the driver talks to on the way.                 *)
(*                                                                         *)
(* The framework calls one of these handlers at a time, in the order of    *)
(* its PnP and power state machine: Prepare, D0Entry, PostInterrupts,      *)
(* (once) SelfManagedIoInit, D0Exit, ..., Release.  A handler that fails   *)
(* fails the device, which is then released.  A rebalance of resources     *)
(* releases a working device and prepares it again.                        *)
(***************************************************************************)
EXTENDS Naturals, FiniteSets

CONSTANTS
    NumAddrs,   \* HDA_MAX_CODECS
    GfxAddrs,   \* {GraphicsCodecAddress} if UseSGPCCodec, else {}
    MaxStarts   \* bound: PrepareHardware calls

Addrs == 0 .. NumAddrs - 1
ASSUME AddrAssumption == NumAddrs \in Nat \ {0} /\ GfxAddrs \subseteq Addrs
ASSUME StartAssumption == MaxStarts \in Nat

\* What the driver acquires; "notify" is GraphicsNotificationHandle.
Resources == {"bar0", "bar4", "streams", "posbuf", "rb", "bdl", "nhlt", "sofTplg", "notify"}
\* Pointers that ReleaseHardware sets to NULL after it freed them.
Nulled == {"bar0", "bar4", "bdl", "nhlt"}

VARIABLES
    pnp,        \* where the framework is
    starts,     \* PrepareHardware calls so far
    failed,     \* a handler failed: the device is not started again
    scanned,    \* SelfManagedIoInit has run
    at,         \* addr, the loop index of PostInterrupts and SelfManagedIoInit
    ptr,        \* [Resources -> "null", "live" or "dangling" (freed, pointer kept)]
    badFree,    \* history: dangling pointers that were freed
    ControllerEnabled, codecMask,
    ready,      \* codecs whose xferEvent is initialised
    unready,    \* history: <<codec, pnp>> when one was sent a command while it was not
    woken,      \* history: codecs sent a command since D0 entry
    children,   \* codecs reported in the child list
    \* the controller
    gctl,       \* "reset" or "up"
    ringDma,    \* CORB and RIRB run from the memory of rb
    posDma,     \* DPLBASE names the memory of posbuf
    streamDma,  \* a stream runs through its list
    intctl      \* interrupts are enabled

fwVars == <<starts, failed, scanned>>
resVars == <<ptr, badFree>>
codecVars == <<ready, unready, woken, children>>
hwVars == <<gctl, ringDma, posDma, streamDma, intctl>>
vars == <<pnp, at, fwVars, resVars, ControllerEnabled, codecMask, codecVars, hwVars>>

Init ==
    /\ pnp = "stopped" /\ starts = 0 /\ failed = FALSE /\ scanned = FALSE /\ at = 0
    /\ ptr = [r \in Resources |-> "null"] /\ badFree = {}
    /\ ControllerEnabled = FALSE /\ codecMask = {}
    /\ ready = {} /\ unready = {} /\ woken = {} /\ children = {}
    /\ gctl \in {"reset", "up"} /\ ringDma = FALSE /\ posDma = FALSE /\ streamDma = FALSE
    /\ intctl = FALSE
-----------------------------------------------------------------------------
(* PrepareHardware and ReleaseHardware. *)

\* What a call that gets as far as the resource `last' has acquired for
\* certain.  BAR4 and the tables are optional; a stream without memory for
\* its list is tolerated.
Needed(last) ==
    CASE last = "bar0"    -> {}
      [] last = "gcap"    -> {"bar0"}
      [] last = "streams" -> {"bar0"}
      [] last = "posbuf"  -> {"bar0", "streams"}
      [] last = "rb"      -> {"bar0", "streams", "posbuf"}
      [] OTHER            -> {"bar0", "streams", "posbuf", "rb"}
Optional(last) ==
    CASE last = "nhlt" -> {"bar4", "bdl"}
      [] last = "end"  -> {"bar4", "bdl", "nhlt", "sofTplg"}
      [] OTHER             -> {"bar4"}
\* Pointers it has assigned NULL: the allocation that failed, and the tables.
Cleared(last) ==
    CASE last \in {"streams", "posbuf", "rb"} -> {last}
      [] last = "nhlt" -> {"nhlt"}
      [] last = "end"  -> {"nhlt", "sofTplg"}
      [] OTHER         -> {}

Acquire(got, cleared) ==
    ptr' = [r \in Resources |->
        IF r \in got THEN "live" ELSE IF r \in cleared THEN "null" ELSE ptr[r]]

Prepare ==
    /\ pnp = "stopped" /\ ~failed /\ starts < MaxStarts
    /\ starts' = starts + 1
    /\ \E last \in {"bar0", "gcap", "streams", "posbuf", "rb", "nhlt", "end"} :
          /\ \E more \in SUBSET Optional(last) :
                Acquire(Needed(last) \cup more, Cleared(last))
          /\ failed' = (last # "end")
          /\ pnp' = IF last = "end" THEN "d3" ELSE "releasing"
    /\ UNCHANGED <<at, scanned, badFree, ControllerEnabled, codecMask, codecVars, hwVars>>

\* Mutant of Release: the lists of the streams are forgotten.
Release_KeepsLists ==
    /\ pnp = "releasing" /\ pnp' = "stopped"
    /\ badFree' = badFree \cup {r \in Resources : ptr[r] = "dangling"}
    /\ ptr' = [r \in Resources |->
          IF ptr[r] = "null" \/ r = "bdl" THEN ptr[r]
          ELSE IF r \in Nulled THEN "null" ELSE "dangling"]
    /\ UNCHANGED <<at, fwVars, ControllerEnabled, codecMask, codecVars, hwVars>>

\* Everything that is not NULL is freed.
Release ==
    /\ pnp = "releasing" /\ pnp' = "stopped"
    /\ badFree' = badFree \cup {r \in Resources : ptr[r] = "dangling"}
    /\ ptr' = [r \in Resources |->
          IF ptr[r] = "null" \/ r \in Nulled THEN "null" ELSE "dangling"]
    /\ UNCHANGED <<at, fwVars, ControllerEnabled, codecMask, codecVars, hwVars>>

\* The framework stops or removes a device that is in Dx.
Stop ==
    /\ pnp = "d3" /\ pnp' = "releasing"
    /\ UNCHANGED <<at, fwVars, resVars, ControllerEnabled, codecMask, codecVars, hwVars>>
-----------------------------------------------------------------------------
(* ResetHDAController: streams, rings and position buffer are stopped; then *)
(* the controller is asked to enter reset and, if `wakeup', to leave it.   *)

\* Mutant of StopDma: the rings are left to the reset.
StopDma_StreamsOnly == streamDma' = FALSE /\ posDma' = FALSE /\ UNCHANGED ringDma

StopDma == streamDma' = FALSE /\ ringDma' = FALSE /\ posDma' = FALSE

\* "unable to put controller in reset"
StaysUp == StopDma /\ gctl = "up" /\ UNCHANGED <<gctl, intctl, codecMask>>

\* In reset, registers have their default values.
EntersReset ==
    /\ streamDma' = FALSE /\ ringDma' = FALSE /\ posDma' = FALSE
    /\ gctl' = "reset" /\ intctl' = FALSE /\ UNCHANGED codecMask

\* Mutant of LatchMask: the codecs are looked for at every reset.
LatchMask_Always(statests) == codecMask' = statests

\* if (!codecMask) codecMask = STATESTS: the codecs seen first are kept.
LatchMask(statests) == codecMask' = IF codecMask = {} THEN statests ELSE codecMask
-----------------------------------------------------------------------------
(* D0Entry, D0EntryPostInterrupts, SelfManagedIoInit, D0Exit. *)

\* StartHDAController after a reset that worked.
Start(statests) ==
    /\ LatchMask(statests)
    /\ gctl' = "up" /\ ringDma' = TRUE /\ posDma' = TRUE /\ intctl' = TRUE
    /\ streamDma' = FALSE /\ ControllerEnabled' = TRUE
    /\ pnp' = "post" /\ at' = 0 /\ UNCHANGED failed

\* rirb is zeroed, events included, whether or not the reset works.
D0Entry ==
    /\ pnp = "d3"
    /\ ready' = {} /\ woken' = {}
    /\ \/ \E statests \in SUBSET Addrs : Start(statests)
       \/ /\ StaysUp \/ EntersReset
          /\ failed' = TRUE /\ pnp' = "releasing"
          /\ UNCHANGED <<at, ControllerEnabled>>
    /\ UNCHANGED <<starts, scanned, resVars, unready, children>>

\* RunSingleHDACmd for codec a, which waits for its event.
Send(a, initialised) ==
    /\ unready' = unready \cup (({a} \ initialised) \X {pnp})
    /\ woken' = woken \cup {a}

\* Codecs the driver may talk to on its own.
Own(a) == a \in codecMask \ GfxAddrs

\* Mutant of PostAddr: events of codecs that are skipped are not initialised.
PostAddr_SkipsFirst ==
    /\ pnp = "post" /\ at \in Addrs
    /\ IF Own(at) THEN ready' = ready \cup {at} /\ Send(at, ready')
       ELSE UNCHANGED <<ready, unready, woken>>
    /\ at' = at + 1
    /\ UNCHANGED <<pnp, fwVars, resVars, ControllerEnabled, codecMask, children, hwVars>>

\* One turn of the loop in D0EntryPostInterrupts; a command that fails is
\* sent again, and then given up.
PostAddr ==
    /\ pnp = "post" /\ at \in Addrs
    /\ ready' = ready \cup {at}
    /\ IF Own(at) THEN Send(at, ready') ELSE UNCHANGED <<unready, woken>>
    /\ at' = at + 1
    /\ UNCHANGED <<pnp, fwVars, resVars, ControllerEnabled, codecMask, children, hwVars>>

\* The framework calls SelfManagedIoInit once in the life of the device.
PostDone ==
    /\ pnp = "post" /\ at = NumAddrs
    /\ pnp' = (IF scanned THEN "d0" ELSE "scan") /\ at' = 0
    /\ UNCHANGED <<fwVars, resVars, ControllerEnabled, codecMask, codecVars, hwVars>>

\* Fdo_EnumerateCodec: a codec that answers is reported as a child.
Enumerate(a) ==
    /\ Send(a, ready)
    /\ children' \in {children, children \cup {a}}

\* One turn of the loop in SelfManagedIoInit.
ScanAddr ==
    /\ pnp = "scan" /\ at \in Addrs
    /\ IF Own(at) THEN Enumerate(at) ELSE UNCHANGED <<unready, woken, children>>
    /\ at' = at + 1
    /\ UNCHANGED <<pnp, fwVars, resVars, ControllerEnabled, codecMask, ready, hwVars>>

\* With multi-link capability it registers for graphics interfaces.
ScanDone ==
    /\ pnp = "scan" /\ at = NumAddrs
    /\ pnp' = "d0" /\ at' = 0 /\ scanned' = TRUE
    /\ ptr' \in {ptr, [ptr EXCEPT !["notify"] = "live"]}
    /\ UNCHANGED <<starts, failed, badFree, ControllerEnabled, codecMask, codecVars, hwVars>>

\* The graphics driver reports F0, in its own time: EnumerateGraphicsCodec.
\* Without power the first command fails before it waits.
GraphicsOn ==
    /\ pnp \in {"post", "d0", "exiting"} /\ ptr["notify"] = "live"
    /\ \E a \in GfxAddrs : Enumerate(a)
    /\ UNCHANGED <<pnp, at, fwVars, resVars, ControllerEnabled, codecMask, ready, hwVars>>

\* It is about to leave F0: EjectGraphicsCodec.
GraphicsOff ==
    /\ pnp \in {"d3", "post", "d0", "exiting"} /\ ptr["notify"] = "live"
    /\ \E a \in GfxAddrs \cap children : children' = children \ {a}
    /\ UNCHANGED <<pnp, at, fwVars, resVars, ControllerEnabled, codecMask,
                   ready, unready, woken, hwVars>>

\* A client sets up and runs a stream.
RunStream ==
    /\ pnp = "d0" /\ ptr["bdl"] = "live"
    /\ streamDma' = TRUE
    /\ UNCHANGED <<pnp, at, fwVars, resVars, ControllerEnabled, codecMask, codecVars,
                   gctl, ringDma, posDma, intctl>>

\* StopHDAController: the reset, whether or not it works.  The framework has
\* disconnected the interrupt by then.
D0Exit ==
    /\ pnp = "d0" /\ pnp' = "exiting"
    /\ \/ EntersReset /\ UNCHANGED failed
       \/ StaysUp /\ failed' = TRUE
    /\ UNCHANGED <<at, starts, scanned, resVars, ControllerEnabled, codecVars>>

\* Mutant of D0ExitDone: a reset that failed returns before the flag.
D0ExitDone_Returns ==
    /\ pnp = "exiting" /\ pnp' = (IF failed THEN "releasing" ELSE "d3")
    /\ ControllerEnabled' = (ControllerEnabled /\ failed)
    /\ UNCHANGED <<at, fwVars, resVars, codecMask, codecVars, hwVars>>

\* ControllerEnabled = FALSE; the reset's status is the handler's.
D0ExitDone ==
    /\ pnp = "exiting" /\ pnp' = (IF failed THEN "releasing" ELSE "d3")
    /\ ControllerEnabled' = FALSE
    /\ UNCHANGED <<at, fwVars, resVars, codecMask, codecVars, hwVars>>

\* A device that failed, or was started as often as the bound allows.
Over ==
    /\ pnp = "stopped" /\ (failed \/ starts = MaxStarts)
    /\ UNCHANGED vars

Next ==
    \/ Prepare \/ Release \/ Stop \/ D0Entry \/ PostAddr \/ PostDone
    \/ ScanAddr \/ ScanDone \/ GraphicsOn \/ GraphicsOff \/ RunStream \/ D0Exit
    \/ D0ExitDone \/ Over

Spec == Init /\ [][Next]_vars
-----------------------------------------------------------------------------
TypeOK ==
    /\ pnp \in {"stopped", "releasing", "d3", "post", "scan", "d0", "exiting"}
    /\ starts \in 0 .. MaxStarts /\ failed \in BOOLEAN /\ scanned \in BOOLEAN
    /\ at \in 0 .. NumAddrs
    /\ ptr \in [Resources -> {"null", "live", "dangling"}] /\ badFree \subseteq Resources
    /\ ControllerEnabled \in BOOLEAN /\ codecMask \subseteq Addrs
    /\ ready \subseteq Addrs /\ woken \subseteq Addrs /\ children \subseteq Addrs
    /\ unready \subseteq Addrs \X {"post", "scan", "d0", "exiting"}
    /\ gctl \in {"reset", "up"} /\ ringDma \in BOOLEAN /\ posDma \in BOOLEAN
    /\ streamDma \in BOOLEAN /\ intctl \in BOOLEAN

\* The controller never reads or writes memory that was given back: the rings
\* and streams are stopped before the reset is tried, so that they are when a
\* controller that refuses to enter reset is released.
NoDmaToReleasedMemory ==
    /\ ringDma => ptr["rb"] = "live"
    /\ posDma => ptr["posbuf"] = "live"
    /\ streamDma => ptr["bdl"] = "live" /\ ptr["streams"] = "live"

\* While ControllerEnabled lets the ISR touch registers, the controller is
\* mapped, out of reset and has its rings and interrupts on.  The exception is
\* StopHDAController itself, which clears the flag after the reset: there the
\* framework keeps the ISR away, the flag does not.
EnabledMeansUp ==
    ControllerEnabled /\ pnp # "exiting" =>
        ptr["bar0"] = "live" /\ gctl = "up" /\ ringDma /\ intctl

\* No command is sent to a codec whose event was not initialised after D0
\* entry zeroed it, not even to the graphics codec, which the loops skip and a
\* callback enumerates much later.  The one exception is a callback that comes
\* while D0EntryPostInterrupts is in its loop: nothing holds it back.
EventReady == unready \subseteq GfxAddrs \X {"post"}

\* "Some codecs might need a kickstart": after every D0 entry the codecs that
\* have a child were sent a command, although they may be late to report in
\* STATESTS; the graphics codec is left to the graphics driver.
ChildrenAreWoken == pnp = "d0" => children \ GfxAddrs \subseteq woken

\* A device that is stopped, at whatever point it failed, holds nothing, and
\* nothing was freed twice: neither by a device started once nor by one that
\* was started again with success and had no graphics notification.
ReleasedOnce ==
    pnp = "stopped" =>
        /\ \A r \in Resources : ptr[r] # "live"
        /\ starts <= 1 \/ (~failed /\ ptr["notify"] = "null") => badFree = {}
=============================================================================
