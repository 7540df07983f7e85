------------------------- MODULE ControllerLifeProofs -------------------------
(***************************************************************************)
(* Theorems about ControllerLife for any number of codec addresses, any    *)
(* graphics codecs and any number of starts.  Each property has its own    *)
(* strengthening: what the phase says of pointers and of the controller    *)
(* (PhaseInv), how far the loops are (LoopInv), who has a child (ChildInv) *)
(* and what may dangle (FreeInv).                                          *)
(***************************************************************************)
EXTENDS ControllerLife, TLAPS

Up == {"post", "scan", "d0"}
\* Where commands are sent: also while the handler of D0 exit runs.
Sending == Up \cup {"exiting"}
Required == {"bar0", "streams", "posbuf", "rb"}

\* What is live, what runs and what the registers say, in each phase.
PhaseInv ==
    /\ pnp = "stopped" => \A r \in Resources : ptr[r] # "live"
    /\ pnp \in {"d3"} \cup Sending => \A r \in Required : ptr[r] = "live"
    /\ pnp \in Up => gctl = "up" /\ ringDma /\ intctl
    /\ ringDma \/ posDma => pnp \in Up
    /\ ControllerEnabled => pnp \in Sending
    /\ streamDma => pnp = "d0" /\ ptr["bdl"] = "live"

\* The events of the addresses behind the loop index are initialised.
LoopInv ==
    /\ pnp = "post" => \A a \in Addrs : a < at => a \in ready
    /\ pnp \in {"scan", "d0", "exiting"} => Addrs \subseteq ready

\* The codecs of the latched mask behind the loop index are woken, and only
\* they have children.
ChildInv ==
    /\ children \subseteq codecMask \cup GfxAddrs
    /\ pnp = "post" => \A a \in codecMask \ GfxAddrs : a < at => a \in woken
    /\ pnp \in {"scan", "d0"} => codecMask \ GfxAddrs \subseteq woken

\* Before the second start nothing dangles that could be freed; later, as long
\* as nothing failed, only the graphics notification.
FreeInv ==
    /\ \A r \in Nulled : ptr[r] # "dangling"
    /\ starts = 0 => pnp = "stopped" /\ \A r \in Resources : ptr[r] = "null"
    /\ starts <= 1 => badFree = {}
    /\ starts <= 1 /\ pnp # "stopped" => \A r \in Resources : ptr[r] # "dangling"
    /\ ~failed => badFree \subseteq {"notify"}
    /\ ~failed /\ pnp # "stopped" =>
          \A r \in Resources \ {"notify"} : ptr[r] # "dangling"
    /\ "notify" \in badFree => ptr["notify"] # "null"

-----------------------------------------------------------------------------
\* The initial states are of the right types.
LEMMA TypeInit == Init => TypeOK
<1> SUFFICES ASSUME Init PROVE TypeOK
  OBVIOUS
<1>1. starts \in 0 .. MaxStarts /\ at \in 0 .. NumAddrs
  BY AddrAssumption, StartAssumption DEF Init
<1>2. /\ pnp = "stopped" /\ failed \in BOOLEAN /\ scanned \in BOOLEAN
      /\ ptr \in [Resources -> {"null", "live", "dangling"}]
      /\ ControllerEnabled \in BOOLEAN
      /\ gctl \in {"reset", "up"} /\ ringDma \in BOOLEAN /\ posDma \in BOOLEAN
      /\ streamDma \in BOOLEAN /\ intctl \in BOOLEAN
  BY DEF Init
<1>3. /\ badFree \subseteq Resources /\ codecMask \subseteq Addrs
      /\ ready \subseteq Addrs /\ unready \subseteq Addrs \X {"post", "scan", "d0", "exiting"}
      /\ woken \subseteq Addrs /\ children \subseteq Addrs
  BY DEF Init
<1> QED
  BY <1>1, <1>2, <1>3 DEF TypeOK

\* A command to a codec keeps the types of what is recorded about it.
LEMMA SendTyped ==
  ASSUME NEW a \in Addrs, NEW initialised, pnp \in Sending, TypeOK, Send(a, initialised)
  PROVE unready' \subseteq Addrs \X Sending /\ woken' \subseteq Addrs
<1>1. ({a} \ initialised) \X {pnp} \subseteq Addrs \X Sending
  OBVIOUS
<1>2. unready \subseteq Addrs \X Sending /\ woken \subseteq Addrs
  BY DEF TypeOK, Up, Sending
<1> QED
  BY <1>1, <1>2 DEF Send

\* Every step keeps the types; the steps that send commands by SendTyped.
LEMMA TypeKept ==
  ASSUME TypeOK, [Next]_vars
  PROVE TypeOK'
<1>1. CASE Prepare
  BY <1>1, StartAssumption DEF Prepare, Acquire, TypeOK, codecVars, hwVars
<1>2. CASE Release
  BY <1>2 DEF Release, TypeOK, fwVars, codecVars, hwVars
<1>3. CASE Stop
  BY <1>3 DEF Stop, TypeOK, fwVars, resVars, codecVars, hwVars
<1>4. CASE D0Entry
  <2>1. codecMask' \subseteq Addrs
    BY <1>4 DEF D0Entry, Start, LatchMask, StaysUp, EntersReset, TypeOK
  <2>2. /\ pnp' \in {"post", "releasing"} /\ at' \in {0, at} /\ failed' \in {failed, TRUE}
        /\ ControllerEnabled' \in {ControllerEnabled, TRUE}
        /\ gctl' \in {"reset", "up"} /\ ringDma' \in BOOLEAN /\ posDma' \in BOOLEAN
        /\ streamDma' = FALSE /\ intctl' \in {TRUE, FALSE, intctl}
        /\ ready' = {} /\ woken' = {}
        /\ UNCHANGED <<starts, scanned, resVars, unready, children>>
    BY <1>4 DEF D0Entry, Start, StaysUp, StopDma, EntersReset, TypeOK
  <2>3. at' \in 0 .. NumAddrs
    BY <2>2, AddrAssumption DEF TypeOK
  <2> QED
    BY <2>1, <2>2, <2>3 DEF TypeOK, resVars
<1>5. CASE PostAddr
  <2>1. at \in Addrs /\ pnp \in Sending /\ at + 1 \in 0 .. NumAddrs
    BY <1>5, AddrAssumption DEF PostAddr, Addrs, Up, Sending
  <2>2. unready' \subseteq Addrs \X Sending /\ woken' \subseteq Addrs
    <3>1. CASE Own(at)
      BY <1>5, <2>1, <3>1, SendTyped DEF PostAddr
    <3>2. CASE ~Own(at)
      BY <1>5, <3>2 DEF PostAddr, TypeOK, Up, Sending
    <3> QED
      BY <3>1, <3>2
  <2>3. ready' \subseteq Addrs
    BY <1>5, <2>1 DEF PostAddr, TypeOK
  <2> QED
    BY <1>5, <2>1, <2>2, <2>3 DEF PostAddr, TypeOK, Up, Sending, fwVars, resVars, hwVars
<1>6. CASE PostDone
  BY <1>6 DEF PostDone, TypeOK, fwVars, resVars, codecVars, hwVars
<1>7. CASE ScanAddr
  <2>1. at \in Addrs /\ pnp \in Sending /\ at + 1 \in 0 .. NumAddrs
    BY <1>7, AddrAssumption DEF ScanAddr, Addrs, Up, Sending
  <2>2. /\ unready' \subseteq Addrs \X Sending /\ woken' \subseteq Addrs
        /\ children' \subseteq Addrs
    <3>1. CASE Own(at)
      BY <1>7, <2>1, <3>1, SendTyped DEF ScanAddr, Enumerate, TypeOK
    <3>2. CASE ~Own(at)
      BY <1>7, <3>2 DEF ScanAddr, TypeOK, Up, Sending
    <3> QED
      BY <3>1, <3>2
  <2> QED
    BY <1>7, <2>1, <2>2 DEF ScanAddr, TypeOK, Up, Sending, fwVars, resVars, hwVars
<1>8. CASE ScanDone
  BY <1>8 DEF ScanDone, TypeOK, codecVars, hwVars
<1>9. CASE GraphicsOn
  <2>1. PICK a \in GfxAddrs : Enumerate(a)
    BY <1>9 DEF GraphicsOn
  <2>2. a \in Addrs /\ pnp \in Sending
    BY <1>9, AddrAssumption DEF GraphicsOn, Up, Sending
  <2>3. /\ unready' \subseteq Addrs \X Sending /\ woken' \subseteq Addrs
        /\ children' \subseteq Addrs
    BY <2>1, <2>2, SendTyped DEF Enumerate, TypeOK
  <2> QED
    <3>1. UNCHANGED <<pnp, at, fwVars, resVars, ControllerEnabled, codecMask, ready, hwVars>>
      BY <1>9 DEF GraphicsOn
    <3> QED
      BY <2>3, <3>1 DEF TypeOK, Up, Sending, fwVars, resVars, hwVars
<1>10. CASE GraphicsOff
  BY <1>10 DEF GraphicsOff, TypeOK, fwVars, resVars, hwVars
<1>11. CASE RunStream
  BY <1>11 DEF RunStream, TypeOK, fwVars, resVars, codecVars
<1>12. CASE D0Exit
  BY <1>12 DEF D0Exit, StaysUp, StopDma, EntersReset, TypeOK, resVars, codecVars
<1>13. CASE D0ExitDone
  BY <1>13 DEF D0ExitDone, TypeOK, fwVars, resVars, codecVars, hwVars
<1>14. CASE Over \/ UNCHANGED vars
  BY <1>14 DEF Over, TypeOK, vars, fwVars, resVars, codecVars, hwVars
<1> QED
  BY <1>1, <1>2, <1>3, <1>4, <1>5, <1>6, <1>7, <1>8, <1>9, <1>10, <1>11, <1>12, <1>13, <1>14 DEF Next

\* Nothing is live, and nothing runs, before the first start.
LEMMA PhaseInit == Init => PhaseInv
  BY DEF Init, PhaseInv, Up, Sending

\* A handler changes its phase together with what runs and what is live.
LEMMA PhaseKept ==
  ASSUME TypeOK, PhaseInv, [Next]_vars
  PROVE PhaseInv'
<1>1. CASE Prepare
  BY <1>1 DEF Prepare, Acquire, Needed, PhaseInv, Up, Sending, Required, Resources, hwVars
<1>2. CASE Release
  BY <1>2 DEF Release, PhaseInv, Up, Sending, hwVars
<1>3. CASE Stop
  BY <1>3 DEF Stop, PhaseInv, Up, Sending, hwVars
<1>4. CASE D0Entry
  BY <1>4 DEF D0Entry, Start, StaysUp, StopDma, EntersReset, PhaseInv, Up, Sending, resVars
<1>5. CASE PostAddr
  BY <1>5 DEF PostAddr, PhaseInv, resVars, hwVars
<1>6. CASE PostDone
  BY <1>6 DEF PostDone, PhaseInv, Up, Sending, resVars, hwVars
<1>7. CASE ScanAddr
  BY <1>7 DEF ScanAddr, PhaseInv, resVars, hwVars
<1>8. CASE ScanDone
  BY <1>8 DEF ScanDone, PhaseInv, TypeOK, Up, Sending, Required, Resources, hwVars
<1>9. CASE GraphicsOn
  BY <1>9 DEF GraphicsOn, PhaseInv, resVars, hwVars
<1>10. CASE GraphicsOff
  BY <1>10 DEF GraphicsOff, PhaseInv, resVars, hwVars
<1>11. CASE RunStream
  BY <1>11 DEF RunStream, PhaseInv, resVars
<1>12. CASE D0Exit
  BY <1>12 DEF D0Exit, StaysUp, StopDma, EntersReset, PhaseInv, Up, Sending, resVars
<1>13. CASE D0ExitDone
  BY <1>13 DEF D0ExitDone, PhaseInv, Up, Sending, resVars, hwVars
<1>14. CASE Over \/ UNCHANGED vars
  BY <1>14 DEF Over, PhaseInv, vars, resVars, hwVars
<1> QED
  BY <1>1, <1>2, <1>3, <1>4, <1>5, <1>6, <1>7, <1>8, <1>9, <1>10, <1>11, <1>12, <1>13, <1>14 DEF Next

\* No loop has begun.
LEMMA LoopInit == Init => LoopInv
  BY DEF Init, LoopInv

\* The loop index advances over initialised events only; zeroing ends a phase.
LEMMA LoopKept ==
  ASSUME TypeOK, LoopInv, [Next]_vars
  PROVE LoopInv'
<1>1. CASE Prepare
  BY <1>1 DEF Prepare, LoopInv
<1>2. CASE Release
  BY <1>2 DEF Release, LoopInv
<1>3. CASE Stop
  BY <1>3 DEF Stop, LoopInv
<1>4. CASE D0Entry
  BY <1>4 DEF D0Entry, Start, LoopInv, Addrs
<1>5. CASE PostAddr
  BY <1>5 DEF PostAddr, LoopInv, TypeOK
<1>6. CASE PostDone
  BY <1>6, AddrAssumption DEF PostDone, LoopInv, Addrs, codecVars
<1>7. CASE ScanAddr
  BY <1>7 DEF ScanAddr, LoopInv
<1>8. CASE ScanDone
  BY <1>8 DEF ScanDone, LoopInv, codecVars
<1>9. CASE GraphicsOn
  BY <1>9 DEF GraphicsOn, LoopInv
<1>10. CASE GraphicsOff
  BY <1>10 DEF GraphicsOff, LoopInv
<1>11. CASE RunStream
  BY <1>11 DEF RunStream, LoopInv, codecVars
<1>12. CASE D0Exit
  BY <1>12 DEF D0Exit, LoopInv, codecVars
<1>13. CASE D0ExitDone
  BY <1>13 DEF D0ExitDone, LoopInv, codecVars
<1>14. CASE Over \/ UNCHANGED vars
  BY <1>14 DEF Over, LoopInv, vars, codecVars
<1> QED
  BY <1>1, <1>2, <1>3, <1>4, <1>5, <1>6, <1>7, <1>8, <1>9, <1>10, <1>11, <1>12, <1>13, <1>14 DEF Next

\* There are no children yet.
LEMMA ChildInit == Init => ChildInv
  BY DEF Init, ChildInv

\* A mask that is not empty stays, so children keep their place in it.
LEMMA ChildKept ==
  ASSUME TypeOK, ChildInv, [Next]_vars
  PROVE ChildInv'
<1>1. CASE Prepare
  BY <1>1 DEF Prepare, ChildInv, codecVars
<1>2. CASE Release
  BY <1>2 DEF Release, ChildInv, codecVars
<1>3. CASE Stop
  BY <1>3 DEF Stop, ChildInv, codecVars
<1>4. CASE D0Entry
  <2>1. children' = children /\ woken' = {} /\ pnp' \in {"post", "releasing"}
    BY <1>4 DEF D0Entry, Start
  <2>2. children' \subseteq codecMask' \cup GfxAddrs
    <3>1. codecMask \subseteq codecMask'
      BY <1>4 DEF D0Entry, Start, LatchMask, StaysUp, EntersReset
    <3> QED
      BY <2>1, <3>1 DEF ChildInv
  <2>3. pnp' = "post" => \A a \in codecMask' \ GfxAddrs : ~(a < at')
    <3>1. pnp' = "post" => at' = 0 /\ codecMask' \subseteq Addrs
      BY <1>4 DEF D0Entry, Start, LatchMask, TypeOK
    <3> QED
      BY <3>1, AddrAssumption DEF Addrs
  <2> QED
    BY <2>1, <2>2, <2>3 DEF ChildInv
<1>5. CASE PostAddr
  BY <1>5 DEF PostAddr, Send, Own, ChildInv, TypeOK
<1>6. CASE PostDone
  BY <1>6, AddrAssumption DEF PostDone, ChildInv, Addrs, TypeOK, codecVars
<1>7. CASE ScanAddr
  BY <1>7 DEF ScanAddr, Enumerate, Send, Own, ChildInv
<1>8. CASE ScanDone
  BY <1>8 DEF ScanDone, ChildInv, codecVars
<1>9. CASE GraphicsOn
  BY <1>9 DEF GraphicsOn, Enumerate, Send, ChildInv
<1>10. CASE GraphicsOff
  BY <1>10 DEF GraphicsOff, ChildInv
<1>11. CASE RunStream
  BY <1>11 DEF RunStream, ChildInv, codecVars
<1>12. CASE D0Exit
  BY <1>12 DEF D0Exit, StaysUp, EntersReset, ChildInv, codecVars
<1>13. CASE D0ExitDone
  BY <1>13 DEF D0ExitDone, ChildInv, codecVars
<1>14. CASE Over \/ UNCHANGED vars
  BY <1>14 DEF Over, ChildInv, vars, codecVars
<1> QED
  BY <1>1, <1>2, <1>3, <1>4, <1>5, <1>6, <1>7, <1>8, <1>9, <1>10, <1>11, <1>12, <1>13, <1>14 DEF Next

\* Nothing was ever acquired.
LEMMA FreeInit == Init => FreeInv
  BY DEF Init, FreeInv, Resources, Nulled

\* What is released dangles, and a preparation that works replaces it.
LEMMA FreeKept ==
  ASSUME TypeOK, FreeInv, [Next]_vars
  PROVE FreeInv'
<1>1. CASE Prepare
  <2> PICK last \in {"bar0", "gcap", "streams", "posbuf", "rb", "nhlt", "end"} :
             /\ \E more \in SUBSET Optional(last) :
                   Acquire(Needed(last) \cup more, Cleared(last))
             /\ failed' = (last # "end")
    BY <1>1 DEF Prepare
  <2>1. PICK more \in SUBSET Optional(last) :
             Acquire(Needed(last) \cup more, Cleared(last)) /\ failed' = (last # "end")
    OBVIOUS
  <2>2. \A r \in Resources : ptr'[r] = ptr[r] \/ ptr'[r] \in {"null", "live"}
    BY <2>1 DEF Acquire
  <2>3. last = "end" => \A r \in Resources \ {"notify"} : ptr[r] = "dangling" =>
                            ptr'[r] # "dangling"
    BY <2>1 DEF Acquire, Needed, Cleared, FreeInv, Resources, Nulled
  <2>4. ptr'["notify"] = ptr["notify"]
    BY <2>1 DEF Acquire, Needed, Optional, Cleared, Resources
  <2>5. /\ pnp = "stopped" /\ ~failed /\ starts' = starts + 1 /\ badFree' = badFree
        /\ pnp' # "stopped" /\ starts \in Nat
    BY <1>1 DEF Prepare, TypeOK, resVars
  <2>6. starts' <= 1 => starts = 0
    BY <2>5
  <2>7. (\A r \in Nulled : ptr'[r] # "dangling") /\ starts' # 0
    BY <2>2, <2>5 DEF FreeInv, Nulled, Resources
  <2>8. starts' <= 1 => badFree' = {} /\ \A r \in Resources : ptr'[r] # "dangling"
    BY <2>2, <2>5, <2>6 DEF FreeInv
  <2>9. ~failed' => \A r \in Resources \ {"notify"} : ptr'[r] # "dangling"
    BY <2>1, <2>2, <2>3
  <2> QED
    BY <2>4, <2>5, <2>7, <2>8, <2>9 DEF FreeInv
<1>2. CASE Release
  <2>1. /\ pnp = "releasing" /\ pnp' = "stopped" /\ starts' = starts /\ failed' = failed
        /\ badFree' = badFree \cup {r \in Resources : ptr[r] = "dangling"}
    BY <1>2 DEF Release, fwVars
  <2>2. \A r \in Resources : /\ ptr[r] = "null" => ptr'[r] = "null"
                             /\ ptr[r] # "null" /\ r \notin Nulled => ptr'[r] = "dangling"
                             /\ r \in Nulled => ptr'[r] = "null"
    BY <1>2 DEF Release
  <2>3. starts # 0
    BY <2>1 DEF FreeInv
  <2>4. starts <= 1 => badFree' = {}
    BY <2>1 DEF FreeInv
  <2>5. ~failed => badFree' \subseteq {"notify"}
    BY <2>1 DEF FreeInv
  <2>6. "notify" \in badFree' => ptr'["notify"] # "null"
    BY <2>1, <2>2 DEF FreeInv, Resources, Nulled
  <2>7. \A r \in Nulled : ptr'[r] # "dangling"
    BY <2>2 DEF Resources, Nulled
  <2> QED
    BY <2>1, <2>3, <2>4, <2>5, <2>6, <2>7 DEF FreeInv
<1>3. CASE Stop
  BY <1>3 DEF Stop, FreeInv, fwVars, resVars
<1>4. CASE D0Entry
  BY <1>4 DEF D0Entry, Start, FreeInv, resVars
<1>5. CASE PostAddr
  BY <1>5 DEF PostAddr, FreeInv, fwVars, resVars
<1>6. CASE PostDone
  BY <1>6 DEF PostDone, FreeInv, fwVars, resVars
<1>7. CASE ScanAddr
  BY <1>7 DEF ScanAddr, FreeInv, fwVars, resVars
<1>8. CASE ScanDone
  BY <1>8 DEF ScanDone, FreeInv, TypeOK, Resources, Nulled
<1>9. CASE GraphicsOn
  BY <1>9 DEF GraphicsOn, FreeInv, fwVars, resVars
<1>10. CASE GraphicsOff
  BY <1>10 DEF GraphicsOff, FreeInv, fwVars, resVars
<1>11. CASE RunStream
  BY <1>11 DEF RunStream, FreeInv, fwVars, resVars
<1>12. CASE D0Exit
  BY <1>12 DEF D0Exit, FreeInv, resVars
<1>13. CASE D0ExitDone
  BY <1>13 DEF D0ExitDone, FreeInv, fwVars, resVars
<1>14. CASE Over \/ UNCHANGED vars
  BY <1>14 DEF Over, FreeInv, vars, fwVars, resVars
<1> QED
  BY <1>1, <1>2, <1>3, <1>4, <1>5, <1>6, <1>7, <1>8, <1>9, <1>10, <1>11, <1>12, <1>13, <1>14 DEF Next

\* A step of a loop or of a callback sends to initialised codecs only, but for
\* the callback during power up.
LEMMA EventKept ==
  ASSUME TypeOK, LoopInv, EventReady, [Next]_vars
  PROVE EventReady'
<1>1. CASE PostAddr
  <2>1. {at} \ ready' = {}
    BY <1>1 DEF PostAddr
  <2>2. unready' = unready
    BY <1>1, <2>1 DEF PostAddr, Send
  <2> QED
    BY <2>2 DEF EventReady
<1>2. CASE ScanAddr
  <2>1. {at} \ ready = {}
    BY <1>2 DEF ScanAddr, LoopInv
  <2>2. unready' = unready
    BY <1>2, <2>1 DEF ScanAddr, Enumerate, Send
  <2> QED
    BY <2>2 DEF EventReady
<1>3. CASE GraphicsOn
  <2>1. PICK a \in GfxAddrs : unready' = unready \cup (({a} \ ready) \X {pnp})
    BY <1>3 DEF GraphicsOn, Enumerate, Send
  <2>2. CASE pnp = "post"
    BY <2>1, <2>2 DEF EventReady
  <2>3. CASE pnp \in {"d0", "exiting"}
    <3>1. {a} \ ready = {}
      BY <2>3, AddrAssumption DEF LoopInv
    <3>2. unready' = unready
      BY <2>1, <3>1
    <3> QED
      BY <3>2 DEF EventReady
  <2> QED
    BY <1>3, <2>2, <2>3 DEF GraphicsOn
<1>4. CASE UNCHANGED unready
  BY <1>4 DEF EventReady
<1>5. PostAddr \/ ScanAddr \/ GraphicsOn \/ UNCHANGED unready
  BY DEF Next, Prepare, Release, Stop, D0Entry, PostDone, ScanDone, GraphicsOff, RunStream,
         D0Exit, D0ExitDone, Over, vars, codecVars
<1> QED
  BY <1>1, <1>2, <1>3, <1>4, <1>5
-----------------------------------------------------------------------------
(* The theorems. *)

\* Every variable of the device keeps its type.
THEOREM TypeCorrect == Spec => []TypeOK
<1>1. TypeOK /\ [Next]_vars => TypeOK'
  BY TypeKept
<1> QED
  BY <1>1, TypeInit, PTL DEF Spec

\* Whatever fails, the controller has stopped its DMA before the memory of the
\* rings, the position buffer and the streams is given back.
THEOREM ReleasedMemoryUntouched == Spec => []NoDmaToReleasedMemory
<1>1. TypeOK /\ PhaseInv /\ [Next]_vars => PhaseInv'
  BY PhaseKept
<1>2. PhaseInv => NoDmaToReleasedMemory
  BY DEF PhaseInv, NoDmaToReleasedMemory, Up, Sending, Required
<1> QED
  BY <1>1, <1>2, PhaseInit, TypeCorrect, PTL DEF Spec

\* Outside of StopHDAController, which the ISR never sees, the flag is set only
\* for a controller that is mapped and up.
THEOREM IsrSeesController == Spec => []EnabledMeansUp
<1>1. TypeOK /\ PhaseInv /\ [Next]_vars => PhaseInv'
  BY PhaseKept
<1>2. PhaseInv => EnabledMeansUp
  BY DEF PhaseInv, EnabledMeansUp, Up, Sending, Required
<1> QED
  BY <1>1, <1>2, PhaseInit, TypeCorrect, PTL DEF Spec

\* No command is sent to a codec whose event does not exist, but for the
\* graphics callback that overtakes a power up.
THEOREM EventsInitialised == Spec => []EventReady
<1>1. Init => EventReady
  BY DEF Init, EventReady
<1>2. TypeOK /\ LoopInv /\ [Next]_vars => LoopInv'
  BY LoopKept
<1>3. TypeOK /\ LoopInv /\ EventReady /\ [Next]_vars => EventReady'
  BY EventKept
<1> QED
  BY <1>1, <1>2, <1>3, LoopInit, TypeCorrect, PTL DEF Spec

\* At every power up the codecs that have children are woken.
THEOREM ChildrenWoken == Spec => []ChildrenAreWoken
<1>1. TypeOK /\ ChildInv /\ [Next]_vars => ChildInv'
  BY ChildKept
<1>2. ChildInv => ChildrenAreWoken
  BY DEF ChildInv, ChildrenAreWoken
<1> QED
  BY <1>1, <1>2, ChildInit, TypeCorrect, PTL DEF Spec

\* A device that is stopped holds nothing, and neither a first start nor a
\* restart that worked makes it free anything twice.
THEOREM NothingFreedTwice == Spec => []ReleasedOnce
<1>1. TypeOK /\ PhaseInv /\ [Next]_vars => PhaseInv'
  BY PhaseKept
<1>2. TypeOK /\ FreeInv /\ [Next]_vars => FreeInv'
  BY FreeKept
<1>3. PhaseInv /\ FreeInv => ReleasedOnce
  BY DEF PhaseInv, FreeInv, ReleasedOnce
<1> QED
  BY <1>1, <1>2, <1>3, PhaseInit, FreeInit, TypeCorrect, PTL DEF Spec
=============================================================================
