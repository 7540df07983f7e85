---------------------------- MODULE CodecTransfer ----------------------------
(***************************************************************************)
(* Verbs sent to the codecs and their responses: HDA_TransferCodecVerbs,   *)
(* HDA_WaitForTransfer, HDA_AsyncWait (hdaudio.cpp), SendHDACmds,          *)
(* RunSingleHDACmd and the dispatch of HDAFlushRIRB (hdac_controller.cpp). *)
(*                                                                         *)
(* A call sends the verbs of one batch under the interrupt lock, then      *)
(* waits for the codec's event.  The DPC, which does not take that lock,   *)
(* credits every response to the first transfer queued for its codec and   *)
(* sets the event when the codec's counter cmds drops to zero.  All calls  *)
(* on a codec share cmds, xfer and the event.                              *)
(*                                                                         *)
(* A verb is identified with the transfer that carries it, <<call, k>>, a  *)
(* response with the verb it answers.  The RIRB is the FIFO that           *)
(* InterruptPath is proved to implement; its interrupt needs the lock.     *)
(***************************************************************************)
EXTENDS Integers, Sequences, FiniteSets

CONSTANTS
    Calls,        \* calls made, each once
    CodecOf,      \* [Calls -> codec it addresses]
    Count,        \* [Calls -> verbs in its batch]
    Kind,         \* [Calls -> {"sync", "async", "single"}]: HDA_TransferCodecVerbs
                  \* without or with a callback, or RunSingleHDACmd
    Entries,      \* HDA_MAX_CORB_ENTRIES
    Serialised,   \* do callers make one call at a time on each codec?
    Smp,          \* may the DPC run while another processor holds the lock?
    Losses,       \* may a codec never answer a verb?
    LateAnswers,  \* may a wait expire before an answer that still comes?
    Vanishes,     \* may the controller fall asleep?
    NULL

Codecs == {CodecOf[c] : c \in Calls}
Transfers == UNION {{<<c, k>> : k \in 1 .. Count[c]} : c \in Calls}
Slots == 0 .. Entries - 1

ASSUME CallAssumption ==
    /\ IsFiniteSet(Calls)
    /\ CodecOf \in [Calls -> Codecs]
    /\ Count \in [Calls -> Nat \ {0}]
    /\ Kind \in [Calls -> {"sync", "async", "single"}]
    /\ Entries \in Nat \ {0, 1}
    /\ NULL \notin Calls \cup Transfers
ASSUME EnvironmentAssumption ==
    {Serialised, Smp, Losses, LateAnswers, Vanishes} \subseteq BOOLEAN

VARIABLES
    \* the callers
    pc,         \* [Calls -> step it is at]
    at,         \* [Calls -> i of SendHDACmds: verbs posted so far]
    slot,       \* [Calls -> value InterlockedIncrement returned]
    got,        \* [Calls -> TransferredCount]
    status,     \* [Calls -> its NTSTATUS]
    input,      \* [Transfers -> the response in it, NULL when not valid]
    lock,       \* the call that holds the interrupt lock, or NULL
    idleRefs,   \* references that keep the device from idling
    \* fdoCtx->rirb, per codec
    cmds, xfer, event,
    \* the DPC
    processRirb, dpc, left, resp,
    \* the controller and the codecs
    corb, CORBWP, CORBRP, rirb, RIRBSTS, gone, lost,
    fetched,    \* history: commands the controller fetched
    posted      \* history: verbs in the order in which they were posted

callVars == <<pc, at, slot, got, status>>
dpcVars  == <<processRirb, dpc, left, resp>>
hwVars   == <<corb, CORBWP, CORBRP, rirb, RIRBSTS, gone, lost, fetched>>
vars == <<callVars, input, lock, idleRefs, cmds, xfer, event, dpcVars, hwVars, posted>>

Init ==
    /\ pc = [c \in Calls |-> "idle"] /\ at = [c \in Calls |-> 0]
    /\ slot = [c \in Calls |-> 0] /\ got = [c \in Calls |-> 0]
    /\ status = [c \in Calls |-> "none"]
    /\ input = [t \in Transfers |-> NULL]
    /\ lock = NULL /\ idleRefs = 0
    /\ cmds = [a \in Codecs |-> 0]
    /\ xfer = [a \in Codecs |-> [i \in Slots |-> NULL]]
    /\ event = [a \in Codecs |-> FALSE]
    /\ processRirb = FALSE /\ dpc = "idle" /\ left = 0 /\ resp = NULL
    /\ corb = [i \in Slots |-> NULL] /\ CORBWP = 0 /\ CORBRP = 0
    /\ rirb = <<>> /\ RIRBSTS = FALSE /\ gone = FALSE /\ lost = {}
    /\ fetched = 0 /\ posted = <<>>

Goto(c, l) == pc' = [pc EXCEPT ![c] = l]
Finish(c, s) == status' = [status EXCEPT ![c] = s]
\* The verb of call c that is being posted.
Current(c) == <<c, at[c] + 1>>
\* Mutant of NextEntry: wp is not taken modulo HDA_MAX_CORB_ENTRIES.
NextEntry_NoWrap(i) == i + 1

NextEntry(i) == (i + 1) % Entries
Idle(c) == pc[c] \in {"idle", "returned"}
-----------------------------------------------------------------------------
(* SendHDACmds *)

\* WdfDeviceStopIdle, which RunSingleHDACmd does not call.  A call that is
\* refused before, or by it (no context, the graphics codec not connected, no
\* idle reference to be had), returns without a trace and is no step.
Begin(c) ==
    /\ pc[c] = "idle"
    /\ Serialised => \A d \in Calls : CodecOf[d] = CodecOf[c] => Idle(d)
    /\ idleRefs' = IF Kind[c] = "single" THEN idleRefs ELSE idleRefs + 1
    /\ Goto(c, "lock")
    /\ UNCHANGED <<at, slot, got, status, input, lock, cmds, xfer, event, dpcVars, hwVars, posted>>

AcquireLock(c) ==
    /\ pc[c] = "lock" /\ lock = NULL
    /\ lock' = c /\ Goto(c, "check")
    /\ UNCHANGED <<at, slot, got, status, input, idleRefs, cmds, xfer, event, dpcVars, hwVars, posted>>

\* Mutant of Check: no test for a full CORB.
Check_NotFull(c) ==
    /\ pc[c] = "check"
    /\ input' = [input EXCEPT ![Current(c)] = NULL]
    /\ IF gone
         THEN /\ Finish(c, "STATUS_DEVICE_DOES_NOT_EXIST")
              /\ lock' = NULL /\ Goto(c, "out")
         ELSE Goto(c, "reserve") /\ UNCHANGED <<status, lock>>
    /\ UNCHANGED <<at, slot, got, idleRefs, cmds, xfer, event, dpcVars, hwVars, posted>>

\* Mutant of Check: it waits for room in the CORB, with the lock held.
Check_Spins(c) ==
    /\ pc[c] = "check"
    /\ input' = [input EXCEPT ![Current(c)] = NULL]
    /\ Goto(c, IF gone \/ NextEntry(CORBWP) = CORBRP THEN "check" ELSE "reserve")
    /\ UNCHANGED <<at, slot, got, status, lock, idleRefs, cmds, xfer, event, dpcVars, hwVars, posted>>

\* Zero the transfer's input, then look at the CORB's pointers: 0xffff when
\* the controller is gone, "Oops it's full" when wp + 1 reaches rp.
Check(c) ==
    /\ pc[c] = "check"
    /\ input' = [input EXCEPT ![Current(c)] = NULL]
    /\ IF gone \/ NextEntry(CORBWP) = CORBRP
         THEN /\ Finish(c, IF gone THEN "STATUS_DEVICE_DOES_NOT_EXIST" ELSE "STATUS_RETRY")
              /\ lock' = NULL /\ Goto(c, "out")
         ELSE Goto(c, "reserve") /\ UNCHANGED <<status, lock>>
    /\ UNCHANGED <<at, slot, got, idleRefs, cmds, xfer, event, dpcVars, hwVars, posted>>

\* Mutant of Reserve: the value before the increment, as oldVal says.
Reserve_Old(c) ==
    /\ pc[c] = "reserve"
    /\ cmds' = [cmds EXCEPT ![CodecOf[c]] = @ + 1]
    /\ slot' = [slot EXCEPT ![c] = cmds[CodecOf[c]]]
    /\ Goto(c, "post")
    /\ UNCHANGED <<at, got, status, input, lock, idleRefs, xfer, event, dpcVars, hwVars, posted>>

\* oldVal = InterlockedIncrement(&cmds[addr]): the new value, in fact.
Reserve(c) ==
    /\ pc[c] = "reserve"
    /\ cmds' = [cmds EXCEPT ![CodecOf[c]] = @ + 1]
    /\ slot' = [slot EXCEPT ![c] = cmds[CodecOf[c]] + 1]
    /\ Goto(c, "post")
    /\ UNCHANGED <<at, got, status, input, lock, idleRefs, xfer, event, dpcVars, hwVars, posted>>

\* xfer[oldVal - 1] = transfer; the command goes to the CORB, CORBWP moves.
PostVerb(c) ==
    /\ pc[c] = "post"
    /\ xfer' = IF slot[c] - 1 \in Slots
                 THEN [xfer EXCEPT ![CodecOf[c]][slot[c] - 1] = Current(c)]
                 ELSE xfer
    /\ corb' = [corb EXCEPT ![NextEntry(CORBWP)] = Current(c)]
    /\ CORBWP' = NextEntry(CORBWP)
    /\ posted' = Append(posted, Current(c))
    /\ at' = [at EXCEPT ![c] = @ + 1]
    /\ IF at'[c] = Count[c]
         THEN lock' = NULL /\ Goto(c, "wait")
         ELSE Goto(c, "check") /\ UNCHANGED lock
    /\ UNCHANGED <<slot, got, status, input, idleRefs, cmds, event, dpcVars,
                   CORBRP, rirb, RIRBSTS, gone, lost, fetched>>
-----------------------------------------------------------------------------
(* HDA_WaitForTransfer, by the caller or by the work item HDA_AsyncWait. *)

\* KeWaitForSingleObject returns at once when the event is set.
Wait(c) ==
    /\ pc[c] = "wait"
    /\ Goto(c, IF event[CodecOf[c]] THEN "clear" ELSE "waiting")
    /\ UNCHANGED <<at, slot, got, status, input, lock, idleRefs, cmds, xfer, event,
                   dpcVars, hwVars, posted>>

\* The commands in the CORB, and the verbs whose answer may still be credited.
InCorb == {posted[i] : i \in fetched + 1 .. Len(posted)}
InRirb == {rirb[i] : i \in 1 .. Len(rirb)}
Dispatching == IF dpc \in {"credit", "shift", "decrement", "event"} THEN {resp} ELSE {}
InFlight == InCorb \cup InRirb \cup Dispatching

Timeout(c) ==
    /\ pc[c] = "waiting"
    /\ \/ LateAnswers
       \/ gone /\ dpc = "idle"
       \/ \A k \in 1 .. Count[c] : <<c, k>> \notin InFlight
    /\ Goto(c, "clear")
    /\ UNCHANGED <<at, slot, got, status, input, lock, idleRefs, cmds, xfer, event,
                   dpcVars, hwVars, posted>>

\* Mutant of ClearEvent: no KeClearEvent.
ClearEvent_Keeps(c) ==
    /\ pc[c] = "clear"
    /\ Goto(c, "count")
    /\ UNCHANGED <<at, slot, got, status, input, lock, idleRefs, cmds, xfer, event,
                   dpcVars, hwVars, posted>>

ClearEvent(c) ==
    /\ pc[c] = "clear"
    /\ event' = [event EXCEPT ![CodecOf[c]] = FALSE]
    /\ Goto(c, "count")
    /\ UNCHANGED <<at, slot, got, status, input, lock, idleRefs, cmds, xfer, dpcVars, hwVars, posted>>

\* Mutant of CountValid: one missing answer is tolerated.
CountValid_OffByOne(c) ==
    /\ pc[c] = "count"
    /\ LET n == Cardinality({k \in 1 .. Count[c] : input[<<c, k>>] # NULL})
       IN  /\ got' = [got EXCEPT ![c] = n]
           /\ IF n < Count[c] - 1
                THEN Goto(c, "settle") /\ UNCHANGED status
                ELSE Goto(c, "out") /\ Finish(c, "STATUS_SUCCESS")
    /\ UNCHANGED <<at, slot, input, lock, idleRefs, cmds, xfer, event, dpcVars, hwVars, posted>>

CountValid(c) ==
    /\ pc[c] = "count"
    /\ LET n == Cardinality({k \in 1 .. Count[c] : input[<<c, k>>] # NULL})
       IN  /\ got' = [got EXCEPT ![c] = n]
           /\ IF n < Count[c]
                THEN Goto(c, "settle") /\ UNCHANGED status
                ELSE Goto(c, "out") /\ Finish(c, "STATUS_SUCCESS")
    /\ UNCHANGED <<at, slot, input, lock, idleRefs, cmds, xfer, event, dpcVars, hwVars, posted>>

\* Mutant of Settle: cmds still counts the verbs that were given up.
Settle_Keeps(c) ==
    /\ pc[c] = "settle"
    /\ Finish(c, "STATUS_IO_TIMEOUT") /\ Goto(c, "out")
    /\ UNCHANGED <<at, slot, got, input, lock, idleRefs, cmds, xfer, event, dpcVars, hwVars, posted>>

\* InterlockedAdd(&cmds, TransferredCount - Count)
Settle(c) ==
    /\ pc[c] = "settle"
    /\ cmds' = [cmds EXCEPT ![CodecOf[c]] = @ + got[c] - Count[c]]
    /\ Finish(c, "STATUS_IO_TIMEOUT") /\ Goto(c, "out")
    /\ UNCHANGED <<at, slot, got, input, lock, idleRefs, xfer, event, dpcVars, hwVars, posted>>

\* Mutant of Return: the work item does not resume idling.
Return_SyncOnly(c) ==
    /\ pc[c] = "out"
    /\ idleRefs' = IF Kind[c] = "sync" THEN idleRefs - 1 ELSE idleRefs
    /\ Goto(c, "returned")
    /\ UNCHANGED <<at, slot, got, status, input, lock, cmds, xfer, event, dpcVars, hwVars, posted>>

\* The call returns, or the work item runs the callback: the transfers
\* belong to the caller again.  WdfDeviceResumeIdle is reached by every
\* synchronous call and by the work item (HDA_AsyncWait, lines 53 to 60), which
\* exists once the send succeeded.
Return(c) ==
    /\ pc[c] = "out"
    /\ idleRefs' = IF \/ Kind[c] = "sync"
                      \/ Kind[c] = "async" /\ at[c] = Count[c]
                     THEN idleRefs - 1 ELSE idleRefs
    /\ Goto(c, "returned")
    /\ UNCHANGED <<at, slot, got, status, input, lock, cmds, xfer, event, dpcVars, hwVars, posted>>

Caller(c) ==
    \/ AcquireLock(c) \/ Check(c) \/ Reserve(c) \/ PostVerb(c) \/ Wait(c)
    \/ Timeout(c) \/ ClearEvent(c) \/ CountValid(c) \/ Settle(c) \/ Return(c)
-----------------------------------------------------------------------------
(* hda_interrupt and HDAFlushRIRB *)

\* The ISR runs under the interrupt lock.
Interrupt ==
    /\ RIRBSTS /\ lock = NULL /\ ~gone
    /\ RIRBSTS' = FALSE /\ processRirb' = TRUE
    /\ UNCHANGED <<callVars, input, lock, idleRefs, cmds, xfer, event, dpc, left, resp,
                   corb, CORBWP, CORBRP, rirb, gone, lost, fetched, posted>>

DpcMayRun == Smp \/ lock = NULL

\* processRirb = FALSE; wp = hda_read16(RIRBWP)
FlushReadWp ==
    /\ dpc = "idle" /\ processRirb /\ DpcMayRun
    /\ processRirb' = FALSE
    /\ left' = IF gone THEN 0 ELSE Len(rirb)
    /\ dpc' = IF left' = 0 THEN "idle" ELSE "test"
    /\ UNCHANGED <<callVars, input, lock, idleRefs, cmds, xfer, event, resp, hwVars, posted>>

\* The next turn of the loop, or its end.
FlushNext == dpc' = IF left = 0 THEN "idle" ELSE "test"

\* Take the next response; without pending commands it is unexpected.
FlushTest ==
    /\ dpc = "test" /\ DpcMayRun
    /\ resp' = Head(rirb) /\ rirb' = Tail(rirb) /\ left' = left - 1
    /\ dpc' = IF cmds[CodecOf[resp'[1]]] # 0 THEN "credit"
              ELSE IF left' = 0 THEN "idle" ELSE "test"
    /\ UNCHANGED <<callVars, input, lock, idleRefs, cmds, xfer, event, processRirb,
                   corb, CORBWP, CORBRP, RIRBSTS, gone, lost, fetched, posted>>

RespCodec == CodecOf[resp[1]]

\* Fill the first transfer, "but no xfer!" when there is none.
FlushCredit ==
    /\ dpc = "credit" /\ DpcMayRun
    /\ input' = IF xfer[RespCodec][0] = NULL THEN input
                ELSE [input EXCEPT ![xfer[RespCodec][0]] = resp]
    /\ dpc' = "shift"
    /\ UNCHANGED <<callVars, lock, idleRefs, cmds, xfer, event, processRirb, left, resp,
                   hwVars, posted>>

\* Mutant of FlushShift: the queue of transfers is not moved up.
FlushShift_Stays ==
    /\ dpc = "shift" /\ DpcMayRun
    /\ dpc' = "decrement"
    /\ UNCHANGED <<callVars, input, lock, idleRefs, cmds, xfer, event, processRirb, left, resp,
                   hwVars, posted>>

\* RtlMoveMemory(&xfer[0], &xfer[1], ...); the last one is NULL.
FlushShift ==
    /\ dpc = "shift" /\ DpcMayRun
    /\ xfer' = [xfer EXCEPT ![RespCodec] =
                  [i \in Slots |-> IF i = Entries - 1 THEN NULL ELSE @[i + 1]]]
    /\ dpc' = "decrement"
    /\ UNCHANGED <<callVars, input, lock, idleRefs, cmds, event, processRirb, left, resp,
                   hwVars, posted>>

\* Mutant of FlushDecrement: the value before the decrement is tested.
FlushDecrement_Old ==
    /\ dpc = "decrement" /\ DpcMayRun
    /\ cmds' = [cmds EXCEPT ![RespCodec] = @ - 1]
    /\ IF cmds[RespCodec] = 0 THEN dpc' = "event" ELSE FlushNext
    /\ UNCHANGED <<callVars, input, lock, idleRefs, xfer, event, processRirb, left, resp,
                   hwVars, posted>>

FlushDecrement ==
    /\ dpc = "decrement" /\ DpcMayRun
    /\ cmds' = [cmds EXCEPT ![RespCodec] = @ - 1]
    /\ IF cmds'[RespCodec] = 0 THEN dpc' = "event" ELSE FlushNext
    /\ UNCHANGED <<callVars, input, lock, idleRefs, xfer, event, processRirb, left, resp,
                   hwVars, posted>>

\* KeSetEvent on a notification event releases every waiter.
FlushSetEvent ==
    /\ dpc = "event" /\ DpcMayRun
    /\ event' = [event EXCEPT ![RespCodec] = TRUE]
    /\ pc' = [c \in Calls |-> IF pc[c] = "waiting" /\ CodecOf[c] = RespCodec
                                THEN "clear" ELSE pc[c]]
    /\ FlushNext
    /\ UNCHANGED <<at, slot, got, status, input, lock, idleRefs, cmds, xfer, processRirb,
                   left, resp, hwVars, posted>>

Dpc ==
    \/ FlushReadWp \/ FlushTest \/ FlushCredit \/ FlushShift
    \/ FlushDecrement \/ FlushSetEvent
-----------------------------------------------------------------------------
(* The controller fetches the commands in order and the codec answers each. *)

Fetch ==
    /\ ~gone /\ CORBRP # CORBWP
    /\ CORBRP' = NextEntry(CORBRP) /\ fetched' = fetched + 1
    /\ \/ /\ rirb' = Append(rirb, corb[CORBRP']) /\ RIRBSTS' = TRUE
          /\ UNCHANGED lost
       \/ /\ Losses /\ lost' = lost \cup {corb[CORBRP']}
          /\ UNCHANGED <<rirb, RIRBSTS>>
    /\ UNCHANGED <<callVars, input, lock, idleRefs, cmds, xfer, event, dpcVars,
                   corb, CORBWP, gone, posted>>

\* "Something wrong, controller likely went to sleep"
Vanish ==
    /\ Vanishes /\ ~gone /\ gone' = TRUE
    /\ UNCHANGED <<callVars, input, lock, idleRefs, cmds, xfer, event, dpcVars,
                   corb, CORBWP, CORBRP, rirb, RIRBSTS, lost, fetched, posted>>
-----------------------------------------------------------------------------
AllReturned == /\ \A c \in Calls : pc[c] = "returned"
               /\ UNCHANGED vars

Next ==
    \/ \E c \in Calls : Begin(c) \/ Caller(c)
    \/ Interrupt \/ Dpc \/ Fetch \/ Vanish
    \/ AllReturned

Spec == Init /\ [][Next]_vars

\* The scheduler runs the callers, the ISR and the DPC, and a wait expires;
\* the controller fetches commands while it is awake.
FairSpec ==
    /\ Spec
    /\ \A c \in Calls : WF_vars(Caller(c))
    /\ WF_vars(Interrupt) /\ WF_vars(Dpc) /\ WF_vars(Fetch)
-----------------------------------------------------------------------------
Statuses == {"none", "STATUS_SUCCESS", "STATUS_IO_TIMEOUT", "STATUS_RETRY",
             "STATUS_DEVICE_DOES_NOT_EXIST"}

TypeOK ==
    /\ pc \in [Calls -> {"idle", "lock", "check", "reserve", "post", "wait", "waiting",
                         "clear", "count", "settle", "out", "returned"}]
    /\ at \in [Calls -> Nat] /\ slot \in [Calls -> Int] /\ got \in [Calls -> Nat]
    /\ status \in [Calls -> Statuses]
    /\ input \in [Transfers -> Transfers \cup {NULL}]
    /\ lock \in Calls \cup {NULL} /\ idleRefs \in Int
    /\ cmds \in [Codecs -> Int] /\ xfer \in [Codecs -> [Slots -> Transfers \cup {NULL}]]
    /\ event \in [Codecs -> BOOLEAN]
    /\ processRirb \in BOOLEAN /\ left \in Nat /\ resp \in Transfers \cup {NULL}
    /\ dpc \in {"idle", "test", "credit", "shift", "decrement", "event"}
    /\ corb \in [Slots -> Transfers \cup {NULL}] /\ CORBWP \in Slots /\ CORBRP \in Slots
    /\ rirb \in Seq(Transfers) /\ RIRBSTS \in BOOLEAN /\ gone \in BOOLEAN
    /\ lost \subseteq Transfers /\ fetched \in Nat /\ posted \in Seq(Transfers)

\* SendHDACmds overwrites no command that the controller has still to fetch
\* ("Oops it's full"), two senders never take one entry, and the commands
\* stand between the CORB's pointers in the order of their posting.
CorbIntact ==
    LET n == Len(posted) - fetched
    IN  /\ n \in Slots /\ CORBWP = (CORBRP + n) % Entries
        /\ \A i \in 1 .. n : corb[(CORBRP + i) % Entries] = posted[fetched + i]

\* "Got response on addr for command": the response in a transfer answers
\* the command of that transfer, not one sent before or after it.
AnswersMatch == \A t \in Transfers : input[t] # NULL => input[t] = t

\* A call that reports success got the response to every one of its verbs.
SuccessMeansAnswered ==
    \A c \in Calls : status[c] = "STATUS_SUCCESS" =>
        \A k \in 1 .. Count[c] : input[<<c, k>>] = <<c, k>>

\* "timeout (Count, transferred)": a call fails with STATUS_IO_TIMEOUT only
\* when one of its verbs was never answered.
TimeoutMeansLost ==
    \A c \in Calls : status[c] = "STATUS_IO_TIMEOUT" =>
        gone \/ \E k \in 1 .. Count[c] : <<c, k>> \in lost

\* The DPC writes into no transfer whose owner has it back: xfer holds the
\* pointers of returned calls (cmds alone says which entries count), and the
\* transfer of RunSingleHDACmd is on its stack.
NoWriteAfterReturn ==
    dpc = "credit" =>
        LET t == xfer[RespCodec][0] IN t # NULL => pc[t[1]] # "returned"

\* InterlockedIncrement leaves an index of the array: cmds never drops below
\* zero nor exceeds the array's size.
SlotInArray == \A c \in Calls : pc[c] = "post" => slot[c] - 1 \in Slots

\* Neither the queue of a codec nor a transfer in it is written out of place.
QueueSound == NoWriteAfterReturn /\ SlotInArray

\* The verbs of codec a that were posted and that neither the DPC nor a
\* timed-out call took off the queue.
Unsettled(a) ==
    {t \in InCorb \cup InRirb \cup lost :
        CodecOf[t[1]] = a /\ status[t[1]] # "STATUS_IO_TIMEOUT"}

PostedBefore(t, u) ==
    \E i, j \in 1 .. Len(posted) : i < j /\ posted[i] = t /\ posted[j] = u

\* Whenever neither a sender nor the DPC is inside, the first cmds entries of
\* xfer are the verbs without an answer, each once, in the order of their
\* commands.
QueueAgrees ==
    lock = NULL /\ dpc \in {"idle", "test"} => \A a \in Codecs :
        LET n == cmds[a]
        IN  /\ n \in 0 .. Entries
            /\ {xfer[a][i] : i \in 0 .. n - 1} = Unsettled(a)
            /\ \A i, j \in 0 .. n - 1 : i < j => PostedBefore(xfer[a][i], xfer[a][j])

\* It is set only for a codec with a call that has yet to take the result of
\* its wait.
NoStaleEvent ==
    \A a \in Codecs : event[a] =>
        \E c \in Calls : CodecOf[c] = a
            /\ pc[c] \in {"check", "reserve", "post", "wait", "waiting", "clear"}

\* A call still waits with all its answers in only while the DPC is on its way,
\* with the last of them, to setting the event.
NoMissedEvent ==
    \A c \in Calls :
        pc[c] = "waiting" /\ (\A k \in 1 .. Count[c] : input[<<c, k>>] # NULL) =>
            dpc \in {"shift", "decrement", "event"} /\ RespCodec = CodecOf[c]

\* The event that all calls on a codec share is exact: no set event is left
\* over for the next call, and no wake-up is missed.
EventExact == NoStaleEvent /\ NoMissedEvent

\* The device stays out of idle while verbs of a call (not of
\* RunSingleHDACmd, which runs in D0 entry) are outstanding, and every
\* reference is given back once all calls are over.
IdleBalanced ==
    idleRefs = Cardinality({c \in Calls : Kind[c] # "single" /\ ~Idle(c)})

\* Every call returns, or has its callback run, whatever the codecs and the
\* controller do.
CallsReturn == \A c \in Calls : pc[c] # "idle" ~> pc[c] = "returned"
=============================================================================
