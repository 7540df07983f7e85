--------------------------- MODULE DmaEngineProofs ---------------------------
(***************************************************************************)
(* Theorems about DmaEngine, for any number of streams in each direction,  *)
(* any function drivers and any drivers of the DSP, whether or not these   *)
(* start and stop streams without the lock.                                *)
(*                                                                         *)
(* Ind is inductive.  Its parts say whose stream an operation is about     *)
(* (CurInv), who holds the lock (LockInv), what an operation found out     *)
(* before it waited (StillInv), what a stream's memory is (MemInv) and in  *)
(* which bits a register value that was read may be out of date (SnapInv). *)
(***************************************************************************)
EXTENDS DmaEngine, FiniteSetTheorems, TLAPS

Updating == {"startRead", "startWrite", "stopRead", "stopWrite"}
AtWork == Updating \cup {"free", "list", "setup"}
Playable == {"mdl", "contiguous", "dsp"}

\* An operation is about a stream of its client.
CurInv ==
    \A c \in Clients : pc[c] \in AtWork => cur[c] \in Streams /\ owner[cur[c]] = c

\* A function driver changes INTCTL under the lock.
LockInv == \A c \in HdaClients : pc[c] \in Updating => lock = c

\* What an operation found when it began is still so.
StillInv ==
    \A c \in Clients :
        /\ pc[c] \in {"stopRead", "stopWrite", "list", "setup"} => ~running[cur[c]]
        /\ pc[c] = "free" => ~mdlBuf[cur[c]] /\ ~dmaBuf[cur[c]]
        /\ pc[c] \in {"startRead", "startWrite"} => listed[cur[c]] \in Playable

\* A list names memory that is there, or is marked; a stream moves data only
\* while it runs; an engine without an owner is left as it was at first.
MemInv ==
    \A s \in Streams :
        /\ listed[s] = "mdl" => mdlBuf[s]
        /\ listed[s] = "contiguous" => dmaBuf[s]
        /\ runBit[s] => running[s] /\ listed[s] \in Playable
        /\ owner[s] = NULL => ~running[s] /\ ~mdlBuf[s] /\ ~dmaBuf[s]

\* What a function driver read from INTCTL differs from it only in streams of
\* the DSP and in those whose bit was put back.
SnapInv ==
    \A c \in HdaClients : pc[c] \in {"startWrite", "stopWrite"} =>
        \A s \in Streams :
            s # cur[c] /\ owner[s] \notin DspClients /\ s \notin lost =>
                (s \in snap[c] <=> s \in SIE)

Labels == {"idle", "capture", "render", "free", "resume", "startRead",
           "startWrite", "stopRead", "stopWrite", "list", "setup"}
-----------------------------------------------------------------------------
(* Types. *)

\* The initial states are of the right types, and no operation is under way.
LEMMA TypeInit == Init => TypeOK /\ CurInv
BY DEF Init, TypeOK, CurInv, AtWork, Updating, Memory

\* The variables that say where each client is keep their types.
LEMMA ClientTyped ==
  ASSUME TypeOK, [Next]_vars
  PROVE /\ pc' \in [Clients -> Labels] /\ cur' \in [Clients -> Int]
        /\ held' \in [Clients -> SUBSET Streams] /\ snap' \in [Clients -> SUBSET Streams]
        /\ lock' \in Clients \cup {NULL} /\ idleRefs' \in Int
<1> USE DEF TypeOK, Goto, End, Set
<1>1. CASE Sleep \/ UNCHANGED vars
  BY <1>1 DEF Sleep, vars, Labels
<1>2. ASSUME NEW c \in Clients, Operation(c)
      PROVE /\ pc' \in [Clients -> Labels] /\ cur' \in [Clients -> Int]
            /\ held' \in [Clients -> SUBSET Streams] /\ snap' \in [Clients -> SUBSET Streams]
            /\ lock' \in Clients \cup {NULL} /\ idleRefs' \in Int
  <2>1. CASE AllocateBegin(c)
    BY <2>1 DEF AllocateBegin, Labels
  <2>2. CASE Allocate(c)
    BY <2>2 DEF Allocate, Labels
  <2>3. CASE AllocateNone(c)
    BY <2>3 DEF AllocateNone, Labels
  <2>4. CASE Free(c)
    BY <2>4 DEF Free, Labels
  <2>5. CASE FreeResume(c)
    BY <2>5 DEF FreeResume, Labels
  <2>6. CASE ReadIntctl(c)
    BY <2>6 DEF ReadIntctl, Labels
  <2>7. CASE StartWrite(c) \/ StopWrite(c)
    BY <2>7 DEF StartWrite, StopWrite, Unlock, Labels
  <2>8. CASE AllocateBufferList(c) \/ AllocateBufferSetup(c)
    BY <2>8 DEF AllocateBufferList, AllocateBufferSetup, Labels
  <2>9. ASSUME NEW s \in Streams,
               FreeBegin(c, s) \/ Run(c, s) \/ Stop(c, s) \/ AllocateBufferBegin(c, s)
                 \/ \E start \in BOOLEAN : Trigger(c, s, start)
        PROVE /\ pc' \in [Clients -> Labels] /\ cur' \in [Clients -> Int]
              /\ held' \in [Clients -> SUBSET Streams] /\ snap' \in [Clients -> SUBSET Streams]
              /\ lock' \in Clients \cup {NULL} /\ idleRefs' \in Int
    <3>1. s \in Int
      BY StreamAssumption DEF Streams, Capture, Playback
    <3> QED
      BY <2>9, <3>1 DEF FreeBegin, Run, Stop, AllocateBufferBegin, Trigger, Labels
  <2>10. CASE UNCHANGED <<pc, cur, held, snap, lock, idleRefs>>
    BY <2>10 DEF Labels
  <2> QED
    BY <1>2, <2>1, <2>2, <2>3, <2>4, <2>5, <2>6, <2>7, <2>8, <2>9, <2>10
       DEF Operation, FreeBuffer, AllocateContiguous, SetupWithBdl, FreeContiguous,
           SetUpAgain, PrepareDsp, CleanupDsp
<1> QED
  BY <1>1, <1>2 DEF Next

\* So do the variables of the streams and the registers.
LEMMA StreamTyped ==
  ASSUME TypeOK, CurInv, [Next]_vars
  PROVE /\ owner' \in [Streams -> Clients \cup {NULL}] /\ running' \in [Streams -> BOOLEAN]
        /\ mdlBuf' \in [Streams -> BOOLEAN] /\ dmaBuf' \in [Streams -> BOOLEAN]
        /\ listed' \in [Streams -> Memory] /\ runBit' \in [Streams -> BOOLEAN]
        /\ SIE' \subseteq Streams /\ PROCEN' \subseteq Streams /\ lost' \subseteq Streams
<1> DEFINE Typed ==
      /\ owner' \in [Streams -> Clients \cup {NULL}] /\ running' \in [Streams -> BOOLEAN]
      /\ mdlBuf' \in [Streams -> BOOLEAN] /\ dmaBuf' \in [Streams -> BOOLEAN]
      /\ listed' \in [Streams -> Memory] /\ runBit' \in [Streams -> BOOLEAN]
      /\ SIE' \subseteq Streams /\ PROCEN' \subseteq Streams /\ lost' \subseteq Streams
<1> USE DEF TypeOK, Set, Memory, engineVars, regVars
<1>1. CASE Sleep \/ UNCHANGED vars
  BY <1>1 DEF Sleep, vars
<1>2. ASSUME NEW c \in Clients, Operation(c) PROVE Typed
  <2>1. CASE Allocate(c)
    BY <2>1 DEF Allocate
  <2>2. CASE Free(c)
    BY <2>2 DEF Free
  <2>3. CASE StartWrite(c) \/ StopWrite(c)
    <3>1. cur[c] \in Streams
      BY <2>3 DEF StartWrite, StopWrite, CurInv, AtWork, Updating
    <3>2. lost' \subseteq Streams
      BY <2>3 DEF StartWrite, StopWrite, Note, Overwritten
    <3> QED
      BY <2>3, <3>1, <3>2 DEF StartWrite, StopWrite
  <2>4. CASE AllocateBufferList(c) \/ AllocateBufferSetup(c)
    BY <2>4 DEF AllocateBufferList, AllocateBufferSetup, Cleared
  <2>5. ASSUME NEW s \in Streams, Stop(c, s) \/ \E start \in BOOLEAN : Trigger(c, s, start)
        PROVE Typed
    BY <2>5 DEF Stop, Trigger
  <2>6. ASSUME NEW s \in Streams,
               \/ FreeBuffer(c, s) \/ AllocateContiguous(c, s) \/ SetupWithBdl(c, s)
               \/ FreeContiguous(c, s) \/ SetUpAgain(c, s) \/ PrepareDsp(c, s) \/ CleanupDsp(c, s)
        PROVE Typed
    BY <2>6 DEF FreeBuffer, AllocateContiguous, SetupWithBdl, FreeContiguous, SetUpAgain,
                PrepareDsp, CleanupDsp, Cleared
  <2>7. CASE UNCHANGED <<engineVars, regVars, lost>>
    BY <2>7
  <2> QED
    BY <1>2, <2>1, <2>2, <2>3, <2>4, <2>5, <2>6, <2>7
       DEF Operation, AllocateBegin, AllocateNone, FreeResume, ReadIntctl, FreeBegin, Run,
           AllocateBufferBegin
<1> QED
  BY <1>1, <1>2 DEF Next

LEMMA TypeKept ==
  ASSUME TypeOK, CurInv, [Next]_vars
  PROVE TypeOK'
BY ClientTyped, StreamTyped DEF TypeOK, Labels

\* An engine changes hands only without an owner or by its owner's hand, who
\* is then at no other operation.
LEMMA CurKept ==
  ASSUME TypeOK, CurInv, [Next]_vars
  PROVE CurInv'
<1> USE DEF TypeOK, CurInv, AtWork, Updating, Goto, End, Set, engineVars
<1>1. CASE Sleep \/ UNCHANGED vars
  BY <1>1 DEF Sleep, vars
<1>2. ASSUME NEW c \in Clients, Operation(c) PROVE CurInv'
  <2>1. CASE AllocateBegin(c) \/ AllocateNone(c) \/ FreeResume(c)
    BY <2>1 DEF AllocateBegin, AllocateNone, FreeResume
  <2>2. CASE Allocate(c)
    BY <2>2, ClientAssumption DEF Allocate, FirstFree
  <2>3. CASE Free(c)
    BY <2>3, ClientAssumption DEF Free
  <2>4. CASE ReadIntctl(c) \/ StartWrite(c) \/ StopWrite(c)
    BY <2>4 DEF ReadIntctl, StartWrite, StopWrite
  <2>5. CASE AllocateBufferList(c) \/ AllocateBufferSetup(c)
    BY <2>5 DEF AllocateBufferList, AllocateBufferSetup
  <2>6. ASSUME NEW s \in Streams,
               \/ FreeBegin(c, s) \/ Run(c, s) \/ Stop(c, s) \/ AllocateBufferBegin(c, s)
               \/ \E start \in BOOLEAN : Trigger(c, s, start)
        PROVE CurInv'
    BY <2>6 DEF FreeBegin, Run, Stop, AllocateBufferBegin, Trigger, Owns
  <2>7. CASE UNCHANGED <<pc, cur, owner>>
    BY <2>7
  <2> QED
    BY <1>2, <2>1, <2>2, <2>3, <2>4, <2>5, <2>6, <2>7
       DEF Operation, FreeBuffer, AllocateContiguous, SetupWithBdl, FreeContiguous,
           SetUpAgain, PrepareDsp, CleanupDsp
<1> QED
  BY <1>1, <1>2 DEF Next

\* The lock is taken when it is free and given back by who took it.
LEMMA LockKept ==
  ASSUME TypeOK, LockInv, [Next]_vars
  PROVE LockInv'
<1> USE DEF TypeOK, LockInv, Updating, Goto, End, Set, Clients
<1>1. CASE Sleep \/ UNCHANGED vars
  BY <1>1 DEF Sleep, vars
<1>2. ASSUME NEW c \in Clients, Operation(c) PROVE LockInv'
  <2>1. CASE AllocateBegin(c) \/ Allocate(c) \/ AllocateNone(c) \/ Free(c) \/ FreeResume(c)
    BY <2>1 DEF AllocateBegin, Allocate, AllocateNone, Free, FreeResume
  <2>2. CASE ReadIntctl(c)
    BY <2>2 DEF ReadIntctl
  <2>3. CASE StartWrite(c) \/ StopWrite(c)
    BY <2>3, ClientAssumption DEF StartWrite, StopWrite, Unlock
  <2>4. CASE AllocateBufferList(c) \/ AllocateBufferSetup(c)
    BY <2>4 DEF AllocateBufferList, AllocateBufferSetup
  <2>5. ASSUME NEW s \in Streams, FreeBegin(c, s) \/ AllocateBufferBegin(c, s) PROVE LockInv'
    BY <2>5 DEF FreeBegin, AllocateBufferBegin
  <2>6. ASSUME NEW s \in Streams, Run(c, s) \/ Stop(c, s) PROVE LockInv'
    BY <2>6, ClientAssumption DEF Run, Stop
  <2>7. ASSUME NEW s \in Streams, NEW start \in BOOLEAN, Trigger(c, s, start) PROVE LockInv'
    BY <2>7, ClientAssumption DEF Trigger
  <2>8. CASE UNCHANGED <<pc, lock>>
    BY <2>8
  <2> QED
    BY <1>2, <2>1, <2>2, <2>3, <2>4, <2>5, <2>6, <2>7, <2>8
       DEF Operation, FreeBuffer, AllocateContiguous, SetupWithBdl, FreeContiguous,
           SetUpAgain, PrepareDsp, CleanupDsp
<1> QED
  BY <1>1, <1>2 DEF Next

\* Every operation is about a stream of its client's, so what another client
\* found out about a stream of its own stays so.
LEMMA StillKept ==
  ASSUME TypeOK, CurInv, StillInv, [Next]_vars
  PROVE StillInv'
<1> USE DEF TypeOK, StillInv, CurInv, AtWork, Updating, Playable, Goto, End, Set
<1>1. CASE Sleep \/ UNCHANGED vars
  BY <1>1 DEF Sleep, vars, engineVars, regVars
<1>2. ASSUME NEW c \in Clients, Operation(c) PROVE StillInv'
  <2>1. CASE AllocateBegin(c) \/ AllocateNone(c) \/ FreeResume(c) \/ ReadIntctl(c)
    BY <2>1 DEF AllocateBegin, AllocateNone, FreeResume, ReadIntctl, engineVars
  <2>2. CASE Allocate(c)
    BY <2>2, ClientAssumption DEF Allocate, FirstFree
  <2>3. CASE Free(c)
    BY <2>3 DEF Free
  <2>4. CASE StartWrite(c)
    BY <2>4 DEF StartWrite
  <2>5. CASE StopWrite(c)
    BY <2>5 DEF StopWrite, engineVars
  <2>6. CASE AllocateBufferList(c)
    BY <2>6 DEF AllocateBufferList
  <2>7. CASE AllocateBufferSetup(c)
    BY <2>7 DEF AllocateBufferSetup, Cleared
  <2>8. ASSUME NEW s \in Streams, FreeBegin(c, s) \/ Run(c, s) \/ AllocateBufferBegin(c, s)
        PROVE StillInv'
    BY <2>8 DEF FreeBegin, Run, AllocateBufferBegin, Owns, engineVars
  <2>9. ASSUME NEW s \in Streams, Stop(c, s) \/ \E start \in BOOLEAN : Trigger(c, s, start)
        PROVE StillInv'
    BY <2>9 DEF Stop, Trigger, Owns
  <2>10. ASSUME NEW s \in Streams, FreeBuffer(c, s) \/ FreeContiguous(c, s) PROVE StillInv'
    BY <2>10 DEF FreeBuffer, FreeContiguous, Owns
  <2>11. ASSUME NEW s \in Streams, AllocateContiguous(c, s) \/ CleanupDsp(c, s) PROVE StillInv'
    BY <2>11 DEF AllocateContiguous, CleanupDsp, Owns
  <2>12. ASSUME NEW s \in Streams,
                SetupWithBdl(c, s) \/ SetUpAgain(c, s) \/ PrepareDsp(c, s)
         PROVE StillInv'
    BY <2>12 DEF SetupWithBdl, SetUpAgain, PrepareDsp, Owns, Cleared
  <2> QED
    BY <1>2, <2>1, <2>2, <2>3, <2>4, <2>5, <2>6, <2>7, <2>8, <2>9, <2>10, <2>11, <2>12
       DEF Operation
<1> QED
  BY <1>1, <1>2 DEF Next

\* Freeing memory marks the list that names it and stops the stream; an engine
\* is given back stopped and without memory.
LEMMA MemKept ==
  ASSUME TypeOK, CurInv, StillInv, MemInv, [Next]_vars
  PROVE MemInv'
<1> USE ClientAssumption
    DEF TypeOK, StillInv, CurInv, MemInv, AtWork, Updating, Playable, Set
<1>1. CASE Sleep \/ UNCHANGED vars
  BY <1>1 DEF Sleep, vars, engineVars, regVars
<1>2. ASSUME NEW c \in Clients, Operation(c) PROVE MemInv'
  <2>1. CASE Allocate(c)
    BY <2>1 DEF Allocate, FirstFree
  <2>2. CASE Free(c)
    BY <2>2 DEF Free
  <2>3. CASE StartWrite(c)
    BY <2>3 DEF StartWrite
  <2>4. CASE AllocateBufferList(c)
    BY <2>4 DEF AllocateBufferList, regVars
  <2>5. CASE AllocateBufferSetup(c)
    BY <2>5 DEF AllocateBufferSetup, Cleared
  <2>6. ASSUME NEW s \in Streams, Stop(c, s) \/ \E start \in BOOLEAN : Trigger(c, s, start)
        PROVE MemInv'
    BY <2>6 DEF Stop, Trigger, Owns
  <2>7. ASSUME NEW s \in Streams, FreeBuffer(c, s) \/ FreeContiguous(c, s) PROVE MemInv'
    <3>1. CASE FreeBuffer(c, s)
      BY <3>1 DEF FreeBuffer, Owns
    <3>2. CASE FreeContiguous(c, s)
      BY <3>2 DEF FreeContiguous, Owns
    <3> QED
      BY <2>7, <3>1, <3>2
  <2>8. ASSUME NEW s \in Streams, AllocateContiguous(c, s) \/ CleanupDsp(c, s) PROVE MemInv'
    BY <2>8 DEF AllocateContiguous, CleanupDsp, Owns, regVars
  <2>9. ASSUME NEW s \in Streams,
               SetupWithBdl(c, s) \/ SetUpAgain(c, s) \/ PrepareDsp(c, s)
        PROVE MemInv'
    BY <2>9 DEF SetupWithBdl, SetUpAgain, PrepareDsp, Owns, Cleared
  <2>10. CASE UNCHANGED <<engineVars, runBit>>
    BY <2>10 DEF engineVars
  <2> QED
    BY <1>2, <2>1, <2>2, <2>3, <2>4, <2>5, <2>6, <2>7, <2>8, <2>9, <2>10
       DEF Operation, AllocateBegin, AllocateNone, FreeResume, ReadIntctl, StopWrite,
           FreeBegin, Run, AllocateBufferBegin, engineVars, regVars
<1> QED
  BY <1>1, <1>2 DEF Next

\* A write of INTCTL changes, of the streams that are in nobody's hands but
\* its own, only the one it is about, and those it notes in lost.
LEMMA WriteChanges ==
  ASSUME TypeOK, CurInv, SnapInv, NEW c \in Clients, StartWrite(c) \/ StopWrite(c),
         NEW s \in Streams, s # cur[c], s \notin lost'
  PROVE s \in SIE' <=> s \in SIE
<1>1. s \notin lost /\ s \notin Overwritten(c)
  BY DEF StartWrite, StopWrite, Note
<1>2. s \in snap[c] <=> s \in SIE
  BY <1>1 DEF StartWrite, StopWrite, Overwritten, SnapInv, TypeOK, Clients
<1> QED
  BY <1>2 DEF StartWrite, StopWrite

\* While a function driver is between reading and writing INTCTL, only a
\* driver of the DSP writes it.
LEMMA SnapKept ==
  ASSUME TypeOK, CurInv, LockInv, SnapInv, [Next]_vars
  PROVE SnapInv'
<1> USE DEF TypeOK, SnapInv, LockInv, CurInv, AtWork, Updating, Goto, End, Set, Clients
<1>1. CASE Sleep \/ UNCHANGED vars
  BY <1>1 DEF Sleep, vars, engineVars, regVars
<1>2. ASSUME NEW c \in Clients, Operation(c) PROVE SnapInv'
  <2>1. CASE AllocateBegin(c) \/ AllocateNone(c) \/ FreeResume(c)
    BY <2>1 DEF AllocateBegin, AllocateNone, FreeResume, engineVars, regVars
  <2>2. CASE Allocate(c) \/ Free(c)
    BY <2>2, ClientAssumption DEF Allocate, Free
  <2>3. CASE ReadIntctl(c)
    BY <2>3 DEF ReadIntctl, engineVars, regVars
  <2>4. CASE StartWrite(c) \/ StopWrite(c)
    <3>1. SUFFICES ASSUME NEW d \in HdaClients, pc'[d] \in {"startWrite", "stopWrite"},
                          NEW s \in Streams, s # cur'[d], owner'[s] \notin DspClients,
                          s \notin lost'
                   PROVE s \in snap'[d] <=> s \in SIE'
      BY DEF SnapInv
    <3>2. d # c /\ pc[d] = pc'[d] /\ cur[d] = cur'[d] /\ snap[d] = snap'[d] /\ owner' = owner
      BY <2>4, <3>1 DEF StartWrite, StopWrite, engineVars
    <3>3. c \in DspClients /\ s # cur[c]
      BY <2>4, <3>1, <3>2 DEF StartWrite, StopWrite
    <3>4. s \in SIE' <=> s \in SIE
      BY <2>4, <3>1, <3>3, WriteChanges
    <3>5. s \notin lost
      BY <2>4, <3>1, <3>3 DEF StartWrite, StopWrite, Note
    <3> QED
      BY <3>1, <3>2, <3>4, <3>5
  <2>5. CASE AllocateBufferList(c) \/ AllocateBufferSetup(c)
    BY <2>5 DEF AllocateBufferList, AllocateBufferSetup, regVars
  <2>6. ASSUME NEW s \in Streams,
               \/ FreeBegin(c, s) \/ Run(c, s) \/ Stop(c, s) \/ AllocateBufferBegin(c, s)
               \/ \E start \in BOOLEAN : Trigger(c, s, start)
        PROVE SnapInv'
    BY <2>6 DEF FreeBegin, Run, Stop, AllocateBufferBegin, Trigger, engineVars, regVars
  <2>7. CASE UNCHANGED <<pc, cur, snap, owner, SIE, lost>>
    BY <2>7
  <2> QED
    BY <1>2, <2>1, <2>2, <2>3, <2>4, <2>5, <2>6, <2>7
       DEF Operation, FreeBuffer, AllocateContiguous, SetupWithBdl, FreeContiguous,
           SetUpAgain, PrepareDsp, CleanupDsp, regVars
<1> QED
  BY <1>1, <1>2 DEF Next

\* Only the operation that is about a stream may leave its interrupt in
\* disagreement with its running, and it puts that right before it ends.
LEMMA SieKept ==
  ASSUME TypeOK, CurInv, StillInv, MemInv, SnapInv, SieAgrees, [Next]_vars
  PROVE SieAgrees'
<1> USE DEF TypeOK, SieAgrees, Changing, Goto, End, Set
<1>1. CASE Sleep \/ UNCHANGED vars
  BY <1>1 DEF Sleep, vars, engineVars, regVars
<1>2. ASSUME NEW c \in Clients, Operation(c) PROVE SieAgrees'
  <2>1. CASE StartWrite(c) \/ StopWrite(c)
    <3>1. SUFFICES ASSUME NEW s \in Streams, ~Changing(s)', s \notin lost'
                   PROVE s \in SIE' <=> running'[s]
      BY DEF SieAgrees
    <3>2. CASE s = cur[c]
      BY <2>1, <3>2 DEF StartWrite, StopWrite, StillInv, engineVars
    <3>3. CASE s # cur[c]
      <4>1. s \in SIE' <=> s \in SIE
        BY <2>1, <3>1, <3>3, WriteChanges
      <4>2. running'[s] = running[s] /\ s \notin lost
        BY <2>1, <3>1, <3>3 DEF StartWrite, StopWrite, Note, engineVars
      <4>3. ~Changing(s)
        BY <2>1, <3>1, <3>3 DEF StartWrite, StopWrite
      <4> QED
        BY <4>1, <4>2, <4>3
    <3> QED
      BY <3>2, <3>3
  <2>2. CASE AllocateBegin(c) \/ AllocateNone(c) \/ FreeResume(c) \/ ReadIntctl(c)
    BY <2>2 DEF AllocateBegin, AllocateNone, FreeResume, ReadIntctl, engineVars, regVars
  <2>3. CASE Allocate(c)
    BY <2>3 DEF Allocate, FirstFree, MemInv
  <2>4. CASE Free(c)
    BY <2>4 DEF Free
  <2>5. CASE AllocateBufferList(c)
    BY <2>5 DEF AllocateBufferList, regVars
  <2>6. CASE AllocateBufferSetup(c)
    BY <2>6 DEF AllocateBufferSetup, Cleared, StillInv, CurInv, AtWork
  <2>7. ASSUME NEW s \in Streams, FreeBegin(c, s) \/ AllocateBufferBegin(c, s) PROVE SieAgrees'
    BY <2>7 DEF FreeBegin, AllocateBufferBegin, engineVars, regVars
  <2>8. ASSUME NEW s \in Streams, Run(c, s) PROVE SieAgrees'
    BY <2>8 DEF Run, engineVars, regVars
  <2>9. ASSUME NEW s \in Streams, Stop(c, s) \/ \E start \in BOOLEAN : Trigger(c, s, start)
        PROVE SieAgrees'
    BY <2>9 DEF Stop, Trigger
  <2>10. ASSUME NEW s \in Streams,
                SetupWithBdl(c, s) \/ SetUpAgain(c, s) \/ PrepareDsp(c, s)
         PROVE SieAgrees'
    BY <2>10 DEF SetupWithBdl, SetUpAgain, PrepareDsp, Cleared
  <2>11. CASE UNCHANGED <<pc, cur, running, SIE, lost>>
    BY <2>11
  <2> QED
    BY <1>2, <2>1, <2>2, <2>3, <2>4, <2>5, <2>6, <2>7, <2>8, <2>9, <2>10, <2>11
       DEF Operation, FreeBuffer, AllocateContiguous, FreeContiguous, CleanupDsp, regVars
<1> QED
  BY <1>1, <1>2 DEF Next

\* Where no driver of the DSP starts or stops streams, what was read from
\* INTCTL is not out of date.
LockedInv ==
    /\ lost = {}
    /\ \A c \in DspClients : pc[c] \notin Updating
    /\ \A c \in HdaClients : pc[c] \in {"startWrite", "stopWrite"} => snap[c] = SIE

\* Then whoever writes INTCTL holds the lock, and nobody wrote it since it read.
LEMMA LockedKept ==
  ASSUME ~DspTriggers, TypeOK, LockInv, LockedInv, [Next]_vars
  PROVE LockedInv'
<1> USE ClientAssumption DEF TypeOK, LockedInv, LockInv, Updating, Goto, End, Clients
<1>1. CASE Sleep \/ UNCHANGED vars
  BY <1>1 DEF Sleep, vars, engineVars, regVars
<1>2. ASSUME NEW c \in Clients, Operation(c) PROVE LockedInv'
  <2>1. CASE StartWrite(c) \/ StopWrite(c)
    <3>1. Overwritten(c) = {}
      BY <2>1 DEF StartWrite, StopWrite, Overwritten
    <3> QED
      BY <2>1, <3>1 DEF StartWrite, StopWrite, Note
  <2>2. CASE ReadIntctl(c)
    BY <2>2 DEF ReadIntctl, regVars
  <2>3. CASE AllocateBegin(c) \/ Allocate(c) \/ AllocateNone(c) \/ Free(c) \/ FreeResume(c)
    BY <2>3 DEF AllocateBegin, Allocate, AllocateNone, Free, FreeResume, regVars
  <2>4. CASE AllocateBufferList(c) \/ AllocateBufferSetup(c)
    BY <2>4 DEF AllocateBufferList, AllocateBufferSetup, regVars
  <2>5. ASSUME NEW s \in Streams,
               FreeBegin(c, s) \/ Run(c, s) \/ Stop(c, s) \/ AllocateBufferBegin(c, s)
        PROVE LockedInv'
    BY <2>5 DEF FreeBegin, Run, Stop, AllocateBufferBegin, Set, regVars
  <2>6. CASE UNCHANGED <<pc, snap, SIE, lost>>
    BY <2>6
  <2> QED
    BY <1>2, <2>1, <2>2, <2>3, <2>4, <2>5, <2>6
       DEF Operation, Trigger, FreeBuffer, AllocateContiguous, SetupWithBdl, FreeContiguous,
           SetUpAgain, PrepareDsp, CleanupDsp, regVars
<1> QED
  BY <1>1, <1>2 DEF Next
-----------------------------------------------------------------------------
(* Owners and references. *)

\* Handles are given and taken with ownership.
LEMMA HandlesKept ==
  ASSUME TypeOK, CurInv, HandlesAreOwners, [Next]_vars
  PROVE HandlesAreOwners'
<1> USE DEF TypeOK, HandlesAreOwners, Set
<1>1. CASE UNCHANGED <<owner, held>>
  BY <1>1
<1>2. ASSUME NEW c \in Clients, Allocate(c) PROVE HandlesAreOwners'
  BY <1>2, ClientAssumption DEF Allocate, FirstFree
<1>3. ASSUME NEW c \in Clients, Free(c) PROVE HandlesAreOwners'
  BY <1>3, ClientAssumption DEF Free, CurInv, AtWork
<1> QED
  BY <1>1, <1>2, <1>3
     DEF Next, Sleep, vars, engineVars, Operation, AllocateBegin, AllocateNone, FreeResume,
         ReadIntctl, StartWrite, StopWrite, AllocateBufferList, AllocateBufferSetup, FreeBegin,
         Run, Stop, Trigger, AllocateBufferBegin, FreeBuffer, AllocateContiguous, SetupWithBdl,
         FreeContiguous, SetUpAgain, PrepareDsp, CleanupDsp

\* PROCEN follows ownership: it is set and cleared under the lock with it, and
\* when the controller is reset no driver of the DSP has a stream.
LEMMA ProcenKept ==
  ASSUME NumCapture + NumPlayback <= PpctlBits,
         TypeOK, CurInv, HandlesAreOwners, ProcenAgrees, [Next]_vars
  PROVE ProcenAgrees'
<1> USE DEF TypeOK, ProcenAgrees, Set
<1>1. CASE UNCHANGED <<owner, PROCEN>>
  BY <1>1
<1>2. CASE Sleep
  BY <1>2 DEF Sleep, HandlesAreOwners, Clients
<1>3. ASSUME NEW c \in Clients, Allocate(c) PROVE ProcenAgrees'
  BY <1>3, ClientAssumption DEF Allocate, FirstFree, Clients
<1>4. ASSUME NEW c \in Clients, Free(c) PROVE ProcenAgrees'
  <2>1. cur[c] \in Streams /\ owner[cur[c]] = c
    BY <1>4 DEF Free, CurInv, AtWork
  <2>2. cur[c] < PpctlBits
    BY <2>1, StreamAssumption DEF Streams, Capture, Playback
  <2> QED
    BY <1>4, <2>1, <2>2, ClientAssumption DEF Free, Clients
<1> QED
  BY <1>1, <1>2, <1>3, <1>4
     DEF Next, vars, engineVars, regVars, Operation, AllocateBegin, AllocateNone, FreeResume,
         ReadIntctl, StartWrite, StopWrite, AllocateBufferList, AllocateBufferSetup, FreeBegin,
         Run, Stop, Trigger, AllocateBufferBegin, FreeBuffer, AllocateContiguous, SetupWithBdl,
         FreeContiguous, SetUpAgain, PrepareDsp, CleanupDsp

Lent == {s \in Streams : owner[s] # NULL}
Counted == {c \in Clients : pc[c] \in {"capture", "render", "resume"}}

\* Both sets that OneReferenceEach counts are finite, before a step and after.
LEMMA CountedFinite ==
  /\ IsFiniteSet(Lent) /\ IsFiniteSet(Counted)
  /\ Cardinality(Lent) \in Nat /\ Cardinality(Counted) \in Nat
<1>1. IsFiniteSet(Capture) /\ IsFiniteSet(Playback)
  BY FS_Interval, StreamAssumption DEF Capture, Playback
<1>2. IsFiniteSet(Streams)
  BY <1>1, FS_Union DEF Streams
<1>3. Lent \in SUBSET Streams /\ Counted \in SUBSET Clients
  BY DEF Lent, Counted
<1>4. IsFiniteSet(Lent) /\ IsFiniteSet(Counted)
  BY <1>2, <1>3, FS_Subset, ClientAssumption
<1> QED
  BY <1>4, FS_CardinalityType

\* Each reference taken or given back is a stream's or an operation's.
LEMMA ReferencesKept ==
  ASSUME TypeOK, CurInv, OneReferenceEach, [Next]_vars
  PROVE OneReferenceEach'
<1> USE DEF TypeOK, Goto, End, Set
<1>0. idleRefs = Cardinality(Lent) + Cardinality(Counted)
  BY DEF OneReferenceEach, Lent, Counted
<1>1. SUFFICES idleRefs' = Cardinality(Lent') + Cardinality(Counted')
  BY DEF OneReferenceEach, Lent, Counted
<1>2. CASE Sleep \/ UNCHANGED vars
  <2>1. Lent' = Lent /\ Counted' = Counted /\ idleRefs' = idleRefs
    BY <1>2 DEF Sleep, vars, engineVars, Lent, Counted
  <2> QED
    BY <1>0, <2>1
<1>3. ASSUME NEW c \in Clients, Operation(c)
      PROVE idleRefs' = Cardinality(Lent') + Cardinality(Counted')
  <2>1. CASE AllocateBegin(c)
    <3>1. Lent' = Lent /\ Counted' = Counted \cup {c} /\ c \notin Counted
      BY <2>1 DEF AllocateBegin, engineVars, Lent, Counted
    <3>2. idleRefs' = idleRefs + 1
      BY <2>1 DEF AllocateBegin
    <3>3. Cardinality(Counted') = Cardinality(Counted) + 1
      BY <3>1, CountedFinite, FS_AddElement
    <3> QED
      BY <1>0, <3>1, <3>2, <3>3, CountedFinite
  <2>2. CASE Allocate(c)
    <3>1. PICK s \in Streams : owner[s] = NULL /\ owner' = [owner EXCEPT ![s] = c]
      BY <2>2 DEF Allocate, FirstFree
    <3>2. Lent' = Lent \cup {s} /\ s \notin Lent
      BY <3>1, ClientAssumption DEF Lent
    <3>3. Counted' = Counted \ {c} /\ c \in Counted
      BY <2>2 DEF Allocate, Counted
    <3>4. idleRefs' = idleRefs
      BY <2>2 DEF Allocate
    <3>5. Cardinality(Lent') = Cardinality(Lent) + 1
      BY <3>2, CountedFinite, FS_AddElement
    <3>6. Cardinality(Counted') = Cardinality(Counted) - 1
      BY <3>3, CountedFinite, FS_RemoveElement
    <3> QED
      BY <1>0, <3>4, <3>5, <3>6, CountedFinite
  <2>3. CASE AllocateNone(c) \/ FreeResume(c)
    <3>1. Lent' = Lent /\ Counted' = Counted \ {c} /\ c \in Counted
      BY <2>3 DEF AllocateNone, FreeResume, engineVars, Lent, Counted
    <3>2. idleRefs' = idleRefs - 1
      BY <2>3 DEF AllocateNone, FreeResume
    <3>3. Cardinality(Counted') = Cardinality(Counted) - 1
      BY <3>1, CountedFinite, FS_RemoveElement
    <3> QED
      BY <1>0, <3>1, <3>2, <3>3, CountedFinite
  <2>4. CASE Free(c)
    <3>1. idleRefs' = idleRefs /\ c \notin Counted
      BY <2>4 DEF Free, Counted
    <3>2. CASE running[cur[c]]
      <4>1. Lent' = Lent /\ Counted' = Counted
        BY <2>4, <3>2 DEF Free, Lent, Counted
      <4> QED
        BY <1>0, <3>1, <4>1
    <3>3. CASE ~running[cur[c]]
      <4>1. PICK s \in Streams : owner[s] = c /\ owner' = [owner EXCEPT ![s] = NULL]
        BY <2>4, <3>3 DEF Free, CurInv, AtWork
      <4>2. Lent' = Lent \ {s} /\ s \in Lent
        BY <4>1, ClientAssumption DEF Lent
      <4>3. Counted' = Counted \cup {c}
        BY <2>4, <3>3 DEF Free, Counted
      <4>4. Cardinality(Lent') = Cardinality(Lent) - 1
        BY <4>2, CountedFinite, FS_RemoveElement
      <4>5. Cardinality(Counted') = Cardinality(Counted) + 1
        BY <3>1, <4>3, CountedFinite, FS_AddElement
      <4> QED
        BY <1>0, <3>1, <4>4, <4>5, CountedFinite
    <3> QED
      BY <3>2, <3>3
  <2>5. CASE UNCHANGED <<owner, idleRefs>> /\ Counted' = Counted
    BY <1>0, <2>5 DEF Lent
  <2>6. CASE ReadIntctl(c) \/ StartWrite(c) \/ StopWrite(c)
    <3>1. UNCHANGED <<owner, idleRefs>> /\ Counted' = Counted
      BY <2>6 DEF ReadIntctl, StartWrite, StopWrite, engineVars, Counted
    <3> QED
      BY <2>5, <3>1
  <2>7. CASE AllocateBufferList(c) \/ AllocateBufferSetup(c)
    <3>1. UNCHANGED <<owner, idleRefs>> /\ Counted' = Counted
      BY <2>7 DEF AllocateBufferList, AllocateBufferSetup, Counted
    <3> QED
      BY <2>5, <3>1
  <2>8. ASSUME NEW s \in Streams,
               \/ FreeBegin(c, s) \/ Run(c, s) \/ Stop(c, s) \/ AllocateBufferBegin(c, s)
               \/ \E start \in BOOLEAN : Trigger(c, s, start)
        PROVE idleRefs' = Cardinality(Lent') + Cardinality(Counted')
    <3>1. UNCHANGED <<owner, idleRefs>> /\ Counted' = Counted
      BY <2>8 DEF FreeBegin, Run, Stop, AllocateBufferBegin, Trigger, engineVars, Counted
    <3> QED
      BY <2>5, <3>1
  <2>9. CASE UNCHANGED <<owner, idleRefs, pc>>
    <3>1. UNCHANGED <<owner, idleRefs>> /\ Counted' = Counted
      BY <2>9 DEF Counted
    <3> QED
      BY <2>5, <3>1
  <2> QED
    BY <1>3, <2>1, <2>2, <2>3, <2>4, <2>6, <2>7, <2>8, <2>9
       DEF Operation, FreeBuffer, AllocateContiguous, SetupWithBdl, FreeContiguous,
           SetUpAgain, PrepareDsp, CleanupDsp
<1> QED
  BY <1>2, <1>3 DEF Next
-----------------------------------------------------------------------------
(* The theorems. *)

Ind == TypeOK /\ CurInv /\ LockInv /\ StillInv /\ MemInv /\ SnapInv /\ SieAgrees

\* Ind holds at first and every step keeps it.
LEMMA IndHolds == Spec => []Ind
<1>1. Init => Ind
  <2> SUFFICES ASSUME Init PROVE Ind
    OBVIOUS
  <2>1. TypeOK /\ CurInv
    BY TypeInit
  <2>2. LockInv /\ StillInv /\ SnapInv
    BY DEF Init, LockInv, StillInv, SnapInv, Updating, Clients
  <2>3. MemInv /\ SieAgrees
    BY DEF Init, MemInv, SieAgrees
  <2> QED
    BY <2>1, <2>2, <2>3 DEF Ind
<1>2. Ind /\ [Next]_vars => Ind'
  BY TypeKept, CurKept, LockKept, StillKept, MemKept, SnapKept, SieKept DEF Ind
<1> QED
  BY <1>1, <1>2, PTL DEF Spec

\* Every variable of the engines and of their clients keeps its type.
THEOREM TypeCorrect == Spec => []TypeOK
BY IndHolds, PTL DEF Ind

\* However many drivers allocate and free at once, the handles they have are
\* the engines they own: none is lent twice, none taken away.
THEOREM EnginesLentOnce == Spec => []HandlesAreOwners
<1>1. Init => HandlesAreOwners
  BY ClientAssumption DEF Init, HandlesAreOwners
<1>2. Ind /\ HandlesAreOwners /\ [Next]_vars => HandlesAreOwners'
  BY HandlesKept DEF Ind
<1> QED
  BY <1>1, <1>2, IndHolds, PTL DEF Spec

\* The device is kept from idling once for each engine lent and for each
\* operation that has yet to lend one or give its reference back.
THEOREM ReferencesBalance == Spec => []OneReferenceEach
<1>1. Init => OneReferenceEach
  <2> SUFFICES ASSUME Init PROVE OneReferenceEach
    OBVIOUS
  <2>1. Lent = {} /\ Counted = {}
    BY DEF Init, Lent, Counted
  <2> QED
    <3>1. Cardinality(Lent) = 0 /\ Cardinality(Counted) = 0
      BY <2>1, FS_EmptySet
    <3>2. idleRefs = Cardinality(Lent) + Cardinality(Counted)
      BY <3>1 DEF Init
    <3> QED
      BY <3>2 DEF OneReferenceEach, Lent, Counted
<1>2. Ind /\ OneReferenceEach /\ [Next]_vars => OneReferenceEach'
  BY ReferencesKept DEF Ind
<1> QED
  BY <1>1, <1>2, IndHolds, PTL DEF Spec

\* A stream's interrupt is enabled exactly while it runs, but for the streams
\* an update of INTCTL without the lock put back.
THEOREM InterruptFollowsRunning == Spec => []SieAgrees
BY IndHolds, PTL DEF Ind

\* Without ADSPStartStopDSP every update of INTCTL is made under the lock: none
\* is lost, and a stream's interrupt is enabled exactly while it runs.
THEOREM LockedUpdatesKept ==
  ~DspTriggers => (Spec => [](lost = {} /\ SieAgrees))
<1> SUFFICES ASSUME ~DspTriggers PROVE Spec => [](lost = {} /\ SieAgrees)
  OBVIOUS
<1>1. Init => LockedInv
  BY DEF Init, LockedInv, Updating, Clients
<1>2. Ind /\ LockedInv /\ [Next]_vars => LockedInv'
  BY LockedKept DEF Ind
<1>3. LockedInv => lost = {}
  BY DEF LockedInv
<1> QED
  BY <1>1, <1>2, <1>3, IndHolds, InterruptFollowsRunning, PTL DEF Spec

\* The controller never reads or writes memory that was given back.
THEOREM FreedMemoryUntouched == Spec => []NoDmaToFreedMemory
<1>1. Ind => NoDmaToFreedMemory
  BY DEF Ind, MemInv, NoDmaToFreedMemory, Playable
<1> QED
  BY <1>1, IndHolds, PTL

\* An engine that nobody has is stopped and has no memory, and its interrupt
\* is off unless an update without the lock put it back.
THEOREM EnginesLeftClean == Spec => []FreeMeansClean
<1>1. Ind => FreeMeansClean
  <2> SUFFICES ASSUME Ind, NEW s \in Streams, owner[s] = NULL
               PROVE /\ ~running[s] /\ ~runBit[s] /\ ~mdlBuf[s] /\ ~dmaBuf[s]
                     /\ s \in SIE => s \in lost
    BY DEF FreeMeansClean
  <2>1. ~running[s] /\ ~runBit[s] /\ ~mdlBuf[s] /\ ~dmaBuf[s]
    BY DEF Ind, MemInv
  <2>2. ~Changing(s)
    BY ClientAssumption DEF Ind, CurInv, AtWork, Updating, Changing
  <2> QED
    BY <2>1, <2>2 DEF Ind, SieAgrees
<1> QED
  BY <1>1, IndHolds, PTL

\* If PPCTL has a bit that reads back for every stream, the DSP processes
\* exactly the streams lent to its drivers.
THEOREM DspHasItsStreams ==
  NumCapture + NumPlayback <= PpctlBits => (Spec => []ProcenAgrees)
<1> SUFFICES ASSUME NumCapture + NumPlayback <= PpctlBits
             PROVE Spec => []ProcenAgrees
  OBVIOUS
<1>1. Init => ProcenAgrees
  BY ClientAssumption DEF Init, ProcenAgrees, Clients
<1>2. Ind /\ HandlesAreOwners /\ ProcenAgrees /\ [Next]_vars => ProcenAgrees'
  BY ProcenKept DEF Ind
<1> QED
  BY <1>1, <1>2, IndHolds, EnginesLentOnce, PTL DEF Spec
=============================================================================
