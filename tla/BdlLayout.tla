------------------------------ MODULE BdlLayout ------------------------------
(***************************************************************************)
(* The buffer descriptor list that HDA_AllocateDmaBufferWithNotification   *)
(* (hdaudio.cpp) builds for a stream: which pages of the allocated memory  *)
(* the controller plays, in which order, and where it interrupts.          *)
(*                                                                         *)
(* The memory is a run of pages, numbered as in the MDL; a position is a   *)
(* byte offset into it.  The client is told OffsetFromFirstPage and keeps  *)
(* its buffer from there on.  With two notifications that offset is chosen *)
(* so that the second half of the buffer starts on a page.                 *)
(* One action is one turn of one of the two loops.                         *)
(***************************************************************************)
EXTENDS Integers, Sequences

CONSTANTS
    PageSize,      \* PAGE_SIZE
    MaxEntries,    \* HDA_MAX_BDL_ENTRIES
    Sizes,         \* values of RequestedBufferSize
    Notifications  \* values of NotificationCount

ASSUME PageAssumption == PageSize \in Nat \ {0}
ASSUME EntryAssumption == MaxEntries \in Nat \ {0}
ASSUME RequestAssumption == Sizes \subseteq Nat \ {0} /\ Notifications \subseteq Nat

VARIABLES
    requested,  \* RequestedBufferSize
    firstHalf,  \* halfSize as computed: 0 unless NotificationCount is 2
    allocOffset,\* *OffsetFromFirstPage
    loop,       \* "half", "rest" or "done"
    halfSize, size, offset, pageNum, numBlocks,
    bdl,        \* the entries written: [page, off, len, ioc]
    truncated   \* "Too many BDL entries!"

vars == <<requested, firstHalf, allocOffset, loop, halfSize, size, offset,
          pageNum, numBlocks, bdl, truncated>>

Init ==
    /\ requested \in Sizes
    /\ \E n \in Notifications :
          /\ firstHalf = IF n = 2 THEN requested \div 2 ELSE 0
          /\ allocOffset = IF n = 2 THEN PageSize - (firstHalf % PageSize) ELSE 0
    /\ loop = "half"
    /\ halfSize = firstHalf /\ size = requested
    /\ offset = allocOffset /\ pageNum = 0 /\ numBlocks = 0
    /\ bdl = <<>> /\ truncated = FALSE

PageOff == offset % PageSize
\* Mutant of Chunk: whole pages, wherever the entry starts.
Chunk_WholePage(rest) == IF rest < PageSize THEN rest ELSE PageSize

\* Mutant of Chunk: one byte short of the page's end.
Chunk_OffByOne(rest) ==
    IF rest < PageSize - PageOff THEN rest ELSE PageSize - PageOff - 1

\* What is left of the page, or of the `rest' to be described.
Chunk(rest) == IF rest < PageSize - PageOff THEN rest ELSE PageSize - PageOff

\* `numBlocks > HDA_MAX_BDL_ENTRIES' leaves the loop with numBlocks lowered.
TooMany == numBlocks > MaxEntries

GiveUp(next) ==
    /\ TooMany
    /\ numBlocks' = MaxEntries /\ truncated' = TRUE /\ loop' = next
    /\ UNCHANGED <<requested, firstHalf, allocOffset, halfSize, size, offset, pageNum, bdl>>

\* Mutant of Describe: the page is left when the entry starts it.
Describe_OldOffset(len, last) ==
    /\ ~TooMany
    /\ bdl' = Append(bdl, [page |-> pageNum, off |-> PageOff, len |-> len, ioc |-> last])
    /\ size' = size - len
    /\ numBlocks' = numBlocks + 1
    /\ offset' = offset + len
    /\ pageNum' = IF offset % PageSize = 0 THEN pageNum + 1 ELSE pageNum
    /\ UNCHANGED <<requested, firstHalf, allocOffset, loop, truncated>>

\* Mutant of Describe: the offset into the page is not added to the address.
Describe_PageStart(len, last) ==
    /\ ~TooMany
    /\ bdl' = Append(bdl, [page |-> pageNum, off |-> 0, len |-> len, ioc |-> last])
    /\ size' = size - len
    /\ numBlocks' = numBlocks + 1
    /\ offset' = offset + len
    /\ pageNum' = IF (offset + len) % PageSize = 0 THEN pageNum + 1 ELSE pageNum
    /\ UNCHANGED <<requested, firstHalf, allocOffset, loop, truncated>>

\* Mutant of Describe: the first loop forgets to take its bytes off size.
Describe_KeepsSize(len, last) ==
    /\ ~TooMany
    /\ bdl' = Append(bdl, [page |-> pageNum, off |-> PageOff, len |-> len, ioc |-> last])
    /\ size' = IF loop = "half" THEN size ELSE size - len
    /\ numBlocks' = numBlocks + 1
    /\ offset' = offset + len
    /\ pageNum' = IF (offset + len) % PageSize = 0 THEN pageNum + 1 ELSE pageNum
    /\ UNCHANGED <<requested, firstHalf, allocOffset, loop, truncated>>

\* One entry of length len; `last' says that it ends the part being described.
Describe(len, last) ==
    /\ ~TooMany
    /\ bdl' = Append(bdl, [page |-> pageNum, off |-> PageOff, len |-> len, ioc |-> last])
    /\ size' = size - len
    /\ numBlocks' = numBlocks + 1
    /\ offset' = offset + len
    /\ pageNum' = IF (offset + len) % PageSize = 0 THEN pageNum + 1 ELSE pageNum
    /\ UNCHANGED <<requested, firstHalf, allocOffset, loop, truncated>>

\* Mutant of HalfStep: no interrupt at half of the buffer.
HalfStep_Silent ==
    /\ loop = "half" /\ halfSize > 0
    /\ Describe(Chunk(halfSize), FALSE)
    /\ halfSize' = halfSize - Chunk(halfSize)

\* while (halfSize > 0)
HalfStep ==
    /\ loop = "half" /\ halfSize > 0
    /\ Describe(Chunk(halfSize), halfSize = Chunk(halfSize))
    /\ halfSize' = halfSize - Chunk(halfSize)

HalfGiveUp == loop = "half" /\ halfSize > 0 /\ GiveUp("rest")

HalfDone ==
    /\ loop = "half" /\ halfSize = 0 /\ loop' = "rest"
    /\ UNCHANGED <<requested, firstHalf, allocOffset, halfSize, size, offset,
                   pageNum, numBlocks, bdl, truncated>>

\* while (size > 0)
RestStep ==
    /\ loop = "rest" /\ size > 0
    /\ Describe(Chunk(size), size = Chunk(size))
    /\ UNCHANGED halfSize

RestGiveUp == loop = "rest" /\ size > 0 /\ GiveUp("done")

RestDone ==
    /\ loop = "rest" /\ size = 0 /\ loop' = "done"
    /\ UNCHANGED <<requested, firstHalf, allocOffset, halfSize, size, offset,
                   pageNum, numBlocks, bdl, truncated>>

Next == HalfStep \/ HalfGiveUp \/ HalfDone \/ RestStep \/ RestGiveUp \/ RestDone

Spec == Init /\ [][Next]_vars
-----------------------------------------------------------------------------
\* Where entry i starts and ends in the allocated memory.
Start(i) == bdl[i].page * PageSize + bdl[i].off
End(i) == Start(i) + bdl[i].len

TypeOK ==
    /\ requested \in Nat /\ firstHalf \in Nat /\ allocOffset \in 0 .. PageSize
    /\ loop \in {"half", "rest", "done"}
    /\ halfSize \in Nat /\ size \in Nat /\ offset \in Nat /\ pageNum \in Nat
    /\ numBlocks \in Nat
    /\ bdl \in Seq([page : Nat, off : Nat, len : Nat, ioc : BOOLEAN])
    /\ truncated \in BOOLEAN

\* Pages are not contiguous in physical memory: an entry may not leave its page.
WithinPage ==
    \A i \in 1 .. Len(bdl) :
        bdl[i].len > 0 /\ bdl[i].off + bdl[i].len <= PageSize

\* The controller plays the memory in one run, without a gap or an overlap,
\* and an entry starts in the page the previous one ended in or in the next.
Contiguous == \A i \in 1 .. Len(bdl) - 1 : Start(i + 1) = End(i)

\* The finished list describes as many bytes as SD_CBL says, RequestedBufferSize.
Complete ==
    loop = "done" /\ ~truncated =>
        Len(bdl) > 0 /\ End(Len(bdl)) - Start(1) = requested

\* "Program interrupt for when buffer is halfway", "for when buffer ends":
\* the stream interrupts after these bytes and nowhere else.
InterruptPoints ==
    loop = "done" /\ ~truncated => \A i \in 1 .. Len(bdl) :
        bdl[i].ioc <=> End(i) - Start(1) \in {firstHalf, requested}

\* "Only increment page num if we go past page boundary": the list starts at
\* the byte where the client was told that its buffer starts.
StartsAtOffset == Len(bdl) > 0 => Start(1) = allocOffset

\* It does so whenever half of the buffer is not a whole number of pages, and
\* with one notification, where the client is told no offset at all.
StartsWhereTold ==
    (allocOffset = 0 \/ firstHalf % PageSize # 0) => StartsAtOffset

\* The finished list is the client's buffer: entry by entry inside its pages,
\* without a gap, as long as it asked for and from where it was told.
Covers == WithinPage /\ Contiguous /\ Complete /\ StartsWhereTold

\* "max number of fragments": a buffer of one page less than the list can name
\* is described inside the memory allocated for the list, whatever its halves.
FitsList == requested <= (MaxEntries - 1) * PageSize => Len(bdl) <= MaxEntries
=============================================================================
