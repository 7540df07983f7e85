--------------------------- MODULE ResponseChannel ---------------------------
(***************************************************************************)
(* What the driver's response path promises to its callers: the responses  *)
(* the codecs post come out exactly once and in the order in which they    *)
(* were posted.  Responses are numbered as they are posted, so the k-th    *)
(* response to be delivered must be the k-th one posted.  A power cycle of *)
(* the controller empties the channel.                                     *)
(*                                                                         *)
(* InterruptPath implements this specification with a ring buffer, an      *)
(* interrupt handler and a deferred procedure call.                        *)
(***************************************************************************)
EXTENDS Naturals, Sequences

VARIABLES
    posted,     \* number of responses posted since the last reset
    delivered   \* the responses delivered since the last reset, in order

chanVars == <<posted, delivered>>

ChanInit == posted = 0 /\ delivered = <<>>

Post == posted' = posted + 1 /\ UNCHANGED delivered

Deliver ==
    /\ Len(delivered) < posted
    /\ delivered' = Append(delivered, Len(delivered) + 1)
    /\ UNCHANGED posted

Reset == posted' = 0 /\ delivered' = <<>>

ChanNext == Post \/ Deliver \/ Reset

ChanSpec == ChanInit /\ [][ChanNext]_chanVars
=============================================================================
