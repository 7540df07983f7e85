--------------------------- MODULE MCCodecSerial ---------------------------
(***************************************************************************)
(* One verb per call, one call at a time on each codec, which is how       *)
(* D0EntryPostInterrupts and Fdo_EnumerateCodec use RunSingleHDACmd: three *)
(* calls on two codecs, the DPC on another processor.                      *)
(***************************************************************************)
EXTENDS CodecTransfer, TLC

CONSTANTS s1, s2, s3, a, b

MCCalls == {s1, s2, s3}
MCCodecOf == s1 :> a @@ s2 :> a @@ s3 :> b
MCCount == [c \in MCCalls |-> 1]
MCKind == s1 :> "single" @@ s2 :> "sync" @@ s3 :> "sync"
=============================================================================
