---------------------------- MODULE MCCodecBatch ----------------------------
(***************************************************************************)
(* Batches of two verbs through HDA_TransferCodecVerbs, one of them with a *)
(* callback, next to a single verb for another codec.                      *)
(***************************************************************************)
EXTENDS CodecTransfer, TLC

CONSTANTS c1, c2, c3, a, b

MCCalls == {c1, c2, c3}
MCCodecOf == c1 :> a @@ c2 :> a @@ c3 :> b
MCCount == c1 :> 2 @@ c2 :> 2 @@ c3 :> 1
MCKind == c1 :> "async" @@ c2 :> "sync" @@ c3 :> "single"
=============================================================================
