----------------------------- MODULE MCCodecBus -----------------------------
(* The graphics codec, which may come and go twice, and another codec; two   *)
(* threads of their function drivers.                                        *)
EXTENDS CodecBus, TLC

MCSymmetry == {p @@ q : p \in Permutations(Threads), q \in Permutations(Junk)}
=============================================================================
