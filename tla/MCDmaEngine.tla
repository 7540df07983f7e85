---------------------------- MODULE MCDmaEngine ----------------------------
(***************************************************************************)
(* Function drivers are alike, and so are drivers of the DSP.              *)
(***************************************************************************)
EXTENDS DmaEngine, TLC

Symmetry == Permutations(HdaClients) \cup Permutations(DspClients)
=============================================================================
