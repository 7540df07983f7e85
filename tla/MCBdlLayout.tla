----------------------------- MODULE MCBdlLayout -----------------------------
(***************************************************************************)
(* Pages of four bytes, a list of 16 entries, and the requests whose half  *)
(* is a whole number of pages.                                             *)
(***************************************************************************)
EXTENDS BdlLayout

AlignedSizes == {n \in 1 .. 60 : (n \div 2) % PageSize = 0}
=============================================================================
