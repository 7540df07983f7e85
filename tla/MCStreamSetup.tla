--------------------------- MODULE MCStreamSetup ---------------------------
(***************************************************************************)
(* Pages of four bytes and a list of six entries: requests reach well past *)
(* its end.  Formats has every rate hdac_format knows and one it does not, *)
(* numbers of channels up to and past its limit, and every width.          *)
(***************************************************************************)
EXTENDS StreamSetup

AllSizes == 1 .. 60

KnownRates == {x[1] : x \in Rates}
MCFormats ==
    {[rate |-> r, channels |-> 2, bits |-> 16] : r \in KnownRates \cup {12000}}
    \cup {[rate |-> 44100, channels |-> c, bits |-> 24] : c \in {0, 1, 8, 9}}
    \cup {[rate |-> 192000, channels |-> 8, bits |-> b] : b \in {8, 12, 20, 32}}

MCLists == {[bytes |-> 7, entries |-> 2]}
=============================================================================
