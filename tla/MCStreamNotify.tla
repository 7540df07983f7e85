--------------------------- MODULE MCStreamNotify ---------------------------
(* Two drivers' objects and three registrations for two entries: two share   *)
(* the driver and the callback, two share the context, two share nothing.    *)
EXTENDS StreamNotify

CONSTANTS f1, f2, k1, k2, x1, x2

MCRegs == {[Fdo |-> f1, cb |-> k1, ctx |-> x1], [Fdo |-> f1, cb |-> k1, ctx |-> x2],
           [Fdo |-> f2, cb |-> k2, ctx |-> x2]}
=============================================================================
