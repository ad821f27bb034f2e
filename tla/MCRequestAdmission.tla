------------------------- MODULE MCRequestAdmission -------------------------
(* Five callers on two permits and a queue of two: every caller can find    *)
(* the admission free, full or closed, and two grants can be in flight.     *)
EXTENDS RequestAdmission

CallersValue == {"c1", "c2", "c3", "c4", "c5"}
=============================================================================
