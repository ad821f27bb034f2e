------------------------ MODULE MCObservationDelivery ------------------------
(* ObservationDelivery with a watch that expires before the session ends.  *)
EXTENDS ObservationDelivery, TLC
==============================================================================
