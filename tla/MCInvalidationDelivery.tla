---------------------- MODULE MCInvalidationDelivery ----------------------
(***************************************************************************)
(* The delivery of invalidations to one window, with queue and history     *)
(* short enough to overflow.                                               *)
(***************************************************************************)
EXTENDS InvalidationDelivery

===========================================================================
