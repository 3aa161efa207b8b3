------------------------- MODULE MCProducerSession -------------------------
(* ProducerSession for TLC.                                                *)
EXTENDS ProducerSession, TLC
=============================================================================
