------------------------- MODULE MCConsumerSession -------------------------
(***************************************************************************)
(* Model-checking instances of ConsumerSession: the configurations differ  *)
(* in the kinds of entry dispatched and in the disruptions allowed.        *)
(***************************************************************************)
EXTENDS ConsumerSession
=============================================================================
