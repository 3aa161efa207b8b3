--------------------------- MODULE MCTransactionEnd ---------------------------
(* Small instances of TransactionEnd: two callers, two consumers.           *)
EXTENDS TransactionEnd

Calm == [calls |-> 4, failures |-> 0, drops |-> 0, deaf |-> 0, cancels |-> 0,
         timeouts |-> 0, losses |-> 0]

EndBounds ==
    { [Calm EXCEPT !.cancels = 2, !.failures = 1, !.drops = 1],
      [Calm EXCEPT !.cancels = 2, !.losses = 1],
      [Calm EXCEPT !.cancels = 2, !.timeouts = 1, !.deaf = 1],
      [Calm EXCEPT !.cancels = 2, !.drops = 1, !.deaf = 1, !.losses = 1] }
=============================================================================
