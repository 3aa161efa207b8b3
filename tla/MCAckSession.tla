----------------------------- MODULE MCAckSession -----------------------------
(* Small instances of AckSession: a batch of two and a plain message.       *)
EXTENDS AckSession

BatchAndPlain == 1 :> 2 @@ 2 :> 0

Calm == [cumulative |-> 0, grouped |-> 0, nacks |-> 0, txnAcks |-> 0, late |-> 0,
         timeouts |-> 0, reconnects |-> 0, closes |-> 0]

AckBounds ==
    { [Calm EXCEPT !.grouped = 2, !.cumulative = 1, !.closes = 1],
      [Calm EXCEPT !.grouped = 1, !.nacks = 1, !.closes = 1],
      [Calm EXCEPT !.grouped = 1, !.timeouts = 1],
      [Calm EXCEPT !.grouped = 1, !.reconnects = 1],
      [Calm EXCEPT !.txnAcks = 2],
      [Calm EXCEPT !.txnAcks = 1, !.nacks = 1],
      [Calm EXCEPT !.late = 1] }

LateTickBounds == {[Calm EXCEPT !.late = 1]}
=============================================================================
