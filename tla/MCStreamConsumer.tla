--------------------------- MODULE MCStreamConsumer ---------------------------
(* Small instances of StreamConsumer: segment 1 is split into 2.           *)
EXTENDS StreamConsumer

\* 1 is active; then it is sealed and 2 takes over.
SplitLayouts ==
    << [state |-> 1 :> "Active", parents |-> 1 :> {}, placed |-> {1},
        pruned |-> {}],
       [state |-> 1 :> "Sealed" @@ 2 :> "Active",
        parents |-> 1 :> {} @@ 2 :> {1}, placed |-> {2}, pruned |-> {}] >>

Whole(S) == [s \in S |-> {}]

SplitPlan == << [layout |-> 1, assigned |-> Whole({1})],
                [layout |-> 2, assigned |-> Whole({1, 2})] >>

\* ... and 2 is taken away and given back.
MovePlan == SplitPlan \o << [layout |-> 2, assigned |-> Whole({1})],
                             [layout |-> 2, assigned |-> Whole({1, 2})] >>

\* ... and only taken away.
TakePlan == SplitPlan \o << [layout |-> 2, assigned |-> Whole({1})] >>

OnePlan == << [layout |-> 1, assigned |-> Whole({1})] >>
TwoAndOne == 1 :> 2 @@ 2 :> 1
JustTwo == 1 :> 2
OneAndOne == 1 :> 1 @@ 2 :> 1

FirstOfOne == {<<1, 1>>}
FirstOfTwo == {<<2, 1>>}

Calm == [faults |-> 0, restores |-> 0, nacks |-> 0, seeks |-> 0, closes |-> 0,
         batches |-> 0, cumulative |-> 0, txnAcks |-> 0, unknowns |-> 0,
         drops |-> 0, reconnects |-> 1]

RebalanceBounds == { [Calm EXCEPT !.nacks = 1, !.batches = 1],
                     [Calm EXCEPT !.cumulative = 1] }

ResyncBounds ==
    { [Calm EXCEPT !.restores = 1],
      [Calm EXCEPT !.faults = 1, !.restores = 1, !.reconnects = 0],
      [Calm EXCEPT !.faults = 1, !.closes = 1, !.reconnects = 0],
      [Calm EXCEPT !.seeks = 1],
      [Calm EXCEPT !.faults = 1, !.drops = 1],
      [Calm EXCEPT !.closes = 1, !.drops = 1],
      [Calm EXCEPT !.txnAcks = 1, !.unknowns = 1],
      [Calm EXCEPT !.faults = 1, !.txnAcks = 1] }
=============================================================================
