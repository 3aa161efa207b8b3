--------------------------- MODULE PublishPromise ---------------------------
(***************************************************************************)
(* What a producer promises to its application, with nothing of how it     *)
(* keeps it: every send gets one verdict, once; a send is confirmed only   *)
(* if the broker has stored it; and what is stored was sent.  A refused    *)
(* send may have been stored: the application cannot tell.                 *)
(***************************************************************************)
EXTENDS Integers

CONSTANT Sends     \* sequence ids, 1..n

VARIABLES
    verdict,   \* per send: "idle", "open", "ok" or "err"
    stored     \* sends of which the broker has persisted a frame

promise == <<verdict, stored>>

Init == verdict = [q \in Sends |-> "idle"] /\ stored = {}

(* Sends are accepted in sequence-id order. *)
Accept(q) ==
    /\ verdict[q] = "idle"
    /\ \A r \in Sends : r < q => verdict[r] # "idle"
    /\ verdict' = [verdict EXCEPT ![q] = "open"]
    /\ UNCHANGED stored

(* The broker persists a frame, which publishes one send or a batch. *)
Store(S) == stored' = stored \cup S /\ UNCHANGED verdict

Settle(S, v) ==
    /\ verdict' = [q \in Sends |-> IF q \in S THEN v ELSE verdict[q]]
    /\ UNCHANGED stored

Open == {q \in Sends : verdict[q] = "open"}

Next ==
    \/ \E q \in Sends : Accept(q)
    \/ \E S \in SUBSET {q \in Sends \ stored : verdict[q] # "idle"} : Store(S)
    \/ \E S \in SUBSET (Open \cap stored) : Settle(S, "ok")
    \/ \E S \in SUBSET Open : Settle(S, "err")

Spec == Init /\ [][Next]_promise
=============================================================================
