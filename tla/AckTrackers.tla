----------------------------- MODULE AckTrackers -----------------------------
(***************************************************************************)
(* What a consumer remembers about messages it has delivered and the       *)
(* application has not settled yet (magnetar-proto/src/trackers/, the      *)
(* BatchAckEntry of consumer.rs and apply_batch_ack_state of conn.rs):     *)
(*                                                                         *)
(*  - the batch-ack tracker: per batched entry, the positions that are     *)
(*    still unacked, so that a partial ack tells the broker what remains;  *)
(*  - the ack-timeout tracker: buckets of message ids, oldest first, with  *)
(*    a locator from ids to bucket indices, or one deadline per message    *)
(*    when a redelivery backoff is configured;                             *)
(*  - the grouping tracker: acks waiting for their window to elapse.       *)
(*                                                                         *)
(* Every method is an operator from states to states.  A message id is     *)
(* <<entry, position>>; position 0 stands for a message that is not in a   *)
(* batch (batch_index -1).  A bitset is the set of positions whose bit is  *)
(* set, that is, unacked.  Deadlines are abstract: a bucket is due or not, *)
(* and since buckets are created in time order the due ones come first.    *)
(***************************************************************************)
EXTENDS Integers, Sequences, SequencesExt, FiniteSets, TLC

CONSTANTS
    Members,    \* members of the batch in each entry, 0 for a plain message
    Backoff     \* an AckTimeoutRedeliveryBackoff is configured

ASSUME AckAssumption ==
    /\ DOMAIN Members \subseteq Nat \ {0} /\ IsFiniteSet(DOMAIN Members)
    /\ \A e \in DOMAIN Members : Members[e] \in Nat
    /\ Backoff \in BOOLEAN

Entries == DOMAIN Members
Fresh(e) == IF Members[e] = 0 THEN {0} ELSE 1..Members[e]
Ids == UNION {{e} \X Fresh(e) : e \in Entries}

Leq(a, b) == a[1] < b[1] \/ (a[1] = b[1] /\ a[2] =< b[2])
UpTo(id) == {x \in Ids : Leq(x, id)}

\* s lists the ids of S in order.
Lists(s, S) ==
    /\ {s[i] : i \in DOMAIN s} = S
    /\ \A i, j \in DOMAIN s : i < j => s[i] # s[j] /\ Leq(s[i], s[j])

Drop(f, S) == [y \in DOMAIN f \ S |-> f[y]]

-----------------------------------------------------------------------------
(* Batch acks.                                                             *)

AckCumulative(unacked, i) == {j \in unacked : j > i}

\* Mutant: an entry the session has not seen yet counts as acked already.
BadUnackedOf(t, e) == IF e \in DOMAIN t THEN t[e] ELSE {}

UnackedOf(t, e) == IF e \in DOMAIN t THEN t[e] ELSE Fresh(e)

\* What is left of an entry when ids are acked; a cumulative ack names one.
Rest(t, ids, type, e) ==
    LET is == {id[2] : id \in {x \in ids : x[1] = e}}
    IN  IF type = "individual" THEN UnackedOf(t, e) \ is
        ELSE AckCumulative(UnackedOf(t, e), CHOOSE i \in is : TRUE)

\* The tracker after an ack, and what the frame tells the broker: the ids of an
\* entry carry ever smaller bitsets, of which the last is what counts.
ApplyBatchAckState(t, ids, type) ==
    LET touched == {id[1] : id \in ids}
        kept    == {e \in DOMAIN t \cup touched :
                      /\ e \in touched => Rest(t, ids, type, e) # {}
                      /\ type = "cumulative" => \A h \in touched : e >= h}
    IN  [t    |-> [e \in kept |-> IF e \in touched THEN Rest(t, ids, type, e)
                                 ELSE t[e]],
         sent |-> {[entry |-> e, left |-> Rest(t, ids, type, e)] : e \in touched}]

\* A delivered entry seeds or narrows the tracker.
SeedBatch(t, e, delivered) ==
    IF Members[e] = 0 THEN t
    ELSE [x \in DOMAIN t \cup {e} |->
            IF x # e THEN t[x]
            ELSE IF e \in DOMAIN t THEN t[e] \cap delivered ELSE delivered]

-----------------------------------------------------------------------------
(* The ack-timeout tracker.                                                *)

NoneTracked == [buckets |-> <<>>, locator |-> <<>>, backoff |-> {}]

Timed(u) == u.backoff \cup UNION {b.ids : b \in ToSet(u.buckets)}

\* The messages of one entry start their timers together.
Track(u, ids) ==
    LET n       == Len(u.buckets)
        fresh   == n = 0 \/ u.buckets[n].due
        at      == IF fresh THEN n + 1 ELSE n
        new     == ids \ (DOMAIN u.locator \cup u.backoff)
        buckets == IF fresh THEN Append(u.buckets, [ids |-> new, due |-> FALSE])
                   ELSE [u.buckets EXCEPT ![n].ids = @ \cup new]
    IN  IF new = {} THEN u
        ELSE IF Backoff THEN [u EXCEPT !.backoff = @ \cup new]
        ELSE [u EXCEPT !.buckets = buckets,
                       !.locator = [id \in DOMAIN @ \cup new |->
                                      IF id \in new THEN at ELSE @[id]]]

\* A message leaves the bucket that the locator names.
Untrack(u, ids) ==
    [buckets |-> [i \in DOMAIN u.buckets |->
                    [u.buckets[i] EXCEPT !.ids = @ \
                       {id \in ids \cap DOMAIN u.locator : u.locator[id] = i}]],
     locator |-> Drop(u.locator, ids),
     backoff |-> u.backoff \ ids]

\* The deadlines of the first k buckets have passed.
Elapse(u, k) ==
    [u EXCEPT !.buckets = [i \in DOMAIN @ |->
        IF i =< k THEN [@[i] EXCEPT !.due = TRUE] ELSE @[i]]]

\* Mutant: a message that expires leaves the locator, and the others keep the
\* index they had.
BadPollUnacked(u, late) ==
    LET due     == {i \in DOMAIN u.buckets : u.buckets[i].due}
        expired == UNION {u.buckets[i].ids : i \in due}
    IN  [u |-> [buckets |-> SubSeq(u.buckets, Cardinality(due) + 1, Len(u.buckets)),
                locator |-> Drop(u.locator, expired),
                backoff |-> u.backoff \ late],
         redeliver |-> expired \cup late]

\* poll: the due buckets are evicted, and the locator is rebuilt if any of
\* them held a message.  late are the messages whose own deadline has passed.
PollUnacked(u, late) ==
    LET due     == {i \in DOMAIN u.buckets : u.buckets[i].due}
        kept    == SubSeq(u.buckets, Cardinality(due) + 1, Len(u.buckets))
        expired == {u.buckets[i].ids : i \in due} \ {{}}
        rebuilt == [id \in UNION {b.ids : b \in ToSet(kept)} |->
                      CHOOSE i \in DOMAIN kept : id \in kept[i].ids]
    IN  [u |-> [buckets |-> kept,
                locator |-> IF expired = {} THEN u.locator ELSE rebuilt,
                backoff |-> u.backoff \ late],
         redeliver |-> (UNION expired) \cup late]

\* A poll that evicts empty buckets alone, from in front of others, leaves the
\* locator with indices that have shifted.
Slips(u) ==
    LET due == {i \in DOMAIN u.buckets : u.buckets[i].due}
    IN  /\ due # {} /\ due # DOMAIN u.buckets
        /\ \A i \in due : u.buckets[i].ids = {}

-----------------------------------------------------------------------------
(* The grouping tracker; <<>> is an absent cumulative ack.                 *)

NoneGrouped == [individuals |-> {}, cumulative |-> <<>>]

AddIndividual(g, id) == [g EXCEPT !.individuals = @ \cup {id}]

AddCumulative(g, id) ==
    [g EXCEPT !.cumulative = IF @ = <<>> \/ ~Leq(id, @) THEN id ELSE @]

Grouped(g) ==
    g.individuals \cup IF g.cumulative = <<>> THEN {} ELSE UpTo(g.cumulative)

=============================================================================
