------------------------------ MODULE AckSession ------------------------------
(***************************************************************************)
(* One consumer's acknowledgements from the application to the broker:     *)
(* every ack and nack entry point of Connection, the trackers behind them, *)
(* the driver's timeout tick, a lost connection, and a broker that keeps   *)
(* its own record of what is dispatched and what is acked.                 *)
(*                                                                         *)
(* An action is one critical section of the connection mutex.  A frame     *)
(* staged between a reset and the replayed subscribe reaches a broker that *)
(* does not know the consumer yet and is dropped there.                    *)
(***************************************************************************)
EXTENDS AckTrackers

CONSTANTS
    NackTracker,   \* negative_ack_redelivery_delay is set
    AckTimeout,    \* ack_timeout is set
    Bounds         \* how often each disturbance may happen: a set of
                   \* alternatives, each a record of counts

VARIABLES
    batch,     \* batch_ack_tracker: a partial function from entries to bitsets
    unacked,   \* unacked_tracker
    nacks,     \* nack_tracker
    group,     \* ack_tracker
    txn,       \* pending_transactional_acks of the one transaction, and its fate
    queue,     \* messages delivered and not yet received
    held,      \* messages the application has received and not settled
    conn,      \* "up", "lost", "reset" (handshaking), "closed"
    outbound,  \* frames to the broker
    inbound,   \* entries to the client
    broker,    \* [attached, out, acked, pending]
    left,      \* disturbances still allowed
    done,      \* ghost: what the application has acknowledged
    settled,   \* ghost: ids whose ack has left and is not lost, and which neither
               \* a delivery nor a nack has brought back since
    exact      \* ghost: no tick has left the locator with shifted indices

client == <<batch, unacked, nacks, group, txn>>
app    == <<queue, held, done, settled, exact>>
wire   == <<conn, outbound, inbound>>
vars   == <<batch, unacked, nacks, group, txn, queue, held, conn, outbound,
            inbound, broker, left, done, settled, exact>>

Fates == {"open", "committed", "aborted", "over"}

Spend(what) == left[what] > 0 /\ left' = [left EXCEPT ![what] = @ - 1]

AckFrame(type, sent) == [op |-> type, sent |-> sent]
Redeliver(ids) == [op |-> "redeliver", ids |-> ids]

\* What an ack frame covers.
Covers(f) ==
    UNION {{<<a.entry, i>> : i \in Fresh(a.entry) \ a.left}
             \cup (IF f.op # "cumulative" THEN {}
                   ELSE {x \in Ids : x[1] < a.entry}) : a \in f.sent}

\* What the acks in a sequence of frames cover.
Carried(frames) ==
    UNION {Covers(f) : f \in {g \in ToSet(frames) :
                                 g.op \in {"individual", "cumulative"}}}

Init ==
    /\ batch = <<>> /\ unacked = NoneTracked /\ nacks = {} /\ group = NoneGrouped
    /\ txn = [t |-> <<>>, seeded |-> {}, acks |-> {}, fate |-> "open"]
    /\ queue = <<>> /\ held = {} /\ done = {} /\ settled = {}
    /\ exact = TRUE
    /\ conn = "up" /\ outbound = <<>> /\ inbound = <<>>
    /\ broker = [attached |-> TRUE, out |-> {},
                 acked |-> [e \in Entries |-> {}], pending |-> {}]
    /\ left \in Bounds

-----------------------------------------------------------------------------
(* Delivery and receive.                                                   *)

Deliver ==
    LET d   == Head(inbound)
        new == {d.entry} \X d.unacked
    IN  /\ conn = "up" /\ inbound # <<>>
        /\ inbound' = Tail(inbound)
        /\ batch' = SeedBatch(batch, d.entry, d.unacked)
        /\ \E s \in [1..Cardinality(new) -> new] :
             Lists(s, new) /\ queue' = queue \o s
        /\ unacked' = IF AckTimeout THEN Track(unacked, new) ELSE unacked
        /\ settled' = settled \ new
        /\ UNCHANGED <<nacks, group, txn, held, done, conn, outbound, broker,
                       left, exact>>

Receive ==
    /\ queue # <<>> /\ conn # "closed"
    /\ queue' = Tail(queue)
    /\ held' = held \cup {Head(queue)}
    /\ UNCHANGED <<client, wire, broker, left, done, settled, exact>>

-----------------------------------------------------------------------------
(* Acknowledging.  State is what ack and dispatch_ack_actions change: the  *)
(* three trackers and the frames.                                          *)

State == [batch |-> batch, unacked |-> unacked, nacks |-> nacks,
          frames |-> outbound]

\* apply_local_ack_state: the listed ids leave the trackers.
ApplyLocal(s, ids, type) ==
    [s EXCEPT !.batch   = ApplyBatchAckState(@, ids, type).t,
              !.unacked = Untrack(@, ids),
              !.nacks   = @ \ ids]

\* Connection::ack without a transaction.
AckNow(s, ids, type) ==
    [ApplyLocal(s, ids, type) EXCEPT
       !.frames = Append(@, AckFrame(type,
                     ApplyBatchAckState(s.batch, ids, type).sent))]

\* The grouping tracker is flushed, the cumulative ack first.
Flushed(s) ==
    LET first == IF group.cumulative = <<>> THEN s
                 ELSE AckNow(s, {group.cumulative}, "cumulative")
    IN  IF group.individuals = {} THEN first
        ELSE AckNow(first, group.individuals, "individual")

Becomes(s) == /\ batch' = s.batch /\ unacked' = s.unacked
              /\ nacks' = s.nacks /\ outbound' = s.frames

\* The ids a flush names: their timers must be gone.
Named == group.individuals \cup ({group.cumulative} \ {<<>>})

Ack(ids) ==
    /\ conn # "closed" /\ ids # {} /\ ids \subseteq held
    /\ Becomes(AckNow(State, ids, "individual"))
    /\ held' = held \ ids /\ done' = done \cup ids /\ settled' = settled \cup ids
    /\ UNCHANGED <<group, txn, queue, conn, inbound, broker, left, exact>>

AckCumulativeNow(id) ==
    /\ conn # "closed" /\ id \in held /\ Spend("cumulative")
    /\ Becomes(AckNow(State, {id}, "cumulative"))
    /\ held' = held \ UpTo(id) /\ done' = done \cup UpTo(id)
    /\ settled' = settled \cup {id}
    /\ UNCHANGED <<group, txn, queue, conn, inbound, broker, exact>>

AckGroupedIndividual(id) ==
    /\ conn # "closed" /\ id \in held /\ Spend("grouped")
    /\ group' = AddIndividual(group, id)
    /\ held' = held \ {id} /\ done' = done \cup {id}
    /\ UNCHANGED <<batch, unacked, nacks, txn, queue, settled, wire, broker, exact>>

AckGroupedCumulative(id) ==
    /\ conn # "closed" /\ id \in held /\ Spend("grouped")
    /\ group' = AddCumulative(group, id)
    /\ held' = held \ UpTo(id) /\ done' = done \cup UpTo(id)
    /\ UNCHANGED <<batch, unacked, nacks, txn, queue, settled, wire, broker, exact>>

\* Mutant: the redelivery is never asked for.
BadNegativeAck(id) ==
    /\ conn # "closed" /\ id \in held /\ Spend("nacks")
    /\ unacked' = Untrack(unacked, {id})
    /\ held' = held \ {id} /\ settled' = settled \ {id}
    /\ UNCHANGED <<batch, nacks, group, txn, queue, done, conn, outbound, inbound,
                   broker, exact>>

NegativeAck(id) ==
    /\ conn # "closed" /\ id \in held /\ Spend("nacks")
    /\ IF NackTracker THEN nacks' = nacks \cup {id} /\ outbound' = outbound
       ELSE nacks' = nacks /\ outbound' = Append(outbound, Redeliver({id}))
    /\ unacked' = Untrack(unacked, {id})
    /\ held' = held \ {id} /\ settled' = settled \ {id}
    /\ UNCHANGED <<batch, group, txn, queue, done, conn, inbound,
                   broker, exact>>

\* redeliver_unacked_all: an empty list asks for everything.
RedeliverAll ==
    /\ conn # "closed" /\ held # {} /\ Spend("nacks")
    /\ outbound' = Append(outbound, Redeliver(Ids))
    /\ held' = {}
    /\ UNCHANGED <<client, queue, done, settled, conn, inbound, broker, exact>>

-----------------------------------------------------------------------------
(* Transactional acks: the local trackers do not move before the commit.   *)

AckInTransaction(id) ==
    LET e    == id[1]
        seed == IF id[2] # 0 /\ e \notin txn.seeded /\ e \in DOMAIN batch
                THEN [x \in DOMAIN txn.t \cup {e} |->
                        IF x = e THEN batch[e] ELSE txn.t[x]]
                ELSE txn.t
        r    == ApplyBatchAckState(seed, {id}, "individual")
    IN  /\ conn # "closed" /\ txn.fate = "open" /\ id \in held /\ Spend("txnAcks")
        /\ txn' = [txn EXCEPT !.t = r.t, !.seeded = @ \cup {e},
                              !.acks = @ \cup {id}]
        /\ outbound' = Append(outbound, AckFrame("transactional", r.sent))
        /\ held' = held \ {id} /\ done' = done \cup {id}
        /\ UNCHANGED <<batch, unacked, nacks, group, queue, settled, conn,
                       inbound, broker, exact>>

\* The coordinator ends the transaction: a commit is only asked for when every
\* ack in it has succeeded.  What an abort releases is sent again.
EndTransaction(fate) ==
    /\ txn.fate = "open" /\ txn.acks # {}
    /\ \A i \in DOMAIN outbound : outbound[i].op # "transactional"
    /\ fate = "committed" =>
         \A p \in txn.acks : p \in broker.pending \/ p[2] \in broker.acked[p[1]]
    /\ txn' = [txn EXCEPT !.fate = fate]
    /\ broker' =
         IF fate = "aborted"
         THEN [broker EXCEPT !.pending = {},
                             !.out = {e \in @ : ~ \E p \in broker.pending : p[1] = e}]
         ELSE LET acked == [e \in Entries |-> broker.acked[e] \cup
                              {i \in Fresh(e) : <<e, i>> \in broker.pending}]
              IN  [broker EXCEPT !.pending = {}, !.acked = acked,
                                 !.out = {e \in @ : acked[e] # Fresh(e)}]
    /\ UNCHANGED <<batch, unacked, nacks, group, app, wire, left>>

\* settle_transactional_acks, after the outcome.
SettleTransaction ==
    /\ txn.fate \in {"committed", "aborted"}
    /\ IF txn.fate = "aborted" THEN UNCHANGED <<batch, unacked, nacks, settled>>
       ELSE LET s == ApplyLocal(State, txn.acks, "individual")
            IN  /\ batch' = s.batch /\ unacked' = s.unacked /\ nacks' = s.nacks
                /\ settled' = settled \cup txn.acks
    /\ txn' = [t |-> <<>>, seeded |-> {}, acks |-> {}, fate |-> "over"]
    /\ UNCHANGED <<group, queue, held, done, wire, broker, left, exact>>

-----------------------------------------------------------------------------
(* The driver.                                                             *)

\* Deadlines pass while the driver is busy: its tick comes late.
TickIsLate ==
    /\ \E i \in DOMAIN unacked.buckets : ~unacked.buckets[i].due
    /\ Spend("late")
    /\ unacked' = Elapse(unacked, Len(unacked.buckets))
    /\ UNCHANGED <<batch, nacks, group, txn, app, wire, broker>>

\* handle_timeout: redeliveries first, the ack group last.  k more buckets, the
\* messages own and the nacks in due have reached their deadline, and so has
\* the group when flush.
HandleTimeout(k, own, due, flush) ==
    LET p      == PollUnacked(Elapse(unacked, k), own)
        group1 == IF flush THEN NoneGrouped ELSE group
        ask(S) == IF S = {} THEN <<>> ELSE <<Redeliver(S)>>
        s      == [State EXCEPT !.unacked = p.u, !.nacks = @ \ due,
                                !.frames = @ \o ask(due) \o ask(p.redeliver)]
    IN  /\ due # {} \/ group1 # group \/ p.u # unacked
        /\ Becomes(IF flush THEN Flushed(s) ELSE s)
        /\ group' = group1
        /\ settled' = IF flush THEN settled \cup Named ELSE settled
        /\ exact' = (exact /\ ~Slips(Elapse(unacked, k)))
        /\ UNCHANGED <<txn, queue, held, done, conn, inbound, broker>>

\* An ack timeout expires, by itself or together with the other two.
TimeoutTick ==
    /\ conn # "closed" /\ Spend("timeouts")
    /\ \E k \in 0..Len(unacked.buckets), own \in SUBSET unacked.backoff :
         /\ k > 0 \/ own # {}
         /\ HandleTimeout(k, own, {}, FALSE) \/ HandleTimeout(k, own, nacks, TRUE)

\* Only deadlines that were set by the application's calls have passed.
NackTick == conn # "closed" /\ left' = left
              /\ \E due \in SUBSET nacks : due # {} /\ HandleTimeout(0, {}, due, FALSE)
GroupTick == conn # "closed" /\ left' = left /\ HandleTimeout(0, {}, {}, TRUE)
LateTick == conn # "closed" /\ left' = left
              /\ \E i \in DOMAIN unacked.buckets : unacked.buckets[i].due
              /\ HandleTimeout(0, {}, {}, FALSE)

Disconnect ==
    /\ conn = "up" /\ Spend("reconnects")
    /\ conn' = "lost" /\ inbound' = <<>>
    /\ broker' = [broker EXCEPT !.attached = FALSE, !.out = {}]
    /\ UNCHANGED <<client, app, outbound>>

Reset ==
    /\ conn = "lost"
    /\ conn' = "reset" /\ outbound' = <<>>
    /\ batch' = <<>> /\ queue' = <<>>
    /\ settled' = settled \ Carried(outbound)
    /\ UNCHANGED <<unacked, nacks, group, txn, held, done, inbound,
                   broker, left, exact>>

\* Mutant: the consumer is not subscribed again.
BadRebuild ==
    /\ conn = "reset"
    /\ conn' = "up"
    /\ UNCHANGED <<client, app, outbound, inbound, broker, left>>

Rebuild ==
    /\ conn = "reset"
    /\ conn' = "up" /\ outbound' = Append(outbound, [op |-> "subscribe"])
    /\ UNCHANGED <<client, app, inbound, broker, left>>

\* Mutant: the grouped acks follow the close.
BadClose ==
    /\ conn = "up" /\ Spend("closes")
    /\ Becomes(Flushed([State EXCEPT !.frames = Append(@, [op |-> "close"])]))
    /\ group' = NoneGrouped /\ settled' = settled \cup Named
    /\ conn' = "closed"
    /\ UNCHANGED <<txn, queue, held, done, inbound, broker, exact>>

\* close_consumer: the grouped acks go first.
Close ==
    /\ conn = "up" /\ Spend("closes")
    /\ Becomes([Flushed(State) EXCEPT !.frames = Append(@, [op |-> "close"])])
    /\ group' = NoneGrouped /\ settled' = settled \cup Named
    /\ conn' = "closed"
    /\ UNCHANGED <<txn, queue, held, done, inbound, broker, exact>>

-----------------------------------------------------------------------------
(* The broker.                                                             *)

Take(f) ==
    CASE f.op = "subscribe" -> [broker EXCEPT !.attached = TRUE]
      [] f.op = "close"     -> [broker EXCEPT !.attached = FALSE, !.out = {}]
      [] ~broker.attached /\ f.op \notin {"subscribe", "close"} -> broker
      [] broker.attached /\ f.op = "redeliver" ->
           [broker EXCEPT !.out = {e \in @ : ~ \E x \in f.ids : x[1] = e}]
      [] broker.attached /\ f.op = "transactional" ->
           [broker EXCEPT !.pending = @ \cup
              {x \in Covers(f) : x[2] \notin broker.acked[x[1]]}]
      [] OTHER ->
           LET acked == [e \in Entries |-> broker.acked[e] \cup
                            {i \in Fresh(e) : <<e, i>> \in Covers(f)}]
           IN  [broker EXCEPT !.acked = acked,
                              !.out = {e \in @ : acked[e] # Fresh(e)}]

BrokerTakes ==
    /\ outbound # <<>> /\ conn \in {"up", "closed"}
    /\ broker' = Take(Head(outbound))
    /\ outbound' = Tail(outbound)
    /\ settled' = IF [op |-> "subscribe"] \in ToSet(outbound)
                  THEN settled \ Carried(<<Head(outbound)>>) ELSE settled
    /\ UNCHANGED <<client, queue, held, done, exact, conn, inbound, left>>

Remaining(e) ==
    {i \in Fresh(e) \ broker.acked[e] : <<e, i>> \notin broker.pending}

Dispatch(e) ==
    /\ broker.attached /\ conn = "up" /\ e \notin broker.out /\ Remaining(e) # {}
    /\ inbound' = Append(inbound, [entry |-> e, unacked |-> Remaining(e)])
    /\ broker' = [broker EXCEPT !.out = @ \cup {e}]
    /\ UNCHANGED <<client, app, conn, outbound, left>>

-----------------------------------------------------------------------------
Application ==
    \/ Receive \/ RedeliverAll
    \/ \E ids \in SUBSET held : Cardinality(ids) =< 2 /\ Ack(ids)
    \/ \E id \in held : \/ AckCumulativeNow(id) \/ AckGroupedIndividual(id)
                        \/ AckGroupedCumulative(id) \/ NegativeAck(id)
                        \/ AckInTransaction(id)
    \/ Close \/ SettleTransaction

Driver == \/ Deliver \/ TickIsLate \/ TimeoutTick \/ NackTick \/ GroupTick
          \/ LateTick \/ Disconnect \/ Reset \/ Rebuild

Environment == \/ BrokerTakes \/ \E e \in Entries : Dispatch(e)
               \/ \E fate \in {"committed", "aborted"} : EndTransaction(fate)

Next == Application \/ Driver \/ Environment

Spec == Init /\ [][Next]_vars

\* What goes on without a disturbance: the driver, the broker and an
\* application that receives and acknowledges.
Progress ==
    \/ Deliver \/ NackTick \/ GroupTick \/ Reset \/ Rebuild
    \/ Receive \/ (\E id \in held : Ack({id})) \/ SettleTransaction
    \/ BrokerTakes \/ (\E e \in Entries : Dispatch(e))
    \/ \E fate \in {"committed", "aborted"} : EndTransaction(fate)

FairSpec == Spec /\ WF_vars(Progress)

-----------------------------------------------------------------------------
(* Properties.                                                             *)

\* Every variable has its type; the trackers hold only positions that their
\* entries have.
TypeOK ==
    /\ DOMAIN batch \subseteq Entries
    /\ \A e \in DOMAIN batch : batch[e] \subseteq Fresh(e)
    /\ Timed(unacked) \subseteq Ids /\ DOMAIN unacked.locator \subseteq Ids
    /\ nacks \subseteq Ids /\ group.individuals \subseteq Ids
    /\ group.cumulative \in Ids \cup {<<>>}
    /\ txn.fate \in Fates /\ txn.acks \subseteq Ids
    /\ ToSet(queue) \subseteq Ids /\ held \subseteq Ids
    /\ conn \in {"up", "lost", "reset", "closed"}
    /\ broker.out \subseteq Entries
    /\ \A e \in Entries : broker.acked[e] \subseteq Fresh(e)

\* Nothing is acknowledged at the broker that the application has not
\* acknowledged, whatever is redelivered, regrouped, masked or replayed: a
\* partial ack of a batch never carries a sibling over.
NeverOverAcked ==
    \A e \in Entries : \A i \in broker.acked[e] : <<e, i>> \in done

\* Every position the broker regards as delivered and unacked is on its way to
\* the application, held by it, waiting to be asked for again, or covered by
\* an ack on its way: nothing is stranded until the next reconnect.
NothingStranded ==
    \A e \in broker.out : \A i \in Fresh(e) \ broker.acked[e] :
        LET p == <<e, i>>
        IN  \/ \E k \in DOMAIN inbound : inbound[k].entry = e /\ i \in inbound[k].unacked
            \/ p \in ToSet(queue) \cup held \cup nacks \cup Grouped(group)
            \/ p \in broker.pending
            \/ \E k \in DOMAIN outbound :
                 LET f == outbound[k]
                 IN  \/ f.op = "close"
                     \/ f.op = "redeliver" /\ \E x \in f.ids : x[1] = e
                     \/ f.op \notin {"close", "redeliver", "subscribe"}
                          /\ p \in Covers(f)

\* A message whose ack has left is on no redelivery timer.
AckedIsUntimed == settled \cap (Timed(unacked) \cup nacks) = {}

\* The same, over late ticks, several buckets and evictions that move them, as
\* long as no tick has evicted empty buckets alone from in front of others:
\* poll does not rebuild the locator then, and a later ack misses its message.
AckedIsUntimedWhileExact == exact => AckedIsUntimed

\* A close loses no ack: once the broker has taken it, everything whose ack has
\* left in this session, grouped or not, or was committed, is acked there.
CloseKeepsAcks ==
    conn = "closed" /\ outbound = <<>>
      => \A p \in settled \cup Grouped(group) : p[2] \in broker.acked[p[1]]

\* Every message is acknowledged at the broker in the end, whatever acks and
\* redelivery requests a lost connection took with it.
Drained == <>(conn = "closed" \/ \A e \in Entries : broker.acked[e] = Fresh(e))

=============================================================================
