--------------------------- MODULE ProducerSends ---------------------------
(***************************************************************************)
(* One producer of a supervised connection, seen from the client: the send *)
(* queue of ProducerState (producer.rs), the handlers of Connection that   *)
(* touch it (conn.rs), and the futures of the application that wait on it  *)
(* (producer.rs of the tokio engine).  What arrives from the broker is     *)
(* unconstrained here; ProducerSession composes it with a broker.          *)
(*                                                                         *)
(* A send is named by its sequence id, counted from 1.  Payload, metadata, *)
(* compression, encryption, statistics, events and memory reservations     *)
(* (MemoryLimit) are abstracted away; what is kept of a message is the way *)
(* queue_send takes for it.                                                *)
(***************************************************************************)
EXTENDS Integers, Sequences

CONSTANTS
    MaxSends,           \* bound: sends the application makes
    MaxMessagesInBatch, \* max_messages_in_batch
    Parts,              \* frames of a chunked message
    Ways,               \* the ways of queue_send this configuration takes
    SendTimeout,        \* a send_timeout is configured
    MaxAttempts,        \* producer-open failures the retry policy tolerates
    MaxRequests         \* bound: request ids

ASSUME SendsAssumption == MaxSends \in Nat
ASSUME BatchAssumption == MaxMessagesInBatch \in Nat \ {0}
ASSUME PartsAssumption == Parts \in Nat \ {0, 1}
ASSUME WaysAssumption == Ways \subseteq {"batch", "misfit", "single", "chunked", "oversized"}
ASSUME TimeoutAssumption == SendTimeout \in BOOLEAN
ASSUME AttemptsAssumption == MaxAttempts \in Nat
ASSUME RequestsAssumption == MaxRequests \in Nat \ {0}

VARIABLES
    p,          \* ProducerState
    known,      \* the handle is in producers and producer_create_requests
    conn,       \* where the connection is in its supervised life
    nextReq,    \* next request id
    requests,   \* pending_requests
    retry,      \* the failed open a retry leg was spawned for, or NoReq
    wire,       \* frames encoded for the socket, in order
    snapshots,  \* in_flight_publish_snapshots of this handle
    outcomes,   \* outcomes, by Send key
    slab,       \* Send keys with a waker in Connection::wakers
    fut,        \* the SendFut of each send
    flush       \* the task of Producer::flush

connVars == <<conn, nextReq, requests, retry>>
futVars == <<outcomes, slab, fut>>
vars == <<p, known, connVars, wire, snapshots, futVars, flush>>

-----------------------------------------------------------------------------
NoReq == 0
Requests == 1..MaxRequests
Seqs == 1..MaxSends
NoWaker == 0

Kinds == {"none", "open", "close"}
ConnStates == {"connected", "lost", "handshaking", "rebuilding", "failed"}

(* OpSend: parts is the length of replay_frames, 0 for a batched send. *)
Ops == [seq : Seqs, parts : {0, 1, Parts}, waker : Seqs \cup {NoWaker}]

(* OutboundFrame: the sequence ids it publishes and its chunk number. *)
SendFrames == [lo : Seqs, hi : Seqs, part : 1..Parts]

Frame(type, arg) == [type |-> type, arg |-> arg]
Frames == [type : {"Send"}, arg : SendFrames]
            \cup [type : {"Producer", "CloseProducer"}, arg : Requests]

(* pending_index maps an absent sequence id to 0. *)
ProducerState ==
    [next : Nat \ {0},
     pending : Seq(Ops),
     pending_index : [Seqs -> Nat],
     batch : Seq(Seqs),
     outbound : Seq(SendFrames),
     closed : BOOLEAN,
     close_request : Requests \cup {NoReq},
     broker_ready : BOOLEAN,
     has_ever_attached : BOOLEAN,
     open_request_id : Requests \cup {NoReq},
     attempts : Nat]

Results == {"none", "receipt", "error", "terminal"}
Futures == {"idle", "ready", "parked", "ok", "err"}
Done == {"ok", "err"}

TypeOK ==
    /\ p \in ProducerState
    /\ known \in BOOLEAN
    /\ conn \in ConnStates
    /\ nextReq \in Nat \ {0}
    /\ requests \in [Requests -> Kinds]
    /\ retry \in Requests \cup {NoReq}
    /\ wire \in Seq(Frames)
    /\ snapshots \in Seq(Ops)
    /\ outcomes \in [Seqs -> Results]
    /\ slab \subseteq Seqs
    /\ fut \in [Seqs -> Futures]
    /\ flush \in {"idle", "waiting", "returned"}

IsConnected == conn \in {"connected", "rebuilding"}

-----------------------------------------------------------------------------
(* ProducerState: queueing a send.                                         *)

SendFrame(lo, hi, part) == [lo |-> lo, hi |-> hi, part |-> part]

OpsOf(ops) == {ops[i] : i \in 1..Len(ops)}
SeqsOf(ops) == {ops[i].seq : i \in 1..Len(ops)}

(* The ops that are in keep, in their order. *)
Kept(ops, keep) ==
    LET upTo[n \in 0..Len(ops)] ==
          IF n = 0 THEN <<>>
          ELSE IF ops[n] \in keep THEN Append(upTo[n - 1], ops[n]) ELSE upTo[n - 1]
    IN  upTo[Len(ops)]

(* The cached frames of an op. *)
ReplayFrames(op) == [k \in 1..op.parts |-> SendFrame(op.seq, op.seq, k)]

Concat(ops) ==
    LET upTo[n \in 0..Len(ops)] ==
          IF n = 0 THEN <<>> ELSE upTo[n - 1] \o ReplayFrames(ops[n])
    IN  upTo[Len(ops)]

(* Every way mints one sequence id and one pending op. *)
PushOp(s, parts) ==
    [s EXCEPT !.next = @ + 1,
              !.pending_index[s.next] = Len(s.pending) + 1,
              !.pending = Append(@, [seq |-> s.next, parts |-> parts, waker |-> NoWaker])]

(* emit_single and emit_chunked: the frames are staged and kept for replay. *)
Emit(s, parts) ==
    [PushOp(s, parts) EXCEPT
        !.outbound = @ \o ReplayFrames([seq |-> s.next, parts |-> parts, waker |-> NoWaker])]

AddToBatch(s) == [PushOp(s, 0) EXCEPT !.batch = Append(@, s.next)]

(* flush_batch: one frame for the whole range. *)
FlushBatch(s) ==
    IF s.batch = <<>> \/ s.closed
      THEN s
      ELSE [s EXCEPT !.outbound = Append(@, SendFrame(s.batch[1], s.batch[Len(s.batch)], 1)),
                     !.batch = <<>>]

FlushBatchIfFull(s) == IF Len(s.batch) >= MaxMessagesInBatch THEN FlushBatch(s) ELSE s

(* queue_send_reserved.  "batch" joins the open batch; "misfit" belongs to *)
(* another transaction or exceeds the byte budget; "single" may not be     *)
(* batched; "chunked" and "oversized" exceed max_message_size with and     *)
(* without chunking.  All but the first flush the open batch before they   *)
(* go on.                                                                  *)
QueueSend(s, way) ==
    CASE way = "batch"     -> FlushBatchIfFull(AddToBatch(s))
      [] way = "misfit"    -> FlushBatchIfFull(AddToBatch(FlushBatch(s)))
      [] way = "single"    -> Emit(FlushBatch(s), 1)
      [] way = "chunked"   -> Emit(FlushBatch(s), Parts)
      [] way = "oversized" -> FlushBatch(s)

-----------------------------------------------------------------------------
(* ProducerState: resolving, timing out, snapshotting and replaying.       *)

Position(s, seq) == CHOOSE i \in 1..Len(s.pending) : s.pending[i].seq = seq

Without(ops, i) == SubSeq(ops, 1, i - 1) \o SubSeq(ops, i + 1, Len(ops))

(* apply_receipt and apply_send_error, with shift_pending_index_left. *)
ApplyOne(s, seq) ==
    IF s.pending_index[seq] = 0
      THEN s
      ELSE LET i == Position(s, seq) IN
           [s EXCEPT !.pending = Without(@, i),
                     !.pending_index = [q \in Seqs |->
                        IF q = seq THEN 0 ELSE IF @[q] > i THEN @[q] - 1 ELSE @[q]]]

(* The receipt of a batch fans out over its range. *)
ApplyRange(s, lo, hi) ==
    LET upTo[q \in (lo - 1)..hi] == IF q = lo - 1 THEN s ELSE ApplyOne(upTo[q - 1], q)
    IN  upTo[hi]

(* drain_timed_out_sends: ops enqueued before the cut leave the front; the *)
(* index of the others is left alone.                                      *)
InTime(ops, cut) == Kept(ops, {op \in OpsOf(ops) : op.seq >= cut})
DrainTimedOut(s, cut) ==
    [s EXCEPT !.pending = InTime(@, cut),
              !.pending_index = [q \in Seqs |->
                 IF q < cut /\ q \in SeqsOf(s.pending) THEN 0 ELSE @[q]]]

(* drain_pending_sends, and what snapshot_pending_sends leaves behind. *)
Drained(s) ==
    [s EXCEPT !.pending = <<>>,
              !.pending_index = [q \in Seqs |-> IF q \in SeqsOf(s.pending) THEN 0 ELSE @[q]],
              !.batch = <<>>,
              !.outbound = <<>>]

Replayable(op) == op.parts > 0
Dropped(s) == {op \in OpsOf(s.pending) : ~Replayable(op)}
Snapshots(s) ==
    LET kept == Kept(s.pending, {op \in OpsOf(s.pending) : Replayable(op)})
    IN  [i \in 1..Len(kept) |-> [kept[i] EXCEPT !.waker = NoWaker]]

(* Mutant: what the broker missed is not staged again. *)
NeverReplayPendingOutbound(s) == s

(* replay_pending_outbound: the frames of pending ops that are not staged. *)
ReplayPendingOutbound(s) ==
    LET staged == {s.outbound[i].lo : i \in 1..Len(s.outbound)}
        unsent == Kept(s.pending, {op \in OpsOf(s.pending) : op.seq \notin staged})
    IN  [s EXCEPT !.outbound = Concat(unsent) \o @]

(* replay_snapshots: frames and ops return to the front, index rebuilt. *)
ReplaySnapshots(s, ops) ==
    LET all == ops \o s.pending
    IN  [s EXCEPT !.outbound = Concat(ops) \o @,
                  !.pending = all,
                  !.pending_index = [q \in Seqs |->
                     IF q \in SeqsOf(all)
                       THEN CHOOSE i \in 1..Len(all) : all[i].seq = q
                       ELSE 0]]

(* It is called for a producer a reset has set something aside for.  When  *)
(* the broker closes and re-attaches a producer in place there is nothing, *)
(* and the positions stay what they were.                                  *)
Replayed(s, ops) == IF ops = <<>> THEN s ELSE ReplaySnapshots(s, ops)

(* Mutant: frames leave as soon as the handshake is done. *)
BadGateOpen(s) == IsConnected /\ known

(* drain_producer_outbound: the gate, and what it lets through. *)
GateOpen(s) == IsConnected /\ known /\ s.broker_ready
Emitted(s) ==
    IF GateOpen(s) THEN [i \in 1..Len(s.outbound) |-> Frame("Send", s.outbound[i])] ELSE <<>>
AfterDrain(s) == IF GateOpen(s) THEN [s EXCEPT !.outbound = <<>>] ELSE s

-----------------------------------------------------------------------------
(* Outcomes and wakers.                                                    *)

(* An op is woken through its own waker, else through the slab. *)
WokenBy(ops) ==
    {op.waker : op \in {o \in ops : o.waker # NoWaker}}
      \cup {op.seq : op \in {o \in ops : o.waker = NoWaker /\ o.seq \in slab}}

Keys(ops) == {op.seq : op \in ops}

Wake(awake) == [q \in Seqs |-> IF q \in awake /\ fut[q] = "parked" THEN "ready" ELSE fut[q]]

Record(keys, result) == [q \in Seqs |-> IF q \in keys THEN result ELSE outcomes[q]]

(* The receipt and error arms leave the slab alone when the op has a waker. *)
ResolveByBroker(ops, result) ==
    /\ outcomes' = Record(Keys(ops), result)
    /\ fut' = Wake(WokenBy(ops))
    /\ slab' = slab \ {op.seq : op \in {o \in ops : o.waker = NoWaker}}

(* resolve_send_error, terminalize_drained_sends, terminalize_snapshot_bucket. *)
ResolveLocally(ops, result) ==
    /\ outcomes' = Record(Keys(ops), result)
    /\ fut' = Wake(WokenBy(ops))
    /\ slab' = slab \ Keys(ops)

(* alloc_request_id, encode_command, pending_requests.insert *)
Request(kind, type) ==
    /\ nextReq \in Requests
    /\ nextReq' = nextReq + 1
    /\ requests' = [requests EXCEPT ![nextReq] = kind]
    /\ wire' = Append(wire, Frame(type, nextReq))

Answered(r, kind) ==
    /\ requests[r] = kind
    /\ requests' = [requests EXCEPT ![r] = "none"]

-----------------------------------------------------------------------------
FreshProducer ==
    [next |-> 1, pending |-> <<>>, pending_index |-> [q \in Seqs |-> 0],
     batch |-> <<>>, outbound |-> <<>>, closed |-> FALSE, close_request |-> NoReq,
     broker_ready |-> FALSE, has_ever_attached |-> FALSE, open_request_id |-> 1,
     attempts |-> 0]

(* create_producer on a connected connection. *)
Init ==
    /\ p = FreshProducer
    /\ known = TRUE
    /\ conn = "connected"
    /\ nextReq = 2
    /\ requests = [r \in Requests |-> IF r = 1 THEN "open" ELSE "none"]
    /\ retry = NoReq
    /\ wire = <<Frame("Producer", 1)>>
    /\ snapshots = <<>>
    /\ outcomes = [q \in Seqs |-> "none"]
    /\ slab = {}
    /\ fut = [q \in Seqs |-> "idle"]
    /\ flush = "idle"

-----------------------------------------------------------------------------
(* The application: sends, their futures, flush and close.                 *)

(* Producer::send through ProducerSlot::queue_send: only the slot's lock,  *)
(* so the frames are staged and the driver picks them up later.            *)
Send(way) ==
    /\ way \in Ways
    /\ p.has_ever_attached
    /\ ~p.closed
    /\ p.next \in Seqs
    /\ p' = QueueSend(p, way)
    /\ fut' = IF way = "oversized" THEN fut ELSE [fut EXCEPT ![p.next] = "ready"]
    /\ UNCHANGED <<known, connVars, wire, snapshots, outcomes, slab, flush>>

(* register_waker: the op the index points at, else the slab. *)
Attached(q) == known /\ p.pending_index[q] \in 1..Len(p.pending)

(* Mutant: a future that finds its receipt reports an error. *)
BadPoll(q) ==
    /\ fut[q] \in {"ready", "parked"}
    /\ IF outcomes[q] # "none"
         THEN /\ fut' = [fut EXCEPT ![q] = "err"]
              /\ outcomes' = [outcomes EXCEPT ![q] = "none"]
              /\ UNCHANGED <<p, slab>>
         ELSE /\ fut' = [fut EXCEPT ![q] = "parked"]
              /\ IF Attached(q)
                   THEN /\ p' = [p EXCEPT !.pending[p.pending_index[q]].waker = q]
                        /\ UNCHANGED slab
                   ELSE /\ slab' = slab \cup {q}
                        /\ UNCHANGED p
              /\ UNCHANGED outcomes
    /\ UNCHANGED <<known, connVars, wire, snapshots, flush>>

(* SendFut::poll, after a wake-up or spuriously. *)
Poll(q) ==
    /\ fut[q] \in {"ready", "parked"}
    /\ IF outcomes[q] # "none"
         THEN /\ fut' = [fut EXCEPT ![q] = IF outcomes[q] = "receipt" THEN "ok" ELSE "err"]
              /\ outcomes' = [outcomes EXCEPT ![q] = "none"]
              /\ UNCHANGED <<p, slab>>
         ELSE /\ fut' = [fut EXCEPT ![q] = "parked"]
              /\ IF Attached(q)
                   THEN /\ p' = [p EXCEPT !.pending[p.pending_index[q]].waker = q]
                        /\ UNCHANGED slab
                   ELSE /\ slab' = slab \cup {q}
                        /\ UNCHANGED p
              /\ UNCHANGED outcomes
    /\ UNCHANGED <<known, connVars, wire, snapshots, flush>>


(* Producer::flush: flush_producer, then wait until pending is empty. *)
StartFlush ==
    /\ flush = "idle"
    /\ p.has_ever_attached /\ ~p.closed
    /\ p' = IF known THEN AfterDrain(FlushBatch(p)) ELSE p
    /\ wire' = IF known THEN wire \o Emitted(FlushBatch(p)) ELSE wire
    /\ flush' = "waiting"
    /\ UNCHANGED <<known, connVars, snapshots, futVars>>

FlushReturns ==
    /\ flush = "waiting"
    /\ p.pending = <<>>
    /\ flush' = "returned"
    /\ UNCHANGED <<p, known, connVars, wire, snapshots, futVars>>

(* close_producer, and close_producer_forget when the last clone drops. *)
CloseProducer ==
    /\ p.has_ever_attached
    /\ ~p.closed
    /\ conn # "failed"
    /\ Request("close", "CloseProducer")
    /\ p' = [p EXCEPT !.closed = TRUE, !.close_request = nextReq]
    /\ UNCHANGED <<known, conn, retry, snapshots, futVars, flush>>

-----------------------------------------------------------------------------
(* What the broker sends.                                                  *)

(* CommandSendReceipt *)
HandleSendReceipt(lo, hi) ==
    /\ IsConnected
    /\ LET after == IF known THEN ApplyRange(p, lo, hi) ELSE p
       IN  /\ p' = after
           /\ ResolveByBroker(OpsOf(p.pending) \ OpsOf(after.pending), "receipt")
    /\ UNCHANGED <<known, connVars, wire, snapshots, flush>>

(* CommandSendError: the one op of its sequence id, a batch included. *)
HandleSendError(seq) ==
    /\ IsConnected
    /\ LET after == IF known THEN ApplyOne(p, seq) ELSE p
       IN  /\ p' = after
           /\ ResolveByBroker(OpsOf(p.pending) \ OpsOf(after.pending), "error")
    /\ UNCHANGED <<known, connVars, wire, snapshots, flush>>

OpenIsCurrent(r) == known /\ p.open_request_id = r

(* CommandProducerSuccess: what the broker missed is staged again, what a  *)
(* reset set aside goes in front of it, and only then the gate opens.      *)
HandleProducerSuccess(r) ==
    /\ IsConnected
    /\ Answered(r, "open")
    /\ IF OpenIsCurrent(r)
         THEN /\ p' = [Replayed(ReplayPendingOutbound(p), snapshots) EXCEPT
                         !.open_request_id = NoReq, !.broker_ready = TRUE,
                         !.has_ever_attached = TRUE, !.attempts = 0]
              /\ snapshots' = <<>>
         ELSE UNCHANGED <<p, snapshots>>
    /\ UNCHANGED <<known, conn, nextReq, retry, wire, futVars, flush>>

(* fail_producer_open_with_broker_error *)
FailProducerOpen ==
    /\ p' = Drained([p EXCEPT !.closed = TRUE, !.broker_ready = FALSE])
    /\ ResolveLocally(OpsOf(p.pending) \cup OpsOf(snapshots), "terminal")
    /\ snapshots' = <<>>
    /\ known' = FALSE

(* A failed or unanswered open of a producer that has attached before. *)
OpenFailed(r) ==
    IF p.attempts + 1 <= MaxAttempts
      THEN /\ p' = [p EXCEPT !.broker_ready = FALSE, !.attempts = @ + 1]
           /\ retry' = r
           /\ UNCHANGED <<known, snapshots, futVars>>
      ELSE /\ FailProducerOpen
           /\ UNCHANGED retry

(* CommandError for an open. *)
HandleOpenRefused(r, retryable) ==
    /\ IsConnected
    /\ Answered(r, "open")
    /\ \/ /\ ~OpenIsCurrent(r)
          /\ UNCHANGED <<p, known, retry, snapshots, futVars>>
       \/ /\ OpenIsCurrent(r) /\ p.has_ever_attached
          /\ IF retryable THEN OpenFailed(r) ELSE FailProducerOpen /\ UNCHANGED retry
       \/ /\ OpenIsCurrent(r) /\ ~p.has_ever_attached
          /\ known' = FALSE
          /\ UNCHANGED <<p, retry, snapshots, futVars>>
    /\ UNCHANGED <<conn, nextReq, wire, flush>>

(* producer_reattach_in_place_is_eligible *)
ReattachEligible == known /\ ~p.closed /\ p.has_ever_attached /\ p.open_request_id = NoReq

(* CommandCloseProducer from the broker. *)
HandleCloseProducer ==
    /\ IsConnected
    /\ IF ReattachEligible
         THEN /\ Request("open", "Producer")
              /\ p' = [p EXCEPT !.broker_ready = FALSE, !.open_request_id = nextReq]
         ELSE /\ p' = IF known THEN [p EXCEPT !.broker_ready = FALSE] ELSE p
              /\ UNCHANGED <<nextReq, requests, wire>>
    /\ UNCHANGED <<known, conn, retry, snapshots, futVars, flush>>

(* CommandSuccess for a close: fail_sends_of_closed_producer. *)
HandleCloseAcked(r) ==
    /\ IsConnected
    /\ Answered(r, "close")
    /\ IF known /\ p.close_request = r
         THEN /\ p' = Drained(p)
              /\ ResolveLocally(OpsOf(p.pending) \cup OpsOf(snapshots), "terminal")
              /\ snapshots' = <<>>
         ELSE UNCHANGED <<p, snapshots, futVars>>
    /\ UNCHANGED <<known, conn, nextReq, retry, wire, flush>>

-----------------------------------------------------------------------------
(* The driver: drains, timers, retries and the supervised reconnect.       *)

(* drain_producer_outbound before poll_transmit. *)
DrainProducerOutbound ==
    /\ GateOpen(p)
    /\ p.outbound # <<>>
    /\ wire' = wire \o Emitted(p)
    /\ p' = AfterDrain(p)
    /\ UNCHANGED <<known, connVars, snapshots, futVars, flush>>

(* handle_timeout, the part that concerns producers: flush a batch that is *)
(* due and drain; fail the sends enqueued before the cut, pending or set   *)
(* aside by a reset.  A snapshot is older than every pending op.           *)
HandleTimeout(due, cut) ==
    /\ conn # "failed"
    /\ known
    /\ SendTimeout \/ cut = 1
    /\ (due /\ p.batch # <<>>) \/ cut > 1
    /\ LET flushed == IF due THEN FlushBatch(p) ELSE p
           sent == AfterDrain(flushed)
           late(ops) == {op \in OpsOf(ops) : op.seq < cut}
       IN  /\ p' = DrainTimedOut(sent, cut)
           /\ wire' = wire \o Emitted(flushed)
           /\ snapshots' = InTime(snapshots, cut)
           /\ ResolveLocally(late(p.pending) \cup late(snapshots), "error")
    /\ UNCHANGED <<known, connVars, flush>>

(* handle_timeout: expire_pending_producer_open. *)
ExpireProducerOpen(r) ==
    /\ IsConnected
    /\ known /\ p.has_ever_attached
    /\ Answered(r, "open")
    /\ OpenFailed(r)
    /\ UNCHANGED <<conn, nextReq, wire, flush>>

RetryIsCurrent(r) == known /\ ~p.closed /\ p.open_request_id = r

(* The retry leg, after its lookup: re-issue the open if it is current, or *)
(* give up on it when the lookup failed.                                   *)
RetryProducerOpen(found) ==
    /\ retry # NoReq
    /\ IsConnected
    /\ retry' = NoReq
    /\ \/ /\ RetryIsCurrent(retry) /\ found
          /\ Request("open", "Producer")
          /\ p' = [p EXCEPT !.open_request_id = nextReq]
          /\ UNCHANGED <<known, snapshots, futVars>>
       \/ /\ RetryIsCurrent(retry) /\ ~found
          /\ FailProducerOpen
          /\ UNCHANGED <<nextReq, requests, wire>>
       \/ /\ ~RetryIsCurrent(retry)
          /\ UNCHANGED <<p, known, nextReq, requests, wire, snapshots, futVars>>
    /\ UNCHANGED <<conn, flush>>

(* The transport failed: mark_disconnected. *)
Disconnect ==
    /\ conn \notin {"lost", "failed"}
    /\ conn' = "lost"
    /\ UNCHANGED <<p, known, nextReq, requests, retry, wire, snapshots, futVars, flush>>

(* Mutant: a second reset forgets what the first one set aside. *)
BadReset ==
    /\ conn = "lost"
    /\ conn' = "handshaking"
    /\ requests' = [r \in Requests |-> "none"]
    /\ wire' = <<>>
    /\ retry' = NoReq
    /\ p' = [Drained(p) EXCEPT !.broker_ready = FALSE]
    /\ snapshots' = Snapshots(p)
    /\ outcomes' = Record(Keys(Dropped(p)), "error")
    /\ fut' = Wake(WokenBy(OpsOf(p.pending)) \cup (slab \ SeqsOf(p.pending)))
    /\ slab' = {}
    /\ UNCHANGED <<known, nextReq, flush>>

(* Mutant: the futures of the sends set aside are not woken. *)
SilentReset ==
    /\ conn = "lost"
    /\ conn' = "handshaking"
    /\ requests' = [r \in Requests |-> "none"]
    /\ wire' = <<>>
    /\ retry' = NoReq
    /\ p' = [Drained(p) EXCEPT !.broker_ready = FALSE]
    /\ snapshots' = snapshots \o Snapshots(p)
    /\ outcomes' = Record(Keys(Dropped(p)), "error")
    /\ fut' = Wake(WokenBy(Dropped(p)) \cup (slab \ SeqsOf(p.pending)))
    /\ slab' = {}
    /\ UNCHANGED <<known, nextReq, flush>>

(* reset and begin_handshake.  Replayable sends are appended to the        *)
(* snapshots and their futures woken with no outcome, batched ones fail;   *)
(* the wakers left in the slab are woken and forgotten.                    *)
Reset ==
    /\ conn = "lost"
    /\ conn' = "handshaking"
    /\ requests' = [r \in Requests |-> "none"]
    /\ wire' = <<>>
    /\ retry' \in {retry, NoReq}
    /\ IF known
         THEN /\ p' = [Drained(p) EXCEPT !.broker_ready = FALSE]
              /\ snapshots' = snapshots \o Snapshots(p)
              /\ outcomes' = Record(Keys(Dropped(p)), "error")
              /\ fut' = Wake(WokenBy(OpsOf(p.pending)) \cup (slab \ SeqsOf(p.pending)))
         ELSE /\ fut' = Wake(slab)
              /\ UNCHANGED <<p, snapshots, outcomes>>
    /\ slab' = {}
    /\ UNCHANGED <<known, nextReq, flush>>

(* fail_all_pending: the supervisor gives up. *)
FailAllPending ==
    /\ conn \in {"lost", "handshaking"}
    /\ conn' = "failed"
    /\ requests' = [r \in Requests |-> "none"]
    /\ p' = IF known THEN Drained([p EXCEPT !.closed = TRUE]) ELSE p
    /\ LET ops == (IF known THEN OpsOf(p.pending) ELSE {}) \cup OpsOf(snapshots)
       IN  /\ outcomes' = Record(Keys(ops) \cup slab, "terminal")
           /\ fut' = Wake(WokenBy(ops) \cup (slab \ Keys(ops)))
    /\ slab' = {}
    /\ snapshots' = <<>>
    /\ UNCHANGED <<known, nextReq, retry, wire, flush>>

(* CommandConnected on the new socket. *)
Connected ==
    /\ conn = "handshaking"
    /\ conn' = "rebuilding"
    /\ UNCHANGED <<p, known, nextReq, requests, retry, wire, snapshots, futVars, flush>>

(* rebuild_producers: a live producer is opened again, and the snapshots   *)
(* of one that is not are forgotten.                                       *)
RebuildProducers ==
    /\ conn = "rebuilding"
    /\ conn' = "connected"
    /\ IF known /\ ~p.closed
         THEN /\ Request("open", "Producer")
              /\ p' = [p EXCEPT !.open_request_id = nextReq]
              /\ UNCHANGED snapshots
         ELSE /\ snapshots' = <<>>
              /\ UNCHANGED <<p, nextReq, requests, wire>>
    /\ UNCHANGED <<known, retry, futVars, flush>>

(* poll_transmit and the socket: the broker takes the frames in order. *)
PollTransmit ==
    /\ wire # <<>>
    /\ wire' = Tail(wire)
    /\ UNCHANGED <<p, known, connVars, snapshots, futVars, flush>>

-----------------------------------------------------------------------------
Answer(r) ==
    \/ HandleProducerSuccess(r)
    \/ \E retryable \in BOOLEAN : HandleOpenRefused(r, retryable)
    \/ HandleCloseAcked(r)
    \/ ExpireProducerOpen(r)

Next ==
    \/ \E way \in Ways : Send(way)
    \/ \E q \in Seqs : Poll(q)
    \/ StartFlush
    \/ FlushReturns
    \/ CloseProducer
    \/ \E lo \in Seqs : \E hi \in lo..MaxSends : HandleSendReceipt(lo, hi)
    \/ \E q \in Seqs : HandleSendError(q)
    \/ \E r \in Requests : Answer(r)
    \/ HandleCloseProducer
    \/ DrainProducerOutbound
    \/ \E due \in BOOLEAN, cut \in Seqs \cup {MaxSends + 1} : HandleTimeout(due, cut)
    \/ \E found \in BOOLEAN : RetryProducerOpen(found)
    \/ Disconnect
    \/ Reset
    \/ FailAllPending
    \/ Connected
    \/ RebuildProducers
    \/ PollTransmit

Spec == Init /\ [][Next]_vars

-----------------------------------------------------------------------------
(* Every place a send may be in: pending or set aside by a reset, resolved *)
(* with an outcome nobody has taken yet, or returned by its future.        *)
Held == snapshots \o p.pending
Places(q) ==
    {place \in {"held", "resolved", "returned"} :
        \/ place = "held" /\ q \in SeqsOf(Held)
        \/ place = "resolved" /\ outcomes[q] # "none"
        \/ place = "returned" /\ fut[q] \in Done}

(* Where the handler that resolves a send looks for the waker of its       *)
(* future: on the op, and in the slab when the op has none.                *)
WakerFor(op) == op.waker = op.seq \/ (op.waker = NoWaker /\ op.seq \in slab)

Before(f, g) == f.lo < g.lo \/ (f.lo = g.lo /\ f.part < g.part)
=============================================================================
