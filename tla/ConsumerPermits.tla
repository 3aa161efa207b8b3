-------------------------- MODULE ConsumerPermits --------------------------
(***************************************************************************)
(* The flow-permit ledger of one consumer and the attach protocol around   *)
(* it: ConsumerState (magnetar-proto/src/consumer.rs), the handlers of     *)
(* Connection that touch it (magnetar-proto/src/conn.rs) and the client    *)
(* tasks that drive it (subscribe, seek and receive futures of             *)
(* magnetar-runtime-tokio).                                                *)
(*                                                                         *)
(* `c' is the ConsumerState under its slot lock; every method of it is an  *)
(* operator from states to states, named after the method.  An action is   *)
(* one critical section of the connection mutex: a frame handler, a driver *)
(* step, or one poll of a future.  The environment is open here: any       *)
(* well-typed frame may arrive at any time.  ConsumerSession closes it     *)
(* with a broker and two FIFO wires.                                       *)
(*                                                                         *)
(* Message contents are abstracted to a kind and the number of dispatch    *)
(* units (batch members) the broker charged for the entry.                 *)
(***************************************************************************)
EXTENDS Integers, Sequences, FiniteSets

CONSTANTS
    ReceiverQueue,  \* SubscribeRequest.receiver_queue_size, Auto's floor
    AutoCap,        \* the largest target Auto's byte budget allows
    AutoPolicy,     \* TRUE: receiver_queue::Auto, FALSE: receiver_queue::Fixed
    MaxBatch,       \* bound: members of one batched entry
    Uuids,          \* chunked messages in flight
    MaxAttempts,    \* operation_retry budget of transient subscribe errors
    MaxRequests     \* bound: request ids handed out

ASSUME QueueAssumption == ReceiverQueue \in Nat \ {0}
ASSUME CapAssumption == AutoCap \in Nat /\ AutoCap >= ReceiverQueue
ASSUME AutoAssumption == AutoPolicy \in BOOLEAN
ASSUME BatchAssumption == MaxBatch \in Nat \ {0}
ASSUME AttemptsAssumption == MaxAttempts \in Nat
ASSUME RequestsAssumption == MaxRequests \in Nat \ {0}

VARIABLES
    c,         \* ConsumerState
    conn,      \* where the connection and its supervisor are
    nextReq,   \* Connection.next_request_id
    pending,   \* Connection.pending_requests: request id -> kind
    outbound,  \* Connection.outbound, and the socket behind it
    retry,     \* Connection.driver_retries: the failed request, or NoReq
    task,      \* the client task that subscribes, then seeks
    taskReq,   \* the request or waiter id that task awaits
    recv       \* the receive() future

cvars == <<c, conn, nextReq, pending, outbound, retry, task, taskReq, recv>>

NoReq == 0
Requests == 1..MaxRequests
Units == 1..MaxBatch

Kinds == {"none", "subscribe", "seek", "reattach", "close"}

ConnStates == {"connected",
               "lost",         \* mark_disconnected, until the supervisor resets
               "handshaking",  \* reset and begin_handshake done
               "rebuilding"}   \* Connected seen, handles not yet replayed

Tasks == {"opening",        \* Client::subscribe waiting for its ack
          "opened",         \* ack observed, initial_flow not yet called
          "seeking",        \* seek waiting for CommandSuccess
          "seekAcked",      \* its outcome has landed, not yet polled
          "resubscribing",  \* seek waiting for its re-subscribe ack
          "granting",       \* seek: ack observed, initial_flow not yet called
          "ready"}          \* nothing in progress

ConsumerState ==
    [receiver_queue_size : Nat \ {0},
     granted_permits : Nat,
     permit_balance : Nat,
     consumed_since_flow : Nat,
     queue : Nat,                           \* number of queued messages
     chunk_reassembly : SUBSET Uuids,
     initial_grant_due : BOOLEAN,
     subscribe_waiter_id : Requests \cup {NoReq},
     subscribe_waiter_request : Requests \cup {NoReq},
     subscribe_waiter_completed : BOOLEAN,
     flow_on_subscribe_ack : Requests \cup {NoReq},
     has_ever_attached : BOOLEAN,
     transient_subscribe_attempts : Nat,
     pending_seek : Requests \cup {NoReq},
     paused : BOOLEAN,
     closed : BOOLEAN,
     terminal_failure : BOOLEAN,
     reached_end_of_topic : BOOLEAN,
     window : Nat]                          \* history: the granted window

Frame(type, arg) == [type |-> type, arg |-> arg]
Frames == [type : {"Subscribe", "Flow", "Seek", "Close"}, arg : Nat]

TypeOK ==
    /\ c \in ConsumerState
    /\ conn \in ConnStates
    /\ nextReq \in Requests \cup {MaxRequests + 1}
    /\ pending \in [Requests -> Kinds]
    /\ outbound \in Seq(Frames)
    /\ retry \in Requests \cup {NoReq}
    /\ task \in Tasks
    /\ taskReq \in Requests \cup {NoReq}
    /\ recv \in {"ready", "parked"}

(* Client::subscribe has returned the Consumer to the application. *)
HasConsumer == task \notin {"opening", "opened"}

IsConnected == conn \in {"connected", "rebuilding"}

(* consumer_handle_is_terminal, for a connection that is not itself closed. *)
IsTerminal(s) == s.closed \/ s.terminal_failure

-----------------------------------------------------------------------------
(* ConsumerState: the ledger.                                              *)

Max2(a, b) == IF a >= b THEN a ELSE b
Min2(a, b) == IF a <= b THEN a ELSE b
SatSub(a, b) == IF a >= b THEN a - b ELSE 0

FlowThreshold(s) == Max2(s.receiver_queue_size \div 2, 1)

IsFlowStarved(s) ==
    /\ s.permit_balance = 0
    /\ s.consumed_since_flow + s.queue < FlowThreshold(s)

(* A refund dropped on the floor while a frame-level grant is computed. *)
BadRecordBrokerPermitConsumed(s, n) == s

(* The refund half: n units the client will not (or no longer) hold. *)
RecordBrokerPermitConsumed(s, n) ==
    [s EXCEPT !.consumed_since_flow = @ + n]

(* An unsaturated subtraction: an over-dispatched batch wraps the balance. *)
BadRecordDispatchUnit(s, n) == [s EXCEPT !.permit_balance = @ - n]

(* The arrival half: n units the broker charged. *)
RecordDispatchUnit(s, n) == [s EXCEPT !.permit_balance = SatSub(@, n)]

(* The condition under which maybe_flow emits. *)
FlowDue(s) ==
    /\ ~s.closed
    /\ s.pending_seek = NoReq
    /\ ~s.paused
    /\ s.consumed_since_flow >= FlowThreshold(s)

MaybeFlow(s) ==
    IF FlowDue(s)
      THEN [s EXCEPT !.granted_permits = @ + s.consumed_since_flow,
                     !.permit_balance = @ + s.consumed_since_flow,
                     !.consumed_since_flow = 0]
      ELSE s

(* The CommandFlow that goes with it: what the mirror gained. *)
FlowSent(s) ==
    IF FlowDue(s)
      THEN <<Frame("Flow", MaybeFlow(s).permit_balance - s.permit_balance)>>
      ELSE <<>>

(* ConsumerState::initial_flow. *)
InitialFlow(s) ==
    [s EXCEPT !.granted_permits = s.receiver_queue_size,
              !.permit_balance = s.receiver_queue_size,
              !.consumed_since_flow = 0,
              !.initial_grant_due = FALSE,
              !.window = s.receiver_queue_size]

(* Every caller grants, the duplicate of issue #427. *)
BadGrantDue(s) == TRUE

(* The once-per-attach guard of Connection::initial_flow. *)
GrantDue(s) ==
    \/ s.initial_grant_due
    \/ s.granted_permits = 0
    \/ IsFlowStarved(s)

(* Connection::initial_flow, as a step from s to the new state. *)
ConnInitialFlow(s) == IF GrantDue(s) THEN InitialFlow(s) ELSE s
InitialFlowSent(s) ==
    IF GrantDue(s) THEN <<Frame("Flow", s.receiver_queue_size)>> ELSE <<>>

(* Auto::adjust and Fixed::adjust.  `over' is the byte-budget signal. *)
PolicyAdjust(s, over) ==
    IF ~AutoPolicy THEN ReceiverQueue
    ELSE IF over THEN Max2(s.receiver_queue_size \div 2, ReceiverQueue)
    ELSE IF s.permit_balance = 0 THEN Min2(2 * s.receiver_queue_size, AutoCap)
    ELSE s.receiver_queue_size

AdjustSkipped(s) ==
    \/ s.closed
    \/ s.pending_seek # NoReq
    \/ s.paused
    \/ s.terminal_failure
    \/ s.granted_permits = 0

(* adjust_receiver_queue: the permits it asks for when the target grows. *)
AdjustDelta(s, over) ==
    IF AdjustSkipped(s) \/ PolicyAdjust(s, over) <= s.receiver_queue_size
      THEN 0
      ELSE SatSub(PolicyAdjust(s, over), s.granted_permits)

(* The growth is granted but not mirrored in the balance. *)
BadAdjustReceiverQueue(s, over) ==
    IF AdjustSkipped(s) THEN s
    ELSE [s EXCEPT !.receiver_queue_size = PolicyAdjust(s, over),
                   !.granted_permits = @ + AdjustDelta(s, over),
                   !.window = IF @ > 0 THEN @ + AdjustDelta(s, over) ELSE 0]

AdjustReceiverQueue(s, over) ==
    IF AdjustSkipped(s) THEN s
    ELSE [s EXCEPT !.receiver_queue_size = PolicyAdjust(s, over),
                   !.granted_permits = @ + AdjustDelta(s, over),
                   !.permit_balance = @ + AdjustDelta(s, over),
                   !.window = IF @ > 0 THEN @ + AdjustDelta(s, over) ELSE 0]

(* The churn boundaries zero the three counters together. *)
ZeroPermits(s) ==
    [s EXCEPT !.granted_permits = 0,
              !.permit_balance = 0,
              !.consumed_since_flow = 0,
              !.window = 0]

-----------------------------------------------------------------------------
(* ConsumerState: messages.                                                *)

(* An entry as the client classifies it: n members for the application     *)
(* ("plain"), n members over max_redeliver_count ("dead"), n members no    *)
(* layout decodes ("undecodable"), or the first or last of the two chunks  *)
(* of a message.  `n' is what the broker charged.                          *)
Entries ==
    [kind : {"plain", "dead", "undecodable"}, n : Units, uuid : Uuids]
      \cup [kind : {"first", "last"}, n : {1}, uuid : Uuids]

(* Duplicate first chunk, or a straggler whose buffer is gone. *)
ChunkDropped(s, m) ==
    \/ m.kind = "first" /\ m.uuid \in s.chunk_reassembly
    \/ m.kind = "last" /\ m.uuid \notin s.chunk_reassembly

DeliverDropped(s, m) ==
    \/ s.closed
    \/ s.pending_seek # NoReq
    \/ ChunkDropped(s, m)

(* The dead-letter branch forgets its refund (issue #437). *)
BadDeliver(s, m) ==
    IF DeliverDropped(s, m) THEN s
    ELSE CASE m.kind = "first" ->
                [RecordBrokerPermitConsumed(RecordDispatchUnit(s, 1), 1)
                   EXCEPT !.chunk_reassembly = @ \cup {m.uuid}]
           [] m.kind = "last" ->
                [RecordDispatchUnit(s, 1)
                   EXCEPT !.chunk_reassembly = @ \ {m.uuid}, !.queue = @ + 1]
           [] m.kind = "plain" ->
                [RecordDispatchUnit(s, m.n) EXCEPT !.queue = @ + m.n]
           [] OTHER -> RecordDispatchUnit(s, m.n)

(* deliver with classify_and_queue: an entry is dropped, buffered as an    *)
(* incomplete chunk, queued, or refunded at once.                          *)
Deliver(s, m) ==
    IF DeliverDropped(s, m) THEN s
    ELSE CASE m.kind = "first" ->
                [RecordBrokerPermitConsumed(RecordDispatchUnit(s, 1), 1)
                   EXCEPT !.chunk_reassembly = @ \cup {m.uuid}]
           [] m.kind = "last" ->
                [RecordDispatchUnit(s, 1)
                   EXCEPT !.chunk_reassembly = @ \ {m.uuid}, !.queue = @ + 1]
           [] m.kind = "plain" ->
                [RecordDispatchUnit(s, m.n) EXCEPT !.queue = @ + m.n]
           [] OTHER ->
                RecordBrokerPermitConsumed(RecordDispatchUnit(s, m.n), m.n)

(* wake_receivers runs on every outcome but Dropped and a buffered chunk. *)
DeliverWakes(s, m) == ~DeliverDropped(s, m) /\ m.kind # "first"

(* ConsumerState::pop_message. *)
PopMessage(s) ==
    IF s.queue = 0 THEN s
    ELSE RecordBrokerPermitConsumed([s EXCEPT !.queue = @ - 1], 1)

(* begin_seek drops the queue and every permit mirror. *)
BeginSeek(s, r) ==
    [ZeroPermits(s) EXCEPT !.pending_seek = r, !.queue = 0]

-----------------------------------------------------------------------------
(* Subscribing.                                                            *)

(* What emit_command_subscribe does to the consumer for request r.  With   *)
(* NotifyWaiter a task waits for the ack; with ReleaseFlow the ack itself  *)
(* releases the initial flow, unless a task is already waiting.            *)
NotifyWaiter(s, r) ==
    [s EXCEPT !.initial_grant_due = TRUE,
              !.subscribe_waiter_id = r,
              !.subscribe_waiter_request = r,
              !.subscribe_waiter_completed = FALSE,
              !.flow_on_subscribe_ack = NoReq]

(* The waiter is overlooked: the ack of the rebuilt request is not its own. *)
BadReleaseFlow(s, r) ==
    [s EXCEPT !.initial_grant_due = TRUE,
              !.flow_on_subscribe_ack =
                  IF s.subscribe_waiter_id # NoReq THEN NoReq ELSE r]

ReleaseFlow(s, r) ==
    IF s.subscribe_waiter_id # NoReq
      THEN [s EXCEPT !.initial_grant_due = TRUE,
                     !.subscribe_waiter_request = r,
                     !.subscribe_waiter_completed = FALSE,
                     !.flow_on_subscribe_ack = NoReq]
      ELSE [s EXCEPT !.initial_grant_due = TRUE,
                     !.flow_on_subscribe_ack = r]

(* alloc_request_id, pending_requests.insert and encode_command. *)
Request(kind, type) ==
    /\ nextReq <= MaxRequests
    /\ nextReq' = nextReq + 1
    /\ pending' = [pending EXCEPT ![nextReq] = kind]
    /\ outbound' = Append(outbound, Frame(type, nextReq))

(* The same in a handler that has just taken response r. *)
RequestAfter(r, kind, type) ==
    /\ nextReq <= MaxRequests
    /\ nextReq' = nextReq + 1
    /\ pending' = [pending EXCEPT ![r] = "none", ![nextReq] = kind]
    /\ outbound' = Append(outbound, Frame(type, nextReq))

(* A consumer the application has closed is re-attached. *)
BadReattachEligible(s) ==
    /\ s.pending_seek = NoReq
    /\ s.flow_on_subscribe_ack = NoReq

(* consumer_reattach_in_place_is_eligible, and the retained request. *)
ReattachEligible(s) ==
    /\ ~IsTerminal(s)
    /\ s.pending_seek = NoReq
    /\ s.flow_on_subscribe_ack = NoReq

(* consumer_subscribe_retry_is_current. *)
RetryIsCurrent(s, r) ==
    /\ ~IsTerminal(s)
    /\ \/ s.subscribe_waiter_request = r
       \/ s.flow_on_subscribe_ack = r

(* Connection::subscribe: the slot, and the first CommandSubscribe. *)
FreshConsumer ==
    [receiver_queue_size |-> ReceiverQueue,
     granted_permits |-> 0, permit_balance |-> 0, consumed_since_flow |-> 0,
     queue |-> 0, chunk_reassembly |-> {},
     initial_grant_due |-> FALSE,
     subscribe_waiter_id |-> NoReq, subscribe_waiter_request |-> NoReq,
     subscribe_waiter_completed |-> FALSE, flow_on_subscribe_ack |-> NoReq,
     has_ever_attached |-> FALSE, transient_subscribe_attempts |-> 0,
     pending_seek |-> NoReq, paused |-> FALSE, closed |-> FALSE,
     terminal_failure |-> FALSE, reached_end_of_topic |-> FALSE,
     window |-> 0]

Init ==
    /\ c = NotifyWaiter(FreshConsumer, 1)
    /\ conn = "connected"
    /\ nextReq = 2
    /\ pending = [r \in Requests |-> IF r = 1 THEN "subscribe" ELSE "none"]
    /\ outbound = <<Frame("Subscribe", 1)>>
    /\ retry = NoReq
    /\ task = "opening"
    /\ taskReq = 1
    /\ recv = "ready"

-----------------------------------------------------------------------------
(* Frames from the broker (handle_frame).                                  *)

(* CommandMessage: deliver, then maybe_flow, in one critical section. *)
HandleMessage(m) ==
    /\ conn = "connected"
    /\ c' = MaybeFlow(Deliver(c, m))
    /\ outbound' = outbound \o FlowSent(Deliver(c, m))
    /\ recv' = IF DeliverWakes(c, m) THEN "ready" ELSE recv
    /\ UNCHANGED <<conn, nextReq, pending, retry, task, taskReq>>

(* CommandMessage carrying a PIP-33 marker: record_marker_consumed, and    *)
(* the handler returns before maybe_flow.                                  *)
HandleMarker ==
    /\ conn = "connected"
    /\ c' = RecordDispatchUnit(RecordBrokerPermitConsumed(c, 1), 1)
    /\ UNCHANGED <<conn, nextReq, pending, outbound, retry, task, taskReq, recv>>

(* The consumer after the broker acked subscribe request r, before flow. *)
SubscribeAcked(s, r) ==
    LET waited == s.subscribe_waiter_request = r
        flows == s.flow_on_subscribe_ack = r
    IN  [s EXCEPT !.subscribe_waiter_completed = waited \/ @,
                  !.subscribe_waiter_request = IF waited THEN NoReq ELSE @,
                  !.flow_on_subscribe_ack = IF flows THEN NoReq ELSE @,
                  !.has_ever_attached = waited \/ flows \/ @,
                  !.transient_subscribe_attempts =
                      IF waited \/ flows THEN 0 ELSE @]

(* CommandSuccess for a subscribe: complete the waiter, or release the     *)
(* initial flow of a re-attach.  A superseded request does neither.        *)
HandleSubscribed(r) ==
    /\ IsConnected
    /\ pending[r] = "subscribe"
    /\ pending' = [pending EXCEPT ![r] = "none"]
    /\ LET s == SubscribeAcked(c, r) IN
         IF c.flow_on_subscribe_ack = r
           THEN /\ c' = ConnInitialFlow(s)
                /\ outbound' = outbound \o InitialFlowSent(s)
           ELSE /\ c' = s
                /\ UNCHANGED outbound
    /\ UNCHANGED <<conn, nextReq, retry, task, taskReq, recv>>

(* CommandSuccess for a seek: seek_acked takes whatever seek is pending,   *)
(* and the outcome is left for the task that awaits it, if any.            *)
HandleSeekDone(r) ==
    /\ IsConnected
    /\ pending[r] = "seek"
    /\ pending' = [pending EXCEPT ![r] = "none"]
    /\ c' = [c EXCEPT !.pending_seek = NoReq]
    /\ task' = IF task = "seeking" /\ taskReq = r THEN "seekAcked" ELSE task
    /\ UNCHANGED <<conn, nextReq, outbound, retry, taskReq, recv>>

(* The recovery closes the consumer and never re-subscribes it. *)
BadHandleReattachClosed(r) ==
    /\ IsConnected
    /\ pending[r] = "reattach"
    /\ c' = ZeroPermits(c)
    /\ pending' = [pending EXCEPT ![r] = "none"]
    /\ UNCHANGED <<conn, nextReq, outbound, retry, task, taskReq, recv>>

(* CommandSuccess for the close of an in-place recovery: zero the mirrors  *)
(* and, if the consumer is still eligible, re-subscribe.                   *)
HandleReattachClosed(r) ==
    /\ IsConnected
    /\ pending[r] = "reattach"
    /\ IF ReattachEligible(c)
         THEN /\ RequestAfter(r, "subscribe", "Subscribe")
              /\ c' = ReleaseFlow(ZeroPermits(c), nextReq)
         ELSE /\ c' = ZeroPermits(c)
              /\ pending' = [pending EXCEPT ![r] = "none"]
              /\ UNCHANGED <<nextReq, outbound>>
    /\ UNCHANGED <<conn, retry, task, taskReq, recv>>

(* CommandSuccess or CommandError for a request whose answer moves nothing *)
(* here: an ordinary close, or a refused in-place close.                   *)
HandleOtherAnswer(r) ==
    /\ IsConnected
    /\ pending[r] \in {"close", "reattach"}
    /\ pending' = [pending EXCEPT ![r] = "none"]
    /\ UNCHANGED <<c, conn, nextReq, outbound, retry, task, taskReq, recv>>

(* CommandError for a seek: the task gets the error. *)
HandleSeekRefused(r) ==
    /\ IsConnected
    /\ pending[r] = "seek"
    /\ pending' = [pending EXCEPT ![r] = "none"]
    /\ task' = IF task = "seeking" /\ taskReq = r THEN "ready" ELSE task
    /\ UNCHANGED <<c, conn, nextReq, outbound, retry, taskReq, recv>>

(* fail_consumer_subscribe_with_broker_error: consumed_since_flow stays. *)
FailConsumerSubscribe(s) ==
    [s EXCEPT !.terminal_failure = TRUE,
              !.granted_permits = 0,
              !.permit_balance = 0,
              !.window = 0]

(* CommandError for a subscribe.  A superseded request is ignored; a       *)
(* consumer that never attached is removed (closed to every later frame);  *)
(* an attached one retries a transient error within its budget.            *)
HandleSubscribeRefused(r, transient) ==
    /\ IsConnected
    /\ pending[r] = "subscribe"
    /\ pending' = [pending EXCEPT ![r] = "none"]
    /\ IF c.subscribe_waiter_request # r /\ c.flow_on_subscribe_ack # r
         THEN UNCHANGED <<c, retry, recv>>
         ELSE IF ~c.has_ever_attached
         THEN /\ c' = [FailConsumerSubscribe(c) EXCEPT !.closed = TRUE]
              /\ UNCHANGED <<retry, recv>>
         ELSE IF transient /\ c.transient_subscribe_attempts < MaxAttempts
         THEN /\ c' = [c EXCEPT !.transient_subscribe_attempts = @ + 1]
              /\ retry' = r
              /\ UNCHANGED recv
         ELSE /\ c' = FailConsumerSubscribe(c)
              /\ retry' = NoReq
              /\ recv' = "ready"
    /\ UNCHANGED <<conn, nextReq, outbound, task, taskReq>>

(* Only the mirrors are re-synced, nothing re-subscribes (issue #307). *)
BadHandleCloseConsumer(moved) ==
    /\ conn = "connected"
    /\ c' = ZeroPermits(c)
    /\ UNCHANGED <<conn, nextReq, pending, outbound, retry, task, taskReq, recv>>

(* CommandCloseConsumer.  On the same broker the consumer re-subscribes at *)
(* once; a move to another broker is left to the migration path.           *)
HandleCloseConsumer(moved) ==
    /\ conn = "connected"
    /\ IF ~moved /\ ReattachEligible(c)
         THEN /\ Request("subscribe", "Subscribe")
              /\ c' = ReleaseFlow(ZeroPermits(c), nextReq)
         ELSE /\ c' = ZeroPermits(c)
              /\ UNCHANGED <<nextReq, pending, outbound>>
    /\ UNCHANGED <<conn, retry, task, taskReq, recv>>

(* CommandActiveConsumerChange(is_active): the re-arm of a promoted        *)
(* Failover consumer that holds no permits.                                *)
HandlePromoted ==
    /\ conn = "connected"
    /\ LET rearm == /\ c.granted_permits = 0 \/ IsFlowStarved(c)
                    /\ ~c.closed
                    /\ ~c.paused
                    /\ c.pending_seek = NoReq
                    /\ ~c.reached_end_of_topic
                    /\ c.flow_on_subscribe_ack = NoReq
       IN  IF rearm
             THEN /\ c' = ConnInitialFlow(c)
                  /\ outbound' = outbound \o InitialFlowSent(c)
             ELSE UNCHANGED <<c, outbound>>
    /\ UNCHANGED <<conn, nextReq, pending, retry, task, taskReq, recv>>

(* CommandReachedEndOfTopic wakes every receiver. *)
HandleEndOfTopic ==
    /\ conn = "connected"
    /\ c' = [c EXCEPT !.reached_end_of_topic = TRUE]
    /\ recv' = "ready"
    /\ UNCHANGED <<conn, nextReq, pending, outbound, retry, task, taskReq>>

-----------------------------------------------------------------------------
(* The application's calls and its futures.                                *)

(* One poll of receive(): Connection::pop_message, which also runs         *)
(* maybe_flow when the queue is empty; then return, or park on a waker.    *)
Receive ==
    /\ HasConsumer
    /\ recv = "ready"
    /\ c.queue > 0 \/ ~IsTerminal(c)
    /\ c' = MaybeFlow(PopMessage(c))
    /\ outbound' = outbound \o FlowSent(PopMessage(c))
    /\ recv' = IF c.queue > 0 THEN "ready" ELSE "parked"
    /\ UNCHANGED <<conn, nextReq, pending, retry, task, taskReq>>

Pause ==
    /\ HasConsumer
    /\ ~c.paused
    /\ c' = [c EXCEPT !.paused = TRUE]
    /\ UNCHANGED <<conn, nextReq, pending, outbound, retry, task, taskReq, recv>>

(* resume() clears the flag and wakes the driver, which has no step that   *)
(* looks at it.                                                            *)
Resume ==
    /\ c.paused
    /\ c' = [c EXCEPT !.paused = FALSE]
    /\ UNCHANGED <<conn, nextReq, pending, outbound, retry, task, taskReq, recv>>

(* wait_subscribe_acked returns: the completion is consumed under the lock *)
(* and the lock is released before initial_flow.                           *)
ObserveSubscribed ==
    /\ task \in {"opening", "resubscribing"}
    /\ IsConnected
    /\ c.subscribe_waiter_id = taskReq
    /\ c.subscribe_waiter_completed
    /\ c' = [c EXCEPT !.subscribe_waiter_id = NoReq,
                      !.subscribe_waiter_completed = FALSE]
    /\ task' = IF task = "opening" THEN "opened" ELSE "granting"
    /\ taskReq' = NoReq
    /\ UNCHANGED <<conn, nextReq, pending, outbound, retry, recv>>

(* The task's own initial_flow, after a fresh subscribe or a seek. *)
GrantInitialFlow ==
    /\ task \in {"opened", "granting"}
    /\ c' = ConnInitialFlow(c)
    /\ outbound' = outbound \o InitialFlowSent(c)
    /\ task' = "ready"
    /\ UNCHANGED <<conn, nextReq, pending, retry, taskReq, recv>>

(* Consumer::seek, in any state of the connection. *)
Seek ==
    /\ task = "ready"
    /\ ~c.closed
    /\ Request("seek", "Seek")
    /\ c' = BeginSeek(c, nextReq)
    /\ task' = "seeking"
    /\ taskReq' = nextReq
    /\ UNCHANGED <<conn, retry, recv>>

(* complete_staged_seek after Success: resubscribe_consumer_after_seek. *)
ResubscribeAfterSeek ==
    /\ task = "seekAcked"
    /\ IF IsTerminal(c)
         THEN /\ task' = "ready"
              /\ taskReq' = NoReq
              /\ UNCHANGED <<c, nextReq, pending, outbound>>
         ELSE /\ Request("subscribe", "Subscribe")
              /\ c' = NotifyWaiter(c, nextReq)
              /\ task' = "resubscribing"
              /\ taskReq' = nextReq
    /\ UNCHANGED <<conn, retry, recv>>

(* The seek future is dropped while it awaits the broker's answer. *)
DropSeek ==
    /\ task \in {"seeking", "seekAcked"}
    /\ task' = "ready"
    /\ taskReq' = NoReq
    /\ UNCHANGED <<c, conn, nextReq, pending, outbound, retry, recv>>

(* abandon_consumer_subscribe_waiter: the re-subscribe becomes flow-owned, *)
(* or its flow is staged at once if the ack had already landed.            *)
AbandonWaiter ==
    /\ task = "resubscribing"
    /\ task' = "ready"
    /\ taskReq' = NoReq
    /\ IF c.subscribe_waiter_id # taskReq
         THEN UNCHANGED <<c, outbound>>
         ELSE LET s == [c EXCEPT !.subscribe_waiter_id = NoReq,
                                 !.subscribe_waiter_request = NoReq,
                                 !.subscribe_waiter_completed = FALSE,
                                 !.flow_on_subscribe_ack =
                                     IF c.subscribe_waiter_request # NoReq
                                       THEN c.subscribe_waiter_request ELSE @]
              IN  IF c.subscribe_waiter_completed /\ IsConnected
                    THEN /\ c' = ConnInitialFlow(s)
                         /\ outbound' = outbound \o InitialFlowSent(s)
                    ELSE /\ c' = s
                         /\ UNCHANGED outbound
    /\ UNCHANGED <<conn, nextReq, pending, retry, recv>>

(* resubscribe_consumer_in_place, phase one, for a durable subscription    *)
(* that is not Failover: by the caller or by the stall watchdog.           *)
ResubscribeInPlace ==
    /\ HasConsumer
    /\ ReattachEligible(c)
    /\ \A r \in Requests : pending[r] # "reattach"
    /\ Request("reattach", "Close")
    /\ UNCHANGED <<c, conn, retry, task, taskReq, recv>>

(* The subscribe future is dropped while it awaits its ack:                *)
(* cancel_consumer_subscribe forgets the consumer, and closes it at the    *)
(* broker if a subscribe may have reached it.                              *)
CancelSubscribe ==
    /\ task = "opening"
    /\ ~IsTerminal(c)
    /\ task' = "ready"
    /\ taskReq' = NoReq
    /\ c' = [c EXCEPT !.closed = TRUE, !.subscribe_waiter_id = NoReq]
    /\ retry' = NoReq
    /\ LET forgotten ==
              [r \in Requests |->
                 IF pending[r] = "subscribe" THEN "none" ELSE pending[r]]
       IN  IF forgotten # pending \/ (c.subscribe_waiter_completed /\ IsConnected)
             THEN /\ nextReq <= MaxRequests
                  /\ nextReq' = nextReq + 1
                  /\ pending' = [forgotten EXCEPT ![nextReq] = "close"]
                  /\ outbound' = Append(outbound, Frame("Close", nextReq))
             ELSE UNCHANGED <<nextReq, pending, outbound>>
    /\ UNCHANGED <<conn, recv>>

(* Consumer::close. *)
Close ==
    /\ task = "ready"
    /\ ~c.closed
    /\ Request("close", "Close")
    /\ c' = [c EXCEPT !.closed = TRUE]
    /\ recv' = "ready"
    /\ UNCHANGED <<conn, retry, task, taskReq>>

-----------------------------------------------------------------------------
(* The driver: timers, retries and the supervised reconnect.               *)

(* handle_timeout: one auto-adjust tick. *)
AdjustTick(over) ==
    /\ AutoPolicy
    /\ over => c.queue > 0
    /\ c' = AdjustReceiverQueue(c, over)
    /\ outbound' = IF AdjustDelta(c, over) > 0
                     THEN Append(outbound, Frame("Flow", AdjustDelta(c, over)))
                     ELSE outbound
    /\ UNCHANGED <<conn, nextReq, pending, retry, task, taskReq, recv>>

(* handle_timeout: sweep_expired_chunks. *)
SweepExpiredChunks(u) ==
    /\ u \in c.chunk_reassembly
    /\ c' = [c EXCEPT !.chunk_reassembly = @ \ {u}]
    /\ UNCHANGED <<conn, nextReq, pending, outbound, retry, task, taskReq, recv>>

(* The retry leg: re-issue the failed subscribe if it is still current. *)
RetrySubscribe ==
    /\ retry # NoReq
    /\ IsConnected
    /\ retry' = NoReq
    /\ IF RetryIsCurrent(c, retry)
         THEN /\ Request("subscribe", "Subscribe")
              /\ c' = ReleaseFlow(c, nextReq)
         ELSE UNCHANGED <<c, nextReq, pending, outbound>>
    /\ UNCHANGED <<conn, task, taskReq, recv>>

(* The transport failed: mark_disconnected. *)
Disconnect ==
    /\ conn # "lost"
    /\ conn' = "lost"
    /\ UNCHANGED <<c, nextReq, pending, outbound, retry, task, taskReq, recv>>

(* Connection::reset, the part that concerns a consumer. *)
ResetConsumer(s) ==
    [ZeroPermits(s) EXCEPT !.subscribe_waiter_completed = FALSE,
                           !.queue = 0,
                           !.pending_seek = NoReq]

(* reset and begin_handshake under one lock.  Requests end as SessionLost; *)
(* a retry leg already spawned may survive, a queued one does not.         *)
Reset ==
    /\ conn = "lost"
    /\ conn' = "handshaking"
    /\ c' = ResetConsumer(c)
    /\ pending' = [r \in Requests |-> "none"]
    /\ outbound' = <<>>
    /\ retry' \in {retry, NoReq}
    /\ task' = IF task = "seeking" THEN "ready" ELSE task
    /\ recv' = "ready"
    /\ UNCHANGED <<nextReq, taskReq>>

(* CommandConnected on the new socket. *)
Connected ==
    /\ conn = "handshaking"
    /\ conn' = "rebuilding"
    /\ UNCHANGED <<c, nextReq, pending, outbound, retry, task, taskReq, recv>>

(* rebuild_consumers. *)
Rebuild ==
    /\ conn = "rebuilding"
    /\ conn' = "connected"
    /\ IF IsTerminal(c)
         THEN UNCHANGED <<c, nextReq, pending, outbound>>
         ELSE /\ Request("subscribe", "Subscribe")
              /\ c' = ReleaseFlow(c, nextReq)
    /\ UNCHANGED <<retry, task, taskReq, recv>>

(* poll_transmit and the socket: the broker takes the frames in order. *)
PollTransmit ==
    /\ outbound # <<>>
    /\ outbound' = Tail(outbound)
    /\ UNCHANGED <<c, conn, nextReq, pending, retry, task, taskReq, recv>>

-----------------------------------------------------------------------------
Answer(r) ==
    \/ HandleSubscribed(r)
    \/ HandleSeekDone(r)
    \/ HandleReattachClosed(r)
    \/ HandleOtherAnswer(r)
    \/ HandleSeekRefused(r)
    \/ \E transient \in BOOLEAN : HandleSubscribeRefused(r, transient)

Next ==
    \/ \E m \in Entries : HandleMessage(m)
    \/ HandleMarker
    \/ \E r \in Requests : Answer(r)
    \/ \E moved \in BOOLEAN : HandleCloseConsumer(moved)
    \/ HandlePromoted
    \/ HandleEndOfTopic
    \/ Receive
    \/ Pause
    \/ Resume
    \/ ObserveSubscribed
    \/ GrantInitialFlow
    \/ Seek
    \/ ResubscribeAfterSeek
    \/ DropSeek
    \/ AbandonWaiter
    \/ ResubscribeInPlace
    \/ CancelSubscribe
    \/ Close
    \/ \E over \in BOOLEAN : AdjustTick(over)
    \/ \E u \in Uuids : SweepExpiredChunks(u)
    \/ RetrySubscribe
    \/ Disconnect
    \/ Reset
    \/ Connected
    \/ Rebuild
    \/ PollTransmit

Spec == Init /\ [][Next]_cvars

-----------------------------------------------------------------------------
(* Properties.                                                             *)

(* The documented ledger invariant, in the direction that keeps the        *)
(* consumer fed: every permit of the granted window is still with the      *)
(* broker (permit_balance), queued, or owed back (consumed_since_flow), so *)
(* no path of deliver, pop_message, maybe_flow or adjust loses one.        *)
WindowCovered ==
    c.window <= c.permit_balance + c.consumed_since_flow + c.queue

(* With a fixed receiver queue an attached consumer is never in the state  *)
(* is_flow_starved describes: zero permits out, and even draining the      *)
(* queue would not reach the threshold at which maybe_flow emits.          *)
NeverSelfStarved == ~AutoPolicy /\ c.window > 0 => ~IsFlowStarved(c)

(* While a CommandSubscribe is owed its initial flow, somebody is going to *)
(* send it: the request is in flight and its ack releases the flow or      *)
(* completes a waiter some task watches, or that task is past the ack, or  *)
(* a retry of the request is scheduled.                                    *)
OwedGrantHasOwner ==
    conn = "connected" /\ ~IsTerminal(c) /\ c.initial_grant_due =>
      \/ c.flow_on_subscribe_ack # NoReq
           /\ pending[c.flow_on_subscribe_ack] = "subscribe"
      \/ /\ task \in {"opening", "resubscribing"}
         /\ taskReq = c.subscribe_waiter_id
         /\ \/ c.subscribe_waiter_completed
            \/ c.subscribe_waiter_request # NoReq
                 /\ pending[c.subscribe_waiter_request] = "subscribe"
      \/ task \in {"opened", "granting"}
      \/ retry # NoReq /\ RetryIsCurrent(c, retry)
=============================================================================
