----------------------- MODULE ConsumerSessionProofs -----------------------
(***************************************************************************)
(* Proofs about ConsumerPermits in its open environment and about          *)
(* ConsumerSession, which implements it.                                   *)
(*                                                                         *)
(* Whatever frames the broker sends and whatever the application does, the *)
(* ledger covers the granted window, a fixed receiver queue never starves  *)
(* itself, and a subscribe that is owed its initial flow has an owner that *)
(* will send it.  The argument is one lemma per method of ConsumerState    *)
(* (it maps a good state to a good state), then one step per action;       *)
(* ownership builds on the ledger's invariant in the same way.             *)
(*                                                                         *)
(* Every step of ConsumerSession is a step of ConsumerPermits or leaves    *)
(* the client alone, so what is proved of the client against any           *)
(* well-typed frames holds in the session, whatever the broker's wires do. *)
(* What there is to show for that is that the broker's wire is well typed, *)
(* which needs the type of the client's.                                   *)
(***************************************************************************)
EXTENDS ConsumerSession, TLAPS

(* WindowCovered as a predicate of a state. *)
Covered(s) ==
    s.window <= s.permit_balance + s.consumed_since_flow + s.queue

(* With the Fixed policy the target never moves, and the window is either  *)
(* none or the whole target.                                               *)
FixedWindow(s) ==
    ~AutoPolicy => /\ s.receiver_queue_size = ReceiverQueue
             /\ s.window \in {0, ReceiverQueue}

Good(s) == s \in ConsumerState /\ Covered(s) /\ FixedWindow(s)

(* The inductive invariant. *)
IInv == TypeOK /\ Good(c)

-----------------------------------------------------------------------------
(* Methods of ConsumerState.                                               *)

(* Good depends on the type and five fields only. *)
LEMMA SameLedger ==
    ASSUME NEW s, Good(s), NEW t \in ConsumerState,
           t.window = s.window,
           t.permit_balance = s.permit_balance,
           t.consumed_since_flow = s.consumed_since_flow,
           t.queue = s.queue,
           t.receiver_queue_size = s.receiver_queue_size
    PROVE  Good(t)
BY DEF Good, Covered, FixedWindow

(* Assigning the counters keeps the type. *)
LEMMA LedgerType ==
    ASSUME NEW s \in ConsumerState, NEW g \in Nat, NEW b \in Nat, NEW f \in Nat
    PROVE  [s EXCEPT !.granted_permits = g,
                     !.permit_balance = b,
                     !.consumed_since_flow = f] \in ConsumerState
BY DEF ConsumerState

LEMMA GrowType ==
    ASSUME NEW s \in ConsumerState, NEW q \in Nat \ {0},
           NEW g \in Nat, NEW b \in Nat, NEW w \in Nat
    PROVE  [s EXCEPT !.receiver_queue_size = q,
                     !.granted_permits = g,
                     !.permit_balance = b,
                     !.window = w] \in ConsumerState
BY DEF ConsumerState

LEMMA ChargeType ==
    ASSUME NEW s \in ConsumerState, NEW n \in Nat
    PROVE  RecordDispatchUnit(s, n) \in ConsumerState
BY DEF ConsumerState, RecordDispatchUnit, SatSub

LEMMA RefundType ==
    ASSUME NEW s \in ConsumerState, NEW n \in Nat
    PROVE  RecordBrokerPermitConsumed(s, n) \in ConsumerState
BY DEF ConsumerState, RecordBrokerPermitConsumed

LEMMA QueueType ==
    ASSUME NEW s \in ConsumerState, NEW n \in Nat
    PROVE  [s EXCEPT !.queue = @ + n] \in ConsumerState
BY DEF ConsumerState

(* A dispatched unit is charged and refunded at once: the window stays     *)
(* covered even when the balance saturates at zero.                        *)
LEMMA ChargeAndRefundGood ==
    ASSUME NEW s, Good(s), NEW n \in Nat
    PROVE  Good(RecordBrokerPermitConsumed(RecordDispatchUnit(s, n), n))
<1> DEFINE t == RecordBrokerPermitConsumed(RecordDispatchUnit(s, n), n)
<1>1. s \in ConsumerState
  BY DEF Good
<1>2. t \in ConsumerState
  BY <1>1, ChargeType, RefundType
<1>3. Covered(t)
  BY <1>1 DEF ConsumerState, Good, Covered,
              RecordBrokerPermitConsumed, RecordDispatchUnit, SatSub
<1>4. FixedWindow(t)
  BY <1>1 DEF ConsumerState, Good, FixedWindow,
              RecordBrokerPermitConsumed, RecordDispatchUnit
<1>5. QED
  BY <1>2, <1>3, <1>4 DEF Good

LEMMA RefundAndChargeGood ==
    ASSUME NEW s, Good(s)
    PROVE  Good(RecordDispatchUnit(RecordBrokerPermitConsumed(s, 1), 1))
<1> DEFINE t == RecordDispatchUnit(RecordBrokerPermitConsumed(s, 1), 1)
<1>1. s \in ConsumerState
  BY DEF Good
<1>2. t \in ConsumerState
  BY <1>1, ChargeType, RefundType
<1>3. Covered(t)
  BY <1>1 DEF ConsumerState, Good, Covered,
              RecordBrokerPermitConsumed, RecordDispatchUnit, SatSub
<1>4. FixedWindow(t)
  BY <1>1 DEF ConsumerState, Good, FixedWindow,
              RecordBrokerPermitConsumed, RecordDispatchUnit
<1>5. QED
  BY <1>2, <1>3, <1>4 DEF Good

(* A dispatched unit is charged and queued. *)
LEMMA ChargeAndQueueGood ==
    ASSUME NEW s, Good(s), NEW n \in Nat
    PROVE  Good([RecordDispatchUnit(s, n) EXCEPT !.queue = @ + n])
<1> DEFINE t == [RecordDispatchUnit(s, n) EXCEPT !.queue = @ + n]
<1>1. s \in ConsumerState
  BY DEF Good
<1>2. t \in ConsumerState
  BY <1>1, ChargeType, QueueType
<1>3. Covered(t)
  BY <1>1 DEF ConsumerState, Good, Covered, RecordDispatchUnit, SatSub
<1>4. FixedWindow(t)
  BY <1>1 DEF ConsumerState, Good, FixedWindow, RecordDispatchUnit
<1>5. QED
  BY <1>2, <1>3, <1>4 DEF Good

LEMMA MaybeFlowGood ==
    ASSUME NEW s, Good(s)
    PROVE  Good(MaybeFlow(s)) /\ FlowSent(s) \in Seq(Frames)
<1>1. s \in ConsumerState
  BY DEF Good
<1>2. CASE FlowDue(s)
  <2> DEFINE t == [s EXCEPT !.granted_permits = @ + s.consumed_since_flow,
                            !.permit_balance = @ + s.consumed_since_flow,
                            !.consumed_since_flow = 0]
  <2>1. MaybeFlow(s) = t
    BY <1>2 DEF MaybeFlow
  <2>2. t \in ConsumerState
    <3>1. /\ s.granted_permits + s.consumed_since_flow \in Nat
          /\ s.permit_balance + s.consumed_since_flow \in Nat
      BY <1>1 DEF ConsumerState
    <3>2. QED
      BY <1>1, <3>1, LedgerType
  <2>3. Covered(t)
    BY <1>1 DEF ConsumerState, Good, Covered
  <2>4. FixedWindow(t)
    BY <1>1 DEF ConsumerState, Good, FixedWindow
  <2>5. t.permit_balance - s.permit_balance \in Nat
    BY <1>1 DEF ConsumerState
  <2>6. Frame("Flow", t.permit_balance - s.permit_balance) \in Frames
    BY <2>5 DEF Frame, Frames
  <2>7. FlowSent(s) \in Seq(Frames)
    BY <1>2, <2>1, <2>6 DEF FlowSent
  <2>8. QED
    BY <2>1, <2>2, <2>3, <2>4, <2>7 DEF Good
<1>3. CASE ~FlowDue(s)
  BY <1>3 DEF MaybeFlow, FlowSent
<1>4. QED
  BY <1>2, <1>3

LEMMA InitialFlowGood ==
    ASSUME NEW s, Good(s)
    PROVE  /\ Good(ConnInitialFlow(s))
           /\ InitialFlowSent(s) \in Seq(Frames)
<1>1. s \in ConsumerState
  BY DEF Good
<1>2. InitialFlow(s) \in ConsumerState
  BY <1>1 DEF ConsumerState, InitialFlow
<1>3. Covered(InitialFlow(s))
  BY <1>1 DEF ConsumerState, InitialFlow, Covered
<1>4. FixedWindow(InitialFlow(s))
  BY <1>1 DEF ConsumerState, InitialFlow, Good, FixedWindow
<1>5. Frame("Flow", s.receiver_queue_size) \in Frames
  BY <1>1 DEF ConsumerState, Frame, Frames
<1>6. InitialFlowSent(s) \in Seq(Frames)
  BY <1>5 DEF InitialFlowSent
<1>7. QED
  BY <1>2, <1>3, <1>4, <1>6 DEF ConnInitialFlow, Good

LEMMA PolicyType ==
    ASSUME NEW s \in ConsumerState, NEW over \in BOOLEAN
    PROVE  /\ PolicyAdjust(s, over) \in Nat \ {0}
           /\ ~AutoPolicy => PolicyAdjust(s, over) = ReceiverQueue
<1>1. s.receiver_queue_size \in Nat \ {0}
  BY DEF ConsumerState
<1>2. QED
  BY <1>1, QueueAssumption, CapAssumption DEF PolicyAdjust, Max2, Min2

LEMMA AdjustGood ==
    ASSUME NEW s, Good(s), NEW over \in BOOLEAN
    PROVE  /\ AdjustDelta(s, over) \in Nat
           /\ Good(AdjustReceiverQueue(s, over))
<1> DEFINE p == PolicyAdjust(s, over)
           d == AdjustDelta(s, over)
           w == IF s.window > 0 THEN s.window + d ELSE 0
           t == [s EXCEPT !.receiver_queue_size = p,
                          !.granted_permits = s.granted_permits + d,
                          !.permit_balance = s.permit_balance + d,
                          !.window = w]
<1>1. s \in ConsumerState
  BY DEF Good
<1>2. p \in Nat \ {0} /\ (~AutoPolicy => p = ReceiverQueue)
  BY <1>1, PolicyType
<1>3. /\ s.granted_permits \in Nat /\ s.receiver_queue_size \in Nat
      /\ s.permit_balance \in Nat /\ s.window \in Nat
  BY <1>1 DEF ConsumerState
<1>4. d \in Nat
  BY <1>2, <1>3 DEF AdjustDelta, SatSub
<1>5. ~AutoPolicy => d = 0
  BY <1>2, <1>3 DEF AdjustDelta, Good, FixedWindow
<1>6. CASE AdjustSkipped(s)
  BY <1>4, <1>6 DEF AdjustReceiverQueue
<1>7. CASE ~AdjustSkipped(s)
  <2>1. AdjustReceiverQueue(s, over) = t
    BY <1>7 DEF AdjustReceiverQueue
  <2> HIDE DEF p, d
  <2>2. /\ s.granted_permits + d \in Nat
        /\ s.permit_balance + d \in Nat
        /\ w \in Nat
    BY <1>3, <1>4
  <2>3. t \in ConsumerState
    <3> HIDE DEF w
    <3>1. QED
      BY <1>1, <1>2, <2>2, GrowType
  <2>4. Covered(t)
    BY <1>1, <1>4 DEF ConsumerState, Good, Covered
  <2>5. FixedWindow(t)
    BY <1>1, <1>2, <1>4, <1>5 DEF ConsumerState, Good, FixedWindow
  <2>6. Good(t)
    BY <2>3, <2>4, <2>5 DEF Good
  <2> HIDE DEF t
  <2>7. QED
    BY <1>4, <2>1, <2>6 DEF d
<1>8. QED
  BY <1>6, <1>7

LEMMA ZeroGood ==
    ASSUME NEW s, Good(s)
    PROVE  Good(ZeroPermits(s))
<1>1. s \in ConsumerState
  BY DEF Good
<1>2. ZeroPermits(s) \in ConsumerState
  BY <1>1 DEF ConsumerState, ZeroPermits
<1>3. Covered(ZeroPermits(s))
  BY <1>1 DEF ConsumerState, ZeroPermits, Covered
<1>4. FixedWindow(ZeroPermits(s))
  BY <1>1 DEF ConsumerState, ZeroPermits, Good, FixedWindow
<1>5. QED
  BY <1>2, <1>3, <1>4 DEF Good

(* Assignments of fields the ledger does not read. *)
LEMMA WaiterGood ==
    ASSUME NEW s, Good(s), NEW g \in BOOLEAN,
           NEW i \in Requests \cup {NoReq}, NEW q \in Requests \cup {NoReq},
           NEW d \in BOOLEAN, NEW f \in Requests \cup {NoReq}
    PROVE  Good([s EXCEPT !.initial_grant_due = g,
                          !.subscribe_waiter_id = i,
                          !.subscribe_waiter_request = q,
                          !.subscribe_waiter_completed = d,
                          !.flow_on_subscribe_ack = f])
<1> DEFINE t == [s EXCEPT !.initial_grant_due = g,
                          !.subscribe_waiter_id = i,
                          !.subscribe_waiter_request = q,
                          !.subscribe_waiter_completed = d,
                          !.flow_on_subscribe_ack = f]
<1>1. s \in ConsumerState
  BY DEF Good
<1>2. t \in ConsumerState
  BY <1>1 DEF ConsumerState
<1>3. /\ t.window = s.window
      /\ t.permit_balance = s.permit_balance
      /\ t.consumed_since_flow = s.consumed_since_flow
      /\ t.queue = s.queue
      /\ t.receiver_queue_size = s.receiver_queue_size
  BY <1>1 DEF ConsumerState
<1> HIDE DEF t
<1>4. Good(t)
  BY <1>2, <1>3, SameLedger
<1>5. QED
  BY <1>4 DEF t

(* Connection::emit_command_subscribe. *)
LEMMA NotifyWaiterGood ==
    ASSUME NEW s, Good(s), NEW r \in Requests
    PROVE  Good(NotifyWaiter(s, r))
BY WaiterGood DEF NotifyWaiter

LEMMA ReleaseFlowGood ==
    ASSUME NEW s, Good(s), NEW r \in Requests
    PROVE  Good(ReleaseFlow(s, r))
<1>1. s \in ConsumerState
  BY DEF Good
<1>2. CASE s.subscribe_waiter_id # NoReq
  <2> DEFINE t == [s EXCEPT !.initial_grant_due = TRUE,
                            !.subscribe_waiter_request = r,
                            !.subscribe_waiter_completed = FALSE,
                            !.flow_on_subscribe_ack = NoReq]
  <2>1. t \in ConsumerState
    BY <1>1 DEF ConsumerState
  <2>2. Covered(t) /\ FixedWindow(t)
    BY <1>1 DEF ConsumerState, Good, Covered, FixedWindow
  <2>3. QED
    BY <1>2, <2>1, <2>2 DEF ReleaseFlow, Good
<1>3. CASE s.subscribe_waiter_id = NoReq
  <2> DEFINE t == [s EXCEPT !.initial_grant_due = TRUE,
                            !.flow_on_subscribe_ack = r]
  <2>1. t \in ConsumerState
    BY <1>1 DEF ConsumerState
  <2>2. Covered(t) /\ FixedWindow(t)
    BY <1>1 DEF ConsumerState, Good, Covered, FixedWindow
  <2>3. QED
    BY <1>3, <2>1, <2>2 DEF ReleaseFlow, Good
<1>4. QED
  BY <1>2, <1>3

(* The ack of a subscribe moves flags only. *)
LEMMA SubscribeAckedGood ==
    ASSUME NEW s, Good(s), NEW r \in Requests
    PROVE  Good(SubscribeAcked(s, r))
<1> DEFINE w == s.subscribe_waiter_request = r
           f == s.flow_on_subscribe_ack = r
           d == w \/ s.subscribe_waiter_completed
           q == IF w THEN NoReq ELSE s.subscribe_waiter_request
           a == IF f THEN NoReq ELSE s.flow_on_subscribe_ack
           h == w \/ f \/ s.has_ever_attached
           n == IF w \/ f THEN 0 ELSE s.transient_subscribe_attempts
           t == [s EXCEPT !.subscribe_waiter_completed = d,
                          !.subscribe_waiter_request = q,
                          !.flow_on_subscribe_ack = a,
                          !.has_ever_attached = h,
                          !.transient_subscribe_attempts = n]
<1>1. s \in ConsumerState
  BY DEF Good
<1>2. /\ s.subscribe_waiter_request \in Requests \cup {NoReq}
      /\ s.flow_on_subscribe_ack \in Requests \cup {NoReq}
      /\ s.transient_subscribe_attempts \in Nat
  BY <1>1 DEF ConsumerState
<1>3. d \in BOOLEAN /\ h \in BOOLEAN
  OBVIOUS
<1>4. q \in Requests \cup {NoReq} /\ a \in Requests \cup {NoReq} /\ n \in Nat
  BY <1>2
<1>5. SubscribeAcked(s, r) = t
  BY DEF SubscribeAcked
<1> HIDE DEF d, q, a, h, n
<1>6. t \in ConsumerState
  BY <1>1, <1>3, <1>4 DEF ConsumerState
<1>7. Covered(t) /\ FixedWindow(t)
  BY <1>1 DEF ConsumerState, Good, Covered, FixedWindow
<1> HIDE DEF t
<1>8. QED
  BY <1>5, <1>6, <1>7 DEF Good

(* A refused subscribe zeroes the window with the grant. *)
LEMMA FailGood ==
    ASSUME NEW s, Good(s)
    PROVE  Good(FailConsumerSubscribe(s))
<1>1. s \in ConsumerState
  BY DEF Good
<1>2. FailConsumerSubscribe(s) \in ConsumerState
  BY <1>1 DEF ConsumerState, FailConsumerSubscribe
<1>3. Covered(FailConsumerSubscribe(s)) /\ FixedWindow(FailConsumerSubscribe(s))
  BY <1>1 DEF ConsumerState, FailConsumerSubscribe, Good, Covered, FixedWindow
<1>4. QED
  BY <1>2, <1>3 DEF Good

LEMMA CloseGood ==
    ASSUME NEW s, Good(s)
    PROVE  Good([s EXCEPT !.closed = TRUE])
<1>1. s \in ConsumerState
  BY DEF Good
<1>2. [s EXCEPT !.closed = TRUE] \in ConsumerState
  BY <1>1 DEF ConsumerState
<1>3. QED
  BY <1>1, <1>2 DEF ConsumerState, Good, Covered, FixedWindow

LEMMA EntryType ==
    ASSUME NEW m \in Entries
    PROVE  /\ m.n \in Nat
           /\ m.uuid \in Uuids
           /\ m.kind \in {"first", "last", "plain", "dead", "undecodable"}
BY BatchAssumption DEF Entries, Units

LEMMA ChunkGood ==
    ASSUME NEW s, Good(s), NEW k \in SUBSET Uuids
    PROVE  Good([s EXCEPT !.chunk_reassembly = k])
<1>1. s \in ConsumerState
  BY DEF Good
<1>2. [s EXCEPT !.chunk_reassembly = k] \in ConsumerState
  BY <1>1 DEF ConsumerState
<1>3. QED
  BY <1>1, <1>2 DEF ConsumerState, Good, Covered, FixedWindow

(* The last chunk of a message: charged, reassembled and queued. *)
LEMMA LastChunkGood ==
    ASSUME NEW s, Good(s), NEW v, v = RecordDispatchUnit(s, 1),
           NEW k \in SUBSET Uuids, NEW t,
           t = [v EXCEPT !.chunk_reassembly = k, !.queue = v.queue + 1]
    PROVE  Good(t)
<1>1. s \in ConsumerState
  BY DEF Good
<1>2. v \in ConsumerState
  BY <1>1, ChargeType
<1>3. v.queue + 1 \in Nat
  BY <1>2 DEF ConsumerState
<1>4. t \in ConsumerState
  BY <1>2, <1>3 DEF ConsumerState
<1>5. Covered(t)
  BY <1>1 DEF ConsumerState, Good, Covered, RecordDispatchUnit, SatSub
<1>6. FixedWindow(t)
  BY <1>1 DEF ConsumerState, Good, FixedWindow, RecordDispatchUnit
<1>7. QED
  BY <1>4, <1>5, <1>6 DEF Good

(* deliver: every way an entry can be classified keeps the window covered. *)
LEMMA DeliverGood ==
    ASSUME NEW s, Good(s), NEW m \in Entries
    PROVE  Good(Deliver(s, m))
<1>1. /\ m.n \in Nat
      /\ m.uuid \in Uuids
      /\ m.kind \in {"first", "last", "plain", "dead", "undecodable"}
  BY EntryType
<1>2. CASE DeliverDropped(s, m)
  BY <1>2 DEF Deliver
<1>3. CASE ~DeliverDropped(s, m) /\ m.kind = "first"
  <2> DEFINE v == RecordBrokerPermitConsumed(RecordDispatchUnit(s, 1), 1)
  <2>1. Good(v)
    BY ChargeAndRefundGood
  <2>2. Deliver(s, m)
          = [v EXCEPT !.chunk_reassembly = v.chunk_reassembly \cup {m.uuid}]
    BY <1>3 DEF Deliver
  <2> HIDE DEF v
  <2>3. v.chunk_reassembly \cup {m.uuid} \in SUBSET Uuids
    BY <1>1, <2>1 DEF Good, ConsumerState
  <2>4. QED
    BY <2>1, <2>2, <2>3, ChunkGood
<1>4. CASE ~DeliverDropped(s, m) /\ m.kind = "last"
  <2> DEFINE v == RecordDispatchUnit(s, 1)
             k == v.chunk_reassembly \ {m.uuid}
  <2>1. Deliver(s, m) = [v EXCEPT !.chunk_reassembly = k, !.queue = v.queue + 1]
    BY <1>4 DEF Deliver
  <2>2. v \in ConsumerState /\ v = RecordDispatchUnit(s, 1)
    BY ChargeType DEF Good
  <2> HIDE DEF v
  <2>3. k \in SUBSET Uuids
    BY <2>2 DEF ConsumerState
  <2> HIDE DEF k
  <2>4. QED
    BY <2>1, <2>2, <2>3, LastChunkGood
<1>5. CASE ~DeliverDropped(s, m) /\ m.kind = "plain"
  <2>1. Deliver(s, m) = [RecordDispatchUnit(s, m.n) EXCEPT !.queue = @ + m.n]
    BY <1>5 DEF Deliver
  <2>2. QED
    BY <1>1, <2>1, ChargeAndQueueGood
<1>6. CASE ~DeliverDropped(s, m) /\ m.kind \in {"dead", "undecodable"}
  <2>1. Deliver(s, m) = RecordBrokerPermitConsumed(RecordDispatchUnit(s, m.n), m.n)
    BY <1>6 DEF Deliver
  <2>2. QED
    BY <1>1, <2>1, ChargeAndRefundGood
<1>7. QED
  BY <1>1, <1>2, <1>3, <1>4, <1>5, <1>6

(* pop_message moves a unit from the queue to the refund. *)
LEMMA PopGood ==
    ASSUME NEW s, Good(s)
    PROVE  Good(PopMessage(s))
<1>1. s \in ConsumerState
  BY DEF Good
<1>2. CASE s.queue = 0
  BY <1>2 DEF PopMessage
<1>3. CASE s.queue # 0
  <2> DEFINE v == [s EXCEPT !.queue = s.queue - 1]
             t == RecordBrokerPermitConsumed(v, 1)
  <2>1. PopMessage(s) = t
    BY <1>3 DEF PopMessage
  <2>2. s.queue - 1 \in Nat
    BY <1>1, <1>3 DEF ConsumerState
  <2>3. v \in ConsumerState
    BY <1>1, <2>2 DEF ConsumerState
  <2>4. t \in ConsumerState
    BY <2>3, RefundType
  <2>5. Covered(t)
    BY <1>1, <1>3 DEF ConsumerState, Good, Covered, RecordBrokerPermitConsumed
  <2>6. FixedWindow(t)
    BY <1>1 DEF ConsumerState, Good, FixedWindow, RecordBrokerPermitConsumed
  <2>7. QED
    BY <2>1, <2>4, <2>5, <2>6 DEF Good
<1>4. QED
  BY <1>2, <1>3

(* The queue may only be emptied together with the window. *)
LEMMA EmptyGood ==
    ASSUME NEW s, Good(s), NEW r \in Requests \cup {NoReq}
    PROVE  Good([ZeroPermits(s) EXCEPT !.pending_seek = r, !.queue = 0])
<1> DEFINE v == ZeroPermits(s)
           t == [v EXCEPT !.pending_seek = r, !.queue = 0]
<1>1. Good(v) /\ v.window = 0 /\ v.permit_balance = 0 /\ v.consumed_since_flow = 0
  BY ZeroGood DEF Good, ConsumerState, ZeroPermits
<1> HIDE DEF v
<1>2. v \in ConsumerState
  BY <1>1 DEF Good
<1>3. t \in ConsumerState
  BY <1>2 DEF ConsumerState
<1>4. Covered(t) /\ FixedWindow(t)
  BY <1>1, <1>2 DEF ConsumerState, Good, Covered, FixedWindow
<1>5. Good(t)
  BY <1>3, <1>4 DEF Good
<1>6. QED
  BY <1>5 DEF v

LEMMA ResetGood ==
    ASSUME NEW s, Good(s)
    PROVE  Good(ResetConsumer(s))
<1> DEFINE v == ZeroPermits(s)
           t == [v EXCEPT !.subscribe_waiter_completed = FALSE,
                          !.queue = 0,
                          !.pending_seek = NoReq]
<1>1. Good(v) /\ v.window = 0 /\ v.permit_balance = 0 /\ v.consumed_since_flow = 0
  BY ZeroGood DEF Good, ConsumerState, ZeroPermits
<1>2. ResetConsumer(s) = t
  BY DEF ResetConsumer
<1> HIDE DEF v
<1>3. v \in ConsumerState
  BY <1>1 DEF Good
<1>4. t \in ConsumerState
  BY <1>3 DEF ConsumerState
<1>5. Covered(t) /\ FixedWindow(t)
  BY <1>1, <1>3 DEF ConsumerState, Good, Covered, FixedWindow
<1>6. QED
  BY <1>2, <1>4, <1>5 DEF Good

-----------------------------------------------------------------------------
(* The connection around it.                                               *)

LEMMA SentType ==
    ASSUME NEW a \in Seq(Frames), NEW b \in Seq(Frames)
    PROVE  a \o b \in Seq(Frames)
OBVIOUS

LEMMA RequestType ==
    ASSUME TypeOK, NEW kind \in Kinds,
           NEW type \in {"Subscribe", "Flow", "Seek", "Close"},
           Request(kind, type)
    PROVE  /\ nextReq \in Requests
           /\ nextReq' \in Requests \cup {MaxRequests + 1}
           /\ pending' \in [Requests -> Kinds]
           /\ outbound' \in Seq(Frames)
<1>1. nextReq \in Requests /\ nextReq' \in Requests \cup {MaxRequests + 1}
  BY RequestsAssumption DEF TypeOK, Request, Requests
<1>2. Frame(type, nextReq) \in Frames
  BY <1>1 DEF Frame, Frames, Requests
<1>3. QED
  BY <1>1, <1>2 DEF TypeOK, Request

LEMMA RequestAfterType ==
    ASSUME TypeOK, NEW r \in Requests, NEW kind \in Kinds,
           NEW type \in {"Subscribe", "Flow", "Seek", "Close"},
           RequestAfter(r, kind, type)
    PROVE  /\ nextReq \in Requests
           /\ nextReq' \in Requests \cup {MaxRequests + 1}
           /\ pending' \in [Requests -> Kinds]
           /\ outbound' \in Seq(Frames)
<1>1. nextReq \in Requests /\ nextReq' \in Requests \cup {MaxRequests + 1}
  BY RequestsAssumption DEF TypeOK, RequestAfter, Requests
<1>2. Frame(type, nextReq) \in Frames
  BY <1>1 DEF Frame, Frames, Requests
<1>3. pending' \in [Requests -> Kinds]
  BY <1>1 DEF TypeOK, RequestAfter, Kinds
<1>4. QED
  BY <1>1, <1>2, <1>3 DEF TypeOK, RequestAfter

LEMMA InitIInv == Init => IInv
<1> SUFFICES ASSUME Init PROVE IInv
  OBVIOUS
<1>1. FreshConsumer \in ConsumerState
  BY QueueAssumption DEF FreshConsumer, ConsumerState
<1>2. Good(FreshConsumer)
  BY <1>1, QueueAssumption DEF Good, Covered, FixedWindow, FreshConsumer
<1>3. 1 \in Requests /\ 2 \in Requests \cup {MaxRequests + 1}
  BY RequestsAssumption DEF Requests
<1>4. Good(c)
  BY <1>2, <1>3, NotifyWaiterGood DEF Init
<1>5. Frame("Subscribe", 1) \in Frames
  BY DEF Frame, Frames
<1>6. pending \in [Requests -> Kinds]
  BY DEF Init, Kinds
<1>7. QED
  BY <1>3, <1>4, <1>5, <1>6
     DEF IInv, TypeOK, Init, Good, ConnStates, Tasks

(* Frames. *)
LEMMA FrameSteps ==
    ASSUME IInv
    PROVE  /\ \A m \in Entries : HandleMessage(m) => IInv'
           /\ HandleMarker => IInv'
           /\ HandlePromoted => IInv'
           /\ HandleEndOfTopic => IInv'
           /\ \A moved \in BOOLEAN : HandleCloseConsumer(moved) => IInv'
<1>1. Good(c)
  BY DEF IInv
<1>2. ASSUME NEW m \in Entries, HandleMessage(m) PROVE IInv'
  <2>1. Good(Deliver(c, m))
    BY <1>1, DeliverGood
  <2>2. Good(c') /\ FlowSent(Deliver(c, m)) \in Seq(Frames)
    BY <1>2, <2>1, MaybeFlowGood DEF HandleMessage
  <2>3. QED
    BY <1>2, <2>2 DEF IInv, TypeOK, Good, HandleMessage
<1>3. ASSUME HandleMarker PROVE IInv'
  <2>1. Good(c')
    BY <1>1, <1>3, RefundAndChargeGood DEF HandleMarker
  <2>2. QED
    BY <1>3, <2>1 DEF IInv, TypeOK, Good, HandleMarker
<1>4. ASSUME HandlePromoted PROVE IInv'
  <2>1. \/ c' = ConnInitialFlow(c) /\ outbound' = outbound \o InitialFlowSent(c)
        \/ c' = c /\ outbound' = outbound
    BY <1>4 DEF HandlePromoted
  <2>2. Good(ConnInitialFlow(c)) /\ InitialFlowSent(c) \in Seq(Frames)
    BY <1>1, InitialFlowGood
  <2>3. Good(c')
    BY <1>1, <2>1, <2>2
  <2>4. outbound' \in Seq(Frames)
    <3>1. outbound \in Seq(Frames)
      BY DEF IInv, TypeOK
    <3>2. outbound \o InitialFlowSent(c) \in Seq(Frames)
      BY <2>2, <3>1, SentType
    <3>3. QED
      BY <2>1, <3>1, <3>2
  <2>5. QED
    BY <1>4, <2>3, <2>4 DEF IInv, TypeOK, Good, HandlePromoted
<1>5. ASSUME HandleEndOfTopic PROVE IInv'
  <2>1. c \in ConsumerState
    BY <1>1 DEF Good
  <2>2. c' \in ConsumerState
    BY <1>5, <2>1 DEF ConsumerState, HandleEndOfTopic
  <2>3. Good(c')
    BY <1>1, <1>5, <2>1, <2>2
       DEF ConsumerState, HandleEndOfTopic, Good, Covered, FixedWindow
  <2>4. QED
    BY <1>5, <2>3 DEF IInv, TypeOK, Good, HandleEndOfTopic
<1>6. ASSUME NEW moved \in BOOLEAN, HandleCloseConsumer(moved) PROVE IInv'
  <2>1. Good(ZeroPermits(c))
    BY <1>1, ZeroGood
  <2>2. CASE ~moved /\ ReattachEligible(c)
    <3>1. Request("subscribe", "Subscribe") /\ c' = ReleaseFlow(ZeroPermits(c), nextReq)
      BY <1>6, <2>2 DEF HandleCloseConsumer
    <3>2. /\ nextReq \in Requests
          /\ nextReq' \in Requests \cup {MaxRequests + 1}
          /\ pending' \in [Requests -> Kinds]
          /\ outbound' \in Seq(Frames)
      BY <3>1, RequestType DEF IInv, Kinds
    <3>3. Good(c')
      BY <2>1, <3>1, <3>2, ReleaseFlowGood
    <3>4. QED
      BY <1>6, <3>2, <3>3 DEF IInv, TypeOK, Good, HandleCloseConsumer
  <2>3. CASE ~(~moved /\ ReattachEligible(c))
    BY <1>6, <2>1, <2>3 DEF IInv, TypeOK, Good, HandleCloseConsumer
  <2>4. QED
    BY <2>2, <2>3
<1>7. QED
  BY <1>2, <1>3, <1>4, <1>5, <1>6

(* Answers to requests. *)
LEMMA AnswerSteps ==
    ASSUME IInv, NEW r \in Requests, Answer(r)
    PROVE  IInv'
<1>1. Good(c) /\ c \in ConsumerState
  BY DEF IInv, Good
<1>2. ASSUME HandleSubscribed(r) PROVE IInv'
  <2> DEFINE s == SubscribeAcked(c, r)
  <2>1. Good(s)
    BY <1>1, SubscribeAckedGood
  <2>2. \/ c' = ConnInitialFlow(s) /\ outbound' = outbound \o InitialFlowSent(s)
        \/ c' = s /\ outbound' = outbound
    BY <1>2 DEF HandleSubscribed
  <2> HIDE DEF s
  <2>3. Good(ConnInitialFlow(s)) /\ InitialFlowSent(s) \in Seq(Frames)
    BY <2>1, InitialFlowGood
  <2>4. Good(c')
    BY <2>1, <2>2, <2>3
  <2>5. outbound' \in Seq(Frames)
    <3>1. outbound \in Seq(Frames)
      BY DEF IInv, TypeOK
    <3>2. outbound \o InitialFlowSent(s) \in Seq(Frames)
      BY <2>3, <3>1, SentType
    <3>3. QED
      BY <2>2, <3>1, <3>2
  <2>6. pending' \in [Requests -> Kinds]
    BY <1>2 DEF IInv, TypeOK, HandleSubscribed, Kinds
  <2>7. QED
    BY <1>2, <2>4, <2>5, <2>6 DEF IInv, TypeOK, Good, HandleSubscribed
<1>3. ASSUME HandleSeekDone(r) PROVE IInv'
  <2>1. c' \in ConsumerState
    BY <1>1, <1>3 DEF ConsumerState, HandleSeekDone
  <2>2. Good(c')
    BY <1>1, <1>3, <2>1
       DEF ConsumerState, HandleSeekDone, Good, Covered, FixedWindow
  <2>3. pending' \in [Requests -> Kinds]
    BY <1>3 DEF IInv, TypeOK, HandleSeekDone, Kinds
  <2>4. QED
    BY <1>3, <2>2, <2>3 DEF IInv, TypeOK, Good, HandleSeekDone, Tasks
<1>4. ASSUME HandleReattachClosed(r) PROVE IInv'
  <2>1. Good(ZeroPermits(c))
    BY <1>1, ZeroGood
  <2>2. CASE ReattachEligible(c)
    <3>1. /\ RequestAfter(r, "subscribe", "Subscribe")
          /\ c' = ReleaseFlow(ZeroPermits(c), nextReq)
      BY <1>4, <2>2 DEF HandleReattachClosed
    <3>2. /\ nextReq \in Requests
          /\ nextReq' \in Requests \cup {MaxRequests + 1}
          /\ pending' \in [Requests -> Kinds]
          /\ outbound' \in Seq(Frames)
      BY <3>1, RequestAfterType DEF IInv, Kinds
    <3>3. Good(c')
      BY <2>1, <3>1, <3>2, ReleaseFlowGood
    <3>4. QED
      BY <1>4, <3>2, <3>3 DEF IInv, TypeOK, Good, HandleReattachClosed
  <2>3. CASE ~ReattachEligible(c)
    BY <1>4, <2>1, <2>3 DEF IInv, TypeOK, Good, HandleReattachClosed, Kinds
  <2>4. QED
    BY <2>2, <2>3
<1>5. ASSUME HandleOtherAnswer(r) PROVE IInv'
  BY <1>1, <1>5 DEF IInv, TypeOK, Good, HandleOtherAnswer, Kinds
<1>6. ASSUME HandleSeekRefused(r) PROVE IInv'
  BY <1>1, <1>6 DEF IInv, TypeOK, Good, HandleSeekRefused, Kinds, Tasks
<1>7. ASSUME NEW transient \in BOOLEAN, HandleSubscribeRefused(r, transient)
      PROVE  IInv'
  <2> DEFINE s == [c EXCEPT !.transient_subscribe_attempts = @ + 1]
             e == [FailConsumerSubscribe(c) EXCEPT !.closed = TRUE]
  <2>1. s \in ConsumerState
    BY <1>1 DEF ConsumerState
  <2>2. Good(s)
    BY <1>1, <2>1 DEF ConsumerState, Good, Covered, FixedWindow
  <2>3. Good(FailConsumerSubscribe(c))
    BY <1>1, FailGood
  <2>4. Good(e)
    BY <2>3, CloseGood
  <2>5. c' \in {c, s, e, FailConsumerSubscribe(c)}
    BY <1>7 DEF HandleSubscribeRefused
  <2>6. Good(c')
    BY <1>1, <2>2, <2>3, <2>4, <2>5
  <2>7. retry' \in {retry, r, NoReq} /\ recv' \in {recv, "ready"}
    BY <1>7 DEF HandleSubscribeRefused
  <2>8. pending' \in [Requests -> Kinds]
    BY <1>7 DEF IInv, TypeOK, HandleSubscribeRefused, Kinds
  <2>9. QED
    BY <1>7, <2>6, <2>7, <2>8 DEF IInv, TypeOK, Good, HandleSubscribeRefused
<1>8. QED
  BY <1>2, <1>3, <1>4, <1>5, <1>6, <1>7 DEF Answer

(* The application's calls and its futures. *)
LEMMA ApplicationSteps ==
    ASSUME IInv
    PROVE  /\ Receive => IInv'
           /\ Pause => IInv'
           /\ Resume => IInv'
           /\ ObserveSubscribed => IInv'
           /\ GrantInitialFlow => IInv'
           /\ Seek => IInv'
           /\ ResubscribeAfterSeek => IInv'
           /\ DropSeek => IInv'
           /\ ResubscribeInPlace => IInv'
           /\ CancelSubscribe => IInv'
           /\ Close => IInv'
<1>1. Good(c) /\ c \in ConsumerState
  BY DEF IInv, Good
<1>2. ASSUME Receive PROVE IInv'
  <2>1. Good(PopMessage(c))
    BY <1>1, PopGood
  <2>2. Good(c') /\ FlowSent(PopMessage(c)) \in Seq(Frames)
    BY <1>2, <2>1, MaybeFlowGood DEF Receive
  <2>3. QED
    BY <1>2, <2>2 DEF IInv, TypeOK, Good, Receive
<1>3. ASSUME Pause PROVE IInv'
  <2>1. c' \in ConsumerState
    BY <1>1, <1>3 DEF ConsumerState, Pause
  <2>2. Good(c')
    BY <1>1, <1>3, <2>1
       DEF ConsumerState, Pause, Good, Covered, FixedWindow
  <2>3. QED
    BY <1>3, <2>2 DEF IInv, TypeOK, Good, Pause, Tasks
<1>4. ASSUME Resume PROVE IInv'
  <2>1. c' \in ConsumerState
    BY <1>1, <1>4 DEF ConsumerState, Resume
  <2>2. Good(c')
    BY <1>1, <1>4, <2>1
       DEF ConsumerState, Resume, Good, Covered, FixedWindow
  <2>3. QED
    BY <1>4, <2>2 DEF IInv, TypeOK, Good, Resume, Tasks
<1>5. ASSUME ObserveSubscribed PROVE IInv'
  <2>1. c' \in ConsumerState
    BY <1>1, <1>5 DEF ConsumerState, ObserveSubscribed
  <2>2. Good(c')
    BY <1>1, <1>5, <2>1
       DEF ConsumerState, ObserveSubscribed, Good, Covered, FixedWindow
  <2>3. QED
    BY <1>5, <2>2 DEF IInv, TypeOK, Good, ObserveSubscribed, Tasks
<1>6. ASSUME GrantInitialFlow PROVE IInv'
  <2>1. Good(c') /\ InitialFlowSent(c) \in Seq(Frames)
    BY <1>1, <1>6, InitialFlowGood DEF GrantInitialFlow
  <2>2. QED
    BY <1>6, <2>1 DEF IInv, TypeOK, Good, GrantInitialFlow, Tasks
<1>7. ASSUME Seek PROVE IInv'
  <2>1. Request("seek", "Seek") /\ c' = BeginSeek(c, nextReq)
    BY <1>7 DEF Seek
  <2>2. /\ nextReq \in Requests
        /\ nextReq' \in Requests \cup {MaxRequests + 1}
        /\ pending' \in [Requests -> Kinds]
        /\ outbound' \in Seq(Frames)
    BY <2>1, RequestType DEF IInv, Kinds
  <2>3. Good(c')
    BY <1>1, <2>1, <2>2, EmptyGood DEF BeginSeek
  <2>4. QED
    BY <1>7, <2>2, <2>3 DEF IInv, TypeOK, Good, Seek, Tasks
<1>8. ASSUME ResubscribeAfterSeek PROVE IInv'
  <2>1. CASE IsTerminal(c)
    BY <1>1, <1>8, <2>1 DEF IInv, TypeOK, Good, ResubscribeAfterSeek, Tasks
  <2>2. CASE ~IsTerminal(c)
    <3>1. Request("subscribe", "Subscribe") /\ c' = NotifyWaiter(c, nextReq)
      BY <1>8, <2>2 DEF ResubscribeAfterSeek
    <3>2. /\ nextReq \in Requests
          /\ nextReq' \in Requests \cup {MaxRequests + 1}
          /\ pending' \in [Requests -> Kinds]
          /\ outbound' \in Seq(Frames)
      BY <3>1, RequestType DEF IInv, Kinds
    <3>3. Good(c')
      BY <1>1, <3>1, <3>2, NotifyWaiterGood
    <3>4. QED
      BY <1>8, <2>2, <3>2, <3>3 DEF IInv, TypeOK, Good, ResubscribeAfterSeek, Tasks
  <2>3. QED
    BY <2>1, <2>2
<1>9. ASSUME DropSeek PROVE IInv'
  BY <1>1, <1>9 DEF IInv, TypeOK, Good, DropSeek, Tasks
<1>10. ASSUME ResubscribeInPlace PROVE IInv'
  <2>1. Request("reattach", "Close")
    BY <1>10 DEF ResubscribeInPlace
  <2>2. /\ nextReq' \in Requests \cup {MaxRequests + 1}
        /\ pending' \in [Requests -> Kinds]
        /\ outbound' \in Seq(Frames)
    BY <2>1, RequestType DEF IInv, Kinds
  <2>3. QED
    BY <1>1, <1>10, <2>2 DEF IInv, TypeOK, Good, ResubscribeInPlace
<1>11. ASSUME CancelSubscribe PROVE IInv'
  <2>1. c' \in ConsumerState
    BY <1>1, <1>11 DEF ConsumerState, CancelSubscribe
  <2>2. Good(c')
    BY <1>1, <1>11, <2>1
       DEF ConsumerState, CancelSubscribe, Good, Covered, FixedWindow
  <2> DEFINE p == [r \in Requests |->
                     IF pending[r] = "subscribe" THEN "none" ELSE pending[r]]
  <2>3. p \in [Requests -> Kinds]
    BY DEF IInv, TypeOK, Kinds
  <2>4. \/ /\ nextReq <= MaxRequests
           /\ nextReq' = nextReq + 1
           /\ pending' = [p EXCEPT ![nextReq] = "close"]
           /\ outbound' = Append(outbound, Frame("Close", nextReq))
        \/ UNCHANGED <<nextReq, pending, outbound>>
    BY <1>11 DEF CancelSubscribe
  <2> HIDE DEF p
  <2>5. CASE UNCHANGED <<nextReq, pending, outbound>>
    BY <1>11, <2>2, <2>5 DEF IInv, TypeOK, Good, CancelSubscribe, Tasks
  <2>6. CASE /\ nextReq <= MaxRequests
             /\ nextReq' = nextReq + 1
             /\ pending' = [p EXCEPT ![nextReq] = "close"]
             /\ outbound' = Append(outbound, Frame("Close", nextReq))
    <3>1. nextReq \in Requests /\ nextReq' \in Requests \cup {MaxRequests + 1}
      BY <2>6, RequestsAssumption DEF IInv, TypeOK, Requests
    <3>2. Frame("Close", nextReq) \in Frames
      BY <3>1 DEF Frame, Frames, Requests
    <3>3. pending' \in [Requests -> Kinds]
      BY <2>3, <2>6, <3>1 DEF Kinds
    <3>4. outbound' \in Seq(Frames)
      BY <2>6, <3>2 DEF IInv, TypeOK
    <3>5. QED
      BY <1>11, <2>2, <3>1, <3>3, <3>4 DEF IInv, TypeOK, Good, CancelSubscribe, Tasks
  <2>7. QED
    BY <2>4, <2>5, <2>6
<1>12. ASSUME Close PROVE IInv'
  <2>1. Request("close", "Close") /\ c' = [c EXCEPT !.closed = TRUE]
    BY <1>12 DEF Close
  <2>2. /\ nextReq' \in Requests \cup {MaxRequests + 1}
        /\ pending' \in [Requests -> Kinds]
        /\ outbound' \in Seq(Frames)
    BY <2>1, RequestType DEF IInv, Kinds
  <2>3. Good(c')
    BY <1>1, <2>1, CloseGood
  <2>4. QED
    BY <1>12, <2>2, <2>3 DEF IInv, TypeOK, Good, Close
<1>13. QED
  BY <1>2, <1>3, <1>4, <1>5, <1>6, <1>7, <1>8, <1>9, <1>10, <1>11, <1>12

(* The waiter's flow is handed over to the ack, or staged at once. *)
LEMMA AbandonStep ==
    ASSUME IInv, AbandonWaiter
    PROVE  IInv'
<1> DEFINE f == IF c.subscribe_waiter_request # NoReq
                  THEN c.subscribe_waiter_request ELSE c.flow_on_subscribe_ack
           s == [c EXCEPT !.subscribe_waiter_id = NoReq,
                          !.subscribe_waiter_request = NoReq,
                          !.subscribe_waiter_completed = FALSE,
                          !.flow_on_subscribe_ack = f]
<1>1. Good(c) /\ c \in ConsumerState /\ outbound \in Seq(Frames)
  BY DEF IInv, TypeOK, Good
<1>2. f \in Requests \cup {NoReq}
  BY <1>1 DEF ConsumerState
<1>3. \/ c' = c /\ outbound' = outbound
      \/ c' = s /\ outbound' = outbound
      \/ c' = ConnInitialFlow(s) /\ outbound' = outbound \o InitialFlowSent(s)
  BY DEF AbandonWaiter
<1> HIDE DEF f
<1>4. s \in ConsumerState
  BY <1>1, <1>2 DEF ConsumerState
<1>5. Good(s)
  BY <1>1, <1>4 DEF ConsumerState, Good, Covered, FixedWindow
<1> HIDE DEF s
<1>6. Good(ConnInitialFlow(s)) /\ InitialFlowSent(s) \in Seq(Frames)
  BY <1>5, InitialFlowGood
<1>7. outbound \o InitialFlowSent(s) \in Seq(Frames)
  BY <1>1, <1>6, SentType
<1>8. Good(c') /\ outbound' \in Seq(Frames)
  BY <1>1, <1>3, <1>5, <1>6, <1>7
<1>9. QED
  BY <1>8 DEF IInv, TypeOK, Good, AbandonWaiter, Tasks

(* Timers, retries and the supervised reconnect. *)
LEMMA DriverSteps ==
    ASSUME IInv
    PROVE  /\ \A over \in BOOLEAN : AdjustTick(over) => IInv'
           /\ \A u \in Uuids : SweepExpiredChunks(u) => IInv'
           /\ RetrySubscribe => IInv'
           /\ Disconnect => IInv'
           /\ Reset => IInv'
           /\ Connected => IInv'
           /\ Rebuild => IInv'
           /\ PollTransmit => IInv'
<1>1. Good(c) /\ c \in ConsumerState /\ outbound \in Seq(Frames)
  BY DEF IInv, TypeOK, Good
<1>2. ASSUME NEW over \in BOOLEAN, AdjustTick(over) PROVE IInv'
  <2>1. AdjustDelta(c, over) \in Nat /\ Good(AdjustReceiverQueue(c, over))
    BY <1>1, AdjustGood
  <2>2. Frame("Flow", AdjustDelta(c, over)) \in Frames
    BY <2>1 DEF Frame, Frames
  <2>3. Append(outbound, Frame("Flow", AdjustDelta(c, over))) \in Seq(Frames)
    BY <1>1, <2>2
  <2>4. outbound' \in Seq(Frames)
    BY <1>1, <1>2, <2>3 DEF AdjustTick
  <2>5. QED
    BY <1>2, <2>1, <2>4 DEF IInv, TypeOK, Good, AdjustTick
<1>3. ASSUME NEW u \in Uuids, SweepExpiredChunks(u) PROVE IInv'
  <2> DEFINE k == c.chunk_reassembly \ {u}
  <2>1. k \in SUBSET Uuids
    BY <1>1 DEF ConsumerState
  <2>2. c' = [c EXCEPT !.chunk_reassembly = k]
    BY <1>3 DEF SweepExpiredChunks
  <2> HIDE DEF k
  <2>3. Good(c')
    BY <1>1, <2>1, <2>2, ChunkGood
  <2>4. QED
    BY <1>3, <2>3 DEF IInv, TypeOK, Good, SweepExpiredChunks
<1>4. ASSUME RetrySubscribe PROVE IInv'
  <2>1. CASE RetryIsCurrent(c, retry)
    <3>1. Request("subscribe", "Subscribe") /\ c' = ReleaseFlow(c, nextReq)
      BY <1>4, <2>1 DEF RetrySubscribe
    <3>2. /\ nextReq \in Requests
          /\ nextReq' \in Requests \cup {MaxRequests + 1}
          /\ pending' \in [Requests -> Kinds]
          /\ outbound' \in Seq(Frames)
      BY <3>1, RequestType DEF IInv, Kinds
    <3>3. Good(c')
      BY <1>1, <3>1, <3>2, ReleaseFlowGood
    <3>4. QED
      BY <1>4, <3>2, <3>3 DEF IInv, TypeOK, Good, RetrySubscribe
  <2>2. CASE ~RetryIsCurrent(c, retry)
    BY <1>1, <1>4, <2>2 DEF IInv, TypeOK, Good, RetrySubscribe
  <2>3. QED
    BY <2>1, <2>2
<1>5. ASSUME Disconnect PROVE IInv'
  BY <1>1, <1>5 DEF IInv, TypeOK, Good, Disconnect, ConnStates
<1>6. ASSUME Reset PROVE IInv'
  <2>1. Good(c')
    BY <1>1, <1>6, ResetGood DEF Reset
  <2>2. pending' \in [Requests -> Kinds]
    BY <1>6 DEF Reset, Kinds
  <2>3. QED
    BY <1>6, <2>1, <2>2 DEF IInv, TypeOK, Good, Reset, ConnStates, Tasks
<1>7. ASSUME Connected PROVE IInv'
  BY <1>1, <1>7 DEF IInv, TypeOK, Good, Connected, ConnStates
<1>8. ASSUME Rebuild PROVE IInv'
  <2>1. CASE IsTerminal(c)
    BY <1>1, <1>8, <2>1 DEF IInv, TypeOK, Good, Rebuild, ConnStates
  <2>2. CASE ~IsTerminal(c)
    <3>1. Request("subscribe", "Subscribe") /\ c' = ReleaseFlow(c, nextReq)
      BY <1>8, <2>2 DEF Rebuild
    <3>2. /\ nextReq \in Requests
          /\ nextReq' \in Requests \cup {MaxRequests + 1}
          /\ pending' \in [Requests -> Kinds]
          /\ outbound' \in Seq(Frames)
      BY <3>1, RequestType DEF IInv, Kinds
    <3>3. Good(c')
      BY <1>1, <3>1, <3>2, ReleaseFlowGood
    <3>4. QED
      BY <1>8, <3>2, <3>3 DEF IInv, TypeOK, Good, Rebuild, ConnStates
  <2>3. QED
    BY <2>1, <2>2
<1>9. ASSUME PollTransmit PROVE IInv'
  <2>1. outbound' \in Seq(Frames)
    BY <1>1, <1>9 DEF PollTransmit
  <2>2. QED
    BY <1>1, <1>9, <2>1 DEF IInv, TypeOK, Good, PollTransmit
<1>10. QED
  BY <1>2, <1>3, <1>4, <1>5, <1>6, <1>7, <1>8, <1>9

-----------------------------------------------------------------------------
LEMMA NextIInv == IInv /\ [Next]_cvars => IInv'
<1> SUFFICES ASSUME IInv, [Next]_cvars PROVE IInv'
  OBVIOUS
<1>1. CASE Next
  BY <1>1, FrameSteps, AnswerSteps, ApplicationSteps, AbandonStep, DriverSteps
     DEF Next
<1>2. CASE UNCHANGED cvars
  BY <1>2 DEF cvars, IInv, TypeOK, Good, Covered, FixedWindow
<1>3. QED
  BY <1>1, <1>2

(* Every reachable state of the consumer, its connection and its tasks is  *)
(* well typed: in particular the permit balance never goes negative, so    *)
(* the u32 of consumer.rs never wraps, for every queue size, batch size    *)
(* and number of chunked messages.                                         *)
THEOREM TypeTheorem == Spec => []TypeOK
<1>1. IInv => TypeOK
  BY DEF IInv
<1>2. QED
  BY <1>1, InitIInv, NextIInv, PTL DEF Spec

(* The ledger covers the granted window in every reachable state: no path  *)
(* of deliver, pop_message, maybe_flow, initial_flow, the auto-adjust tick *)
(* or a churn boundary of conn.rs loses a permit.                          *)
THEOREM WindowTheorem == Spec => []WindowCovered
<1>1. IInv => WindowCovered
  BY DEF IInv, Good, Covered, WindowCovered
<1>2. QED
  BY <1>1, InitIInv, NextIInv, PTL DEF Spec

(* A consumer with a fixed receiver queue that holds a window is never in  *)
(* the state is_flow_starved describes.                                    *)
THEOREM StarvationTheorem == Spec => []NeverSelfStarved
<1>1. IInv => NeverSelfStarved
  <2> SUFFICES ASSUME IInv, ~AutoPolicy, c.window > 0, IsFlowStarved(c)
               PROVE  FALSE
    BY DEF NeverSelfStarved
  <2>1. c \in ConsumerState /\ Covered(c) /\ FixedWindow(c)
    BY DEF IInv, Good
  <2>2. /\ c.permit_balance \in Nat
        /\ c.consumed_since_flow \in Nat
        /\ c.queue \in Nat
        /\ c.window \in Nat
    BY <2>1 DEF ConsumerState
  <2>3. c.receiver_queue_size = ReceiverQueue /\ c.window = ReceiverQueue
    BY <2>1, <2>2 DEF FixedWindow
  <2>4. ReceiverQueue <= c.consumed_since_flow + c.queue
    BY <2>1, <2>2, <2>3 DEF Covered, IsFlowStarved
  <2>5. FlowThreshold(c) <= ReceiverQueue
    BY <2>3, QueueAssumption DEF FlowThreshold, Max2
  <2>6. c.consumed_since_flow + c.queue < FlowThreshold(c)
    BY DEF IsFlowStarved
  <2>7. FlowThreshold(c) \in Nat
    BY <2>3, QueueAssumption DEF FlowThreshold, Max2
  <2>8. QED
    BY <2>2, <2>4, <2>5, <2>6, <2>7, QueueAssumption
<1>2. QED
  BY <1>1, InitIInv, NextIInv, PTL DEF Spec

-----------------------------------------------------------------------------
(* Who owes the initial flow.                                              *)

Waiting == {"opening", "resubscribing"}

(* A waiter is a task that awaits it, and takes the flow from the ack. *)
WaiterWatched ==
    /\ c.subscribe_waiter_id # NoReq => c.flow_on_subscribe_ack = NoReq
    /\ c.subscribe_waiter_id # NoReq /\ ~IsTerminal(c) =>
         task \in Waiting /\ taskReq = c.subscribe_waiter_id
    /\ task \in Waiting => taskReq # NoReq

(* Request ids are not reused, and a retry is of an answered request. *)
RequestsFresh ==
    /\ \A r \in Requests : pending[r] # "none" => r < nextReq
    /\ retry # NoReq => retry < nextReq /\ pending[retry] = "none"

OwnInv == IInv /\ WaiterWatched /\ RequestsFresh /\ OwedGrantHasOwner

(* t is s as far as the attach protocol can tell. *)
SameAttach(s, t) ==
    /\ t.closed = s.closed
    /\ t.terminal_failure = s.terminal_failure
    /\ t.subscribe_waiter_id = s.subscribe_waiter_id
    /\ t.subscribe_waiter_request = s.subscribe_waiter_request
    /\ t.subscribe_waiter_completed = s.subscribe_waiter_completed
    /\ t.flow_on_subscribe_ack = s.flow_on_subscribe_ack
    /\ t.initial_grant_due => s.initial_grant_due

LEMMA SameAttachTrans ==
    ASSUME NEW s, NEW t, NEW u, SameAttach(s, t), SameAttach(t, u)
    PROVE  SameAttach(s, u)
BY DEF SameAttach

LEMMA LedgerKeepsAttach ==
    ASSUME NEW s \in ConsumerState, NEW n
    PROVE  /\ SameAttach(s, RecordDispatchUnit(s, n))
           /\ SameAttach(s, RecordBrokerPermitConsumed(s, n))
           /\ SameAttach(s, [s EXCEPT !.queue = n])
           /\ SameAttach(s, [s EXCEPT !.pending_seek = n])
           /\ SameAttach(s, [s EXCEPT !.chunk_reassembly = n])
           /\ SameAttach(s, [s EXCEPT !.paused = n])
           /\ SameAttach(s, [s EXCEPT !.reached_end_of_topic = n])
           /\ SameAttach(s, [s EXCEPT !.transient_subscribe_attempts = n])
           /\ SameAttach(s, ZeroPermits(s))
           /\ SameAttach(s, BeginSeek(s, n))
           /\ SameAttach(s, MaybeFlow(s))
           /\ SameAttach(s, ConnInitialFlow(s))
           /\ s.initial_grant_due => ~ConnInitialFlow(s).initial_grant_due
<1>1. SameAttach(s, RecordDispatchUnit(s, n))
  BY DEF SameAttach, ConsumerState, RecordDispatchUnit
<1>2. SameAttach(s, RecordBrokerPermitConsumed(s, n))
  BY DEF SameAttach, ConsumerState, RecordBrokerPermitConsumed
<1>3. /\ SameAttach(s, [s EXCEPT !.queue = n])
      /\ SameAttach(s, [s EXCEPT !.pending_seek = n])
      /\ SameAttach(s, [s EXCEPT !.chunk_reassembly = n])
  BY DEF SameAttach, ConsumerState
<1>4. /\ SameAttach(s, [s EXCEPT !.paused = n])
      /\ SameAttach(s, [s EXCEPT !.reached_end_of_topic = n])
      /\ SameAttach(s, [s EXCEPT !.transient_subscribe_attempts = n])
  BY DEF SameAttach, ConsumerState
<1>5. SameAttach(s, ZeroPermits(s))
  BY DEF SameAttach, ConsumerState, ZeroPermits
<1>6. SameAttach(s, BeginSeek(s, n))
  BY DEF SameAttach, ConsumerState, ZeroPermits, BeginSeek
<1>7. SameAttach(s, MaybeFlow(s))
  BY DEF SameAttach, ConsumerState, MaybeFlow
<1>8. SameAttach(s, InitialFlow(s)) /\ ~InitialFlow(s).initial_grant_due
  BY DEF SameAttach, ConsumerState, InitialFlow
<1>9. /\ SameAttach(s, ConnInitialFlow(s))
      /\ s.initial_grant_due => ~ConnInitialFlow(s).initial_grant_due
  BY <1>8 DEF ConnInitialFlow, GrantDue, SameAttach
<1>10. QED
  BY <1>1, <1>2, <1>3, <1>4, <1>5, <1>6, <1>7, <1>9

(* Nothing of the attach protocol moves. *)
LEMMA AttachIdle ==
    ASSUME OwnInv, IInv', SameAttach(c, c'),
           UNCHANGED <<conn, nextReq, pending, retry, task, taskReq>>
    PROVE  OwnInv'
BY DEF OwnInv, SameAttach, WaiterWatched, RequestsFresh, OwedGrantHasOwner,
       IsTerminal, RetryIsCurrent

(* A re-subscribe with ReleaseFlow finds its owner. *)
LEMMA ReleaseOwned ==
    ASSUME OwnInv, IInv',
           NEW s \in ConsumerState, SameAttach(c, s),
           nextReq \in Requests, nextReq' = nextReq + 1,
           pending'[nextReq] = "subscribe",
           \A r \in Requests \ {nextReq} : pending'[r] \in {pending[r], "none"},
           c' = ReleaseFlow(s, nextReq),
           retry' \in {retry, NoReq},
           UNCHANGED <<task, taskReq>>
    PROVE  OwnInv'
<1>1. nextReq # NoReq
  BY DEF Requests, NoReq
<1>2. WaiterWatched'
  BY DEF OwnInv, SameAttach, WaiterWatched, ReleaseFlow, IsTerminal, ConsumerState
<1>3. RequestsFresh'
  <2>1. nextReq \in Nat
    BY DEF Requests
  <2>2. QED
    BY <2>1 DEF OwnInv, RequestsFresh, IInv, TypeOK, Requests, NoReq
<1>4. OwedGrantHasOwner'
  <2>1. CASE s.subscribe_waiter_id # NoReq
    <3>1. c'.subscribe_waiter_id # NoReq /\ c'.subscribe_waiter_request = nextReq
      BY <2>1 DEF ReleaseFlow, ConsumerState
    <3>2. QED
      BY <1>1, <1>2, <3>1 DEF WaiterWatched, OwedGrantHasOwner, Waiting
  <2>2. CASE s.subscribe_waiter_id = NoReq
    <3>1. c'.flow_on_subscribe_ack = nextReq
      BY <2>2 DEF ReleaseFlow, ConsumerState
    <3>2. QED
      BY <1>1, <3>1 DEF OwedGrantHasOwner
  <2>3. QED
    BY <2>1, <2>2
<1>5. QED
  BY <1>2, <1>3, <1>4 DEF OwnInv

(* A request of another kind, or an answer that is not a subscribe's,      *)
(* leaves the owner in place.                                              *)
LEMMA OtherRequest ==
    ASSUME OwnInv, IInv', SameAttach(c, c'),
           nextReq' \in {nextReq, nextReq + 1},
           \A r \in Requests : \/ pending'[r] = pending[r]
                               \/ pending'[r] = "none" /\ pending[r] # "subscribe"
                               \/ r = nextReq /\ nextReq' = nextReq + 1,
           task' = task \/ (task \notin Waiting \cup {"opened", "granting"} /\ task' \notin Waiting),
           task \in Waiting => taskReq' = taskReq,
           UNCHANGED <<conn, retry>>
    PROVE  OwnInv'
<1>1. nextReq \in Nat
  BY RequestsAssumption DEF OwnInv, IInv, TypeOK, Requests
<1>2. WaiterWatched'
  BY DEF OwnInv, SameAttach, WaiterWatched, IsTerminal
<1>3. RequestsFresh'
  BY <1>1 DEF OwnInv, RequestsFresh, IInv, TypeOK, Requests, NoReq
<1>4. \A r \in Requests : pending[r] = "subscribe" => pending'[r] = "subscribe"
  BY <1>1 DEF OwnInv, RequestsFresh, Requests
<1>5. c \in ConsumerState
  BY DEF OwnInv, IInv, Good
<1>6. OwedGrantHasOwner'
  <2>1. SUFFICES ASSUME conn = "connected", ~IsTerminal(c), c.initial_grant_due
                 PROVE  OwedGrantHasOwner'
    BY DEF OwedGrantHasOwner, SameAttach, IsTerminal
  <2>2. c.flow_on_subscribe_ack \in Requests \cup {NoReq} /\ c.subscribe_waiter_request \in Requests \cup {NoReq}
    BY <1>5 DEF ConsumerState
  <2>3. CASE c.flow_on_subscribe_ack # NoReq /\ pending[c.flow_on_subscribe_ack] = "subscribe"
    BY <1>4, <2>2, <2>3 DEF OwedGrantHasOwner, SameAttach
  <2>4. CASE /\ task \in Waiting
             /\ taskReq = c.subscribe_waiter_id
             /\ \/ c.subscribe_waiter_completed
                \/ c.subscribe_waiter_request # NoReq
                     /\ pending[c.subscribe_waiter_request] = "subscribe"
    BY <1>4, <2>2, <2>4 DEF OwedGrantHasOwner, SameAttach, Waiting
  <2>5. CASE task \in {"opened", "granting"}
    BY <2>5 DEF OwedGrantHasOwner
  <2>6. CASE retry # NoReq /\ RetryIsCurrent(c, retry)
    BY <2>6 DEF OwedGrantHasOwner, SameAttach, RetryIsCurrent, IsTerminal
  <2>7. QED
    BY <2>1, <2>3, <2>4, <2>5, <2>6 DEF OwnInv, OwedGrantHasOwner, Waiting
<1>7. QED
  BY <1>2, <1>3, <1>6 DEF OwnInv

LEMMA FrameOwned ==
    ASSUME OwnInv, IInv'
    PROVE  /\ \A m \in Entries : HandleMessage(m) => OwnInv'
           /\ HandleMarker => OwnInv'
           /\ \A moved \in BOOLEAN : HandleCloseConsumer(moved) => OwnInv'
           /\ HandlePromoted => OwnInv'
           /\ HandleEndOfTopic => OwnInv'
<1>1. Good(c) /\ c \in ConsumerState
  BY DEF OwnInv, IInv, Good
<1>2. ASSUME NEW m \in Entries, HandleMessage(m) PROVE OwnInv'
  <2>1. Good(Deliver(c, m))
    BY <1>1, DeliverGood
  <2>2. SameAttach(c, Deliver(c, m))
    <3> DEFINE s == RecordDispatchUnit(c, 1)
               t == RecordDispatchUnit(c, m.n)
    <3>1. m.n \in Nat
      BY BatchAssumption DEF Entries, Units
    <3>2. s \in ConsumerState /\ t \in ConsumerState
      BY <1>1, <3>1, ChargeType
    <3>3. SameAttach(c, s) /\ SameAttach(c, t) /\ SameAttach(c, c)
      BY <1>1, LedgerKeepsAttach DEF SameAttach
    <3> HIDE DEF s, t
    <3>4. /\ SameAttach(s, RecordBrokerPermitConsumed(s, 1))
          /\ SameAttach(t, RecordBrokerPermitConsumed(t, m.n))
          /\ SameAttach(t, [t EXCEPT !.queue = @ + m.n])
      BY <3>2, LedgerKeepsAttach
    <3>5. SameAttach(s, [RecordBrokerPermitConsumed(s, 1)
                           EXCEPT !.chunk_reassembly = @ \cup {m.uuid}])
      BY <3>2 DEF SameAttach, ConsumerState, RecordBrokerPermitConsumed
    <3>6. SameAttach(s, [s EXCEPT !.chunk_reassembly = @ \ {m.uuid}, !.queue = @ + 1])
      BY <3>2 DEF SameAttach, ConsumerState
    <3>7. QED
      BY <3>3, <3>4, <3>5, <3>6, SameAttachTrans DEF Deliver, s, t
  <2>3. SameAttach(Deliver(c, m), c')
    BY <1>2, <2>1, LedgerKeepsAttach DEF HandleMessage, Good
  <2>4. SameAttach(c, c')
    BY <2>2, <2>3, SameAttachTrans
  <2>5. QED
    BY <1>2, <2>4, AttachIdle DEF HandleMessage
<1>3. ASSUME HandleMarker PROVE OwnInv'
  <2> DEFINE s == RecordBrokerPermitConsumed(c, 1)
  <2>1. s \in ConsumerState /\ SameAttach(c, s)
    BY <1>1, RefundType, LedgerKeepsAttach
  <2>2. SameAttach(s, RecordDispatchUnit(s, 1))
    BY <2>1, LedgerKeepsAttach
  <2>3. SameAttach(c, c')
    BY <1>3, <2>1, <2>2, SameAttachTrans DEF HandleMarker
  <2>4. QED
    BY <1>3, <2>3, AttachIdle DEF HandleMarker
<1>4. ASSUME NEW moved \in BOOLEAN, HandleCloseConsumer(moved) PROVE OwnInv'
  <2>1. SameAttach(c, ZeroPermits(c)) /\ Good(ZeroPermits(c))
    BY <1>1, LedgerKeepsAttach, ZeroGood
  <2>2. CASE ~moved /\ ReattachEligible(c)
    <3>1. Request("subscribe", "Subscribe") /\ c' = ReleaseFlow(ZeroPermits(c), nextReq)
      BY <1>4, <2>2 DEF HandleCloseConsumer
    <3>2. nextReq \in Requests /\ pending \in [Requests -> Kinds]
      BY <3>1, RequestType DEF OwnInv, IInv, TypeOK, Kinds
    <3>3. QED
      BY <1>4, <2>1, <3>1, <3>2, ReleaseOwned DEF HandleCloseConsumer, Request, Good
  <2>3. CASE ~(~moved /\ ReattachEligible(c))
    BY <1>4, <2>1, <2>3, AttachIdle DEF HandleCloseConsumer
  <2>4. QED
    BY <2>2, <2>3
<1>5. ASSUME HandlePromoted PROVE OwnInv'
  <2>1. SameAttach(c, ConnInitialFlow(c)) /\ SameAttach(c, c)
    BY <1>1, LedgerKeepsAttach DEF SameAttach
  <2>2. QED
    BY <1>5, <2>1, AttachIdle DEF HandlePromoted
<1>6. ASSUME HandleEndOfTopic PROVE OwnInv'
  <2>1. SameAttach(c, c')
    BY <1>1, <1>6, LedgerKeepsAttach DEF HandleEndOfTopic
  <2>2. QED
    BY <1>6, <2>1, AttachIdle DEF HandleEndOfTopic
<1>7. QED
  BY <1>2, <1>3, <1>4, <1>5, <1>6

LEMMA AnswerOwned ==
    ASSUME OwnInv, IInv', NEW r \in Requests, Answer(r)
    PROVE  OwnInv'
<1>1. Good(c) /\ c \in ConsumerState /\ pending \in [Requests -> Kinds]
  BY DEF OwnInv, IInv, Good, TypeOK
<1>r. r # NoReq
  BY DEF Requests, NoReq
<1>2. ASSUME HandleSubscribed(r) PROVE OwnInv'
  <2> DEFINE s == SubscribeAcked(c, r)
  <2>1. /\ s.closed = c.closed
        /\ s.terminal_failure = c.terminal_failure
        /\ s.initial_grant_due = c.initial_grant_due
        /\ s.subscribe_waiter_id = c.subscribe_waiter_id
        /\ c.subscribe_waiter_request = r => s.subscribe_waiter_completed
        /\ c.subscribe_waiter_request # r =>
             /\ s.subscribe_waiter_completed = c.subscribe_waiter_completed
             /\ s.subscribe_waiter_request = c.subscribe_waiter_request
        /\ s.flow_on_subscribe_ack =
             IF c.flow_on_subscribe_ack = r THEN NoReq ELSE c.flow_on_subscribe_ack
    BY <1>1 DEF SubscribeAcked, ConsumerState
  <2>2. s \in ConsumerState
    BY <1>1, SubscribeAckedGood DEF Good
  <2> HIDE DEF s
  <2>3. /\ SameAttach(s, c')
        /\ c.flow_on_subscribe_ack = r /\ s.initial_grant_due => ~c'.initial_grant_due
    BY <1>2, <2>2, LedgerKeepsAttach DEF HandleSubscribed, SameAttach, s
  <2>4. /\ pending' = [pending EXCEPT ![r] = "none"]
        /\ pending[r] = "subscribe"
        /\ UNCHANGED <<conn, nextReq, retry, task, taskReq>>
    BY <1>2 DEF HandleSubscribed
  <2>5. WaiterWatched'
    BY <2>1, <2>3, <2>4 DEF OwnInv, WaiterWatched, SameAttach, IsTerminal
  <2>6. RequestsFresh'
    BY <1>1, <2>4 DEF OwnInv, IInv, TypeOK, RequestsFresh
  <2>7. OwedGrantHasOwner'
    <3>1. SUFFICES ASSUME conn = "connected", ~IsTerminal(c), c.initial_grant_due,
                          c.flow_on_subscribe_ack # r
                   PROVE  OwedGrantHasOwner'
      BY <2>1, <2>3, <2>4 DEF OwedGrantHasOwner, SameAttach, IsTerminal
    <3>2. retry # r
      BY <1>1, <1>r, <2>4 DEF OwnInv, RequestsFresh
    <3>3. /\ c.flow_on_subscribe_ack \in Requests \cup {NoReq}
          /\ c.subscribe_waiter_request \in Requests \cup {NoReq}
      BY <1>1 DEF ConsumerState
    <3>4. c'.flow_on_subscribe_ack = c.flow_on_subscribe_ack
      BY <2>1, <2>3, <3>1 DEF SameAttach
    <3>5. CASE c.flow_on_subscribe_ack # NoReq
               /\ pending[c.flow_on_subscribe_ack] = "subscribe"
      BY <1>1, <2>4, <3>1, <3>3, <3>4, <3>5 DEF OwedGrantHasOwner
    <3>6. CASE /\ task \in Waiting
               /\ taskReq = c.subscribe_waiter_id
               /\ \/ c.subscribe_waiter_completed
                  \/ c.subscribe_waiter_request # NoReq
                       /\ pending[c.subscribe_waiter_request] = "subscribe"
      <4>1. \/ c'.subscribe_waiter_completed
            \/ /\ c'.subscribe_waiter_request # NoReq
               /\ pending'[c'.subscribe_waiter_request] = "subscribe"
        <5>1. CASE c.subscribe_waiter_request = r
          BY <2>1, <2>3, <5>1 DEF SameAttach
        <5>2. CASE c.subscribe_waiter_request # r
          BY <1>1, <2>1, <2>3, <2>4, <3>3, <3>6, <5>2 DEF SameAttach
        <5>3. QED
          BY <5>1, <5>2
      <4>2. QED
        BY <2>1, <2>3, <2>4, <3>6, <4>1 DEF OwedGrantHasOwner, SameAttach, Waiting
    <3>7. CASE task \in {"opened", "granting"}
      BY <2>4, <3>7 DEF OwedGrantHasOwner
    <3>8. CASE retry # NoReq /\ RetryIsCurrent(c, retry)
      BY <2>1, <2>3, <2>4, <3>2, <3>4, <3>8
         DEF OwedGrantHasOwner, RetryIsCurrent, SameAttach, IsTerminal
    <3>9. QED
      BY <3>1, <3>5, <3>6, <3>7, <3>8 DEF OwnInv, OwedGrantHasOwner, Waiting
  <2>8. QED
    BY <2>5, <2>6, <2>7 DEF OwnInv
<1>3. ASSUME HandleSeekDone(r) PROVE OwnInv'
  <2>1. SameAttach(c, c')
    BY <1>1, <1>3, LedgerKeepsAttach DEF HandleSeekDone
  <2>2. QED
    BY <1>1, <1>3, <2>1, OtherRequest DEF HandleSeekDone, Waiting
<1>4. ASSUME HandleReattachClosed(r) PROVE OwnInv'
  <2>1. SameAttach(c, ZeroPermits(c)) /\ Good(ZeroPermits(c))
    BY <1>1, LedgerKeepsAttach, ZeroGood
  <2>2. CASE ReattachEligible(c)
    <3>1. RequestAfter(r, "subscribe", "Subscribe") /\ c' = ReleaseFlow(ZeroPermits(c), nextReq)
      BY <1>4, <2>2 DEF HandleReattachClosed
    <3>2. nextReq \in Requests
      BY <3>1, RequestsAssumption DEF OwnInv, IInv, TypeOK, RequestAfter, Requests
    <3>3. nextReq' = nextReq + 1 /\ pending' = [pending EXCEPT ![r] = "none", ![nextReq] = "subscribe"]
      BY <3>1 DEF RequestAfter
    <3>4. pending'[nextReq] = "subscribe" /\ \A q \in Requests \ {nextReq} : pending'[q] \in {pending[q], "none"}
      BY <1>1, <3>2, <3>3
    <3>5. QED
      BY <1>4, <2>1, <3>1, <3>2, <3>3, <3>4, ReleaseOwned DEF HandleReattachClosed, Good
  <2>3. CASE ~ReattachEligible(c)
    BY <1>1, <1>4, <2>1, <2>3, OtherRequest DEF HandleReattachClosed
  <2>4. QED
    BY <2>2, <2>3
<1>5. ASSUME HandleOtherAnswer(r) PROVE OwnInv'
  <2>1. SameAttach(c, c')
    BY <1>5 DEF HandleOtherAnswer, SameAttach
  <2>2. QED
    BY <1>1, <1>5, <2>1, OtherRequest DEF HandleOtherAnswer
<1>6. ASSUME HandleSeekRefused(r) PROVE OwnInv'
  <2>1. SameAttach(c, c')
    BY <1>6 DEF HandleSeekRefused, SameAttach
  <2>2. QED
    BY <1>1, <1>6, <2>1, OtherRequest DEF HandleSeekRefused, Waiting
<1>7. ASSUME NEW transient \in BOOLEAN, HandleSubscribeRefused(r, transient)
      PROVE  OwnInv'
  <2>1. /\ pending' = [pending EXCEPT ![r] = "none"]
        /\ pending[r] = "subscribe"
        /\ UNCHANGED <<conn, nextReq, task, taskReq>>
    BY <1>7 DEF HandleSubscribeRefused
  <2>2. r < nextReq
    BY <2>1 DEF OwnInv, RequestsFresh
  <2>3. /\ c'.subscribe_waiter_id = c.subscribe_waiter_id
        /\ c'.subscribe_waiter_request = c.subscribe_waiter_request
        /\ c'.subscribe_waiter_completed = c.subscribe_waiter_completed
        /\ c'.flow_on_subscribe_ack = c.flow_on_subscribe_ack
        /\ c'.initial_grant_due = c.initial_grant_due
        /\ IsTerminal(c) => IsTerminal(c')
    BY <1>1, <1>7
       DEF HandleSubscribeRefused, FailConsumerSubscribe, ConsumerState, IsTerminal
  <2>4. retry' \in {retry, r, NoReq}
    BY <1>7 DEF HandleSubscribeRefused
  <2>5. WaiterWatched'
    BY <2>1, <2>3 DEF OwnInv, WaiterWatched
  <2>6. RequestsFresh'
    BY <1>1, <2>1, <2>2, <2>4 DEF OwnInv, IInv, TypeOK, RequestsFresh
  <2>7. OwedGrantHasOwner'
    <3>1. CASE c.subscribe_waiter_request # r /\ c.flow_on_subscribe_ack # r
      <4>1. c' = c /\ retry' = retry
        BY <1>7, <3>1 DEF HandleSubscribeRefused
      <4>2. /\ c.flow_on_subscribe_ack \in Requests \cup {NoReq}
            /\ c.subscribe_waiter_request \in Requests \cup {NoReq}
        BY <1>1 DEF ConsumerState
      <4>3. /\ c.flow_on_subscribe_ack # NoReq =>
                 pending'[c.flow_on_subscribe_ack] = pending[c.flow_on_subscribe_ack]
            /\ c.subscribe_waiter_request # NoReq =>
                 pending'[c.subscribe_waiter_request] = pending[c.subscribe_waiter_request]
        BY <1>1, <2>1, <3>1, <4>2
      <4>4. QED
        BY <2>1, <4>1, <4>3 DEF OwnInv, OwedGrantHasOwner, RetryIsCurrent
    <3>2. CASE IsTerminal(c')
      BY <3>2 DEF OwedGrantHasOwner
    <3>3. CASE /\ ~(c.subscribe_waiter_request # r /\ c.flow_on_subscribe_ack # r)
               /\ ~IsTerminal(c')
      <4>1. c.has_ever_attached /\ transient /\ c.transient_subscribe_attempts < MaxAttempts
        BY <1>1, <1>7, <3>3
           DEF HandleSubscribeRefused, FailConsumerSubscribe, ConsumerState, IsTerminal
      <4>2. retry' = r
        BY <1>7, <3>3, <4>1 DEF HandleSubscribeRefused
      <4>3. RetryIsCurrent(c', r)
        BY <2>3, <3>3 DEF RetryIsCurrent
      <4>4. QED
        BY <1>r, <4>2, <4>3 DEF OwedGrantHasOwner, RetryIsCurrent, IsTerminal
    <3>4. QED
      BY <3>1, <3>2, <3>3
  <2>8. QED
    BY <2>5, <2>6, <2>7 DEF OwnInv
<1>8. QED
  BY <1>2, <1>3, <1>4, <1>5, <1>6, <1>7 DEF Answer

(* The application's calls and its futures. *)
LEMMA ApplicationOwned ==
    ASSUME OwnInv, IInv'
    PROVE  /\ Receive => OwnInv'
           /\ Pause => OwnInv'
           /\ Resume => OwnInv'
           /\ ObserveSubscribed => OwnInv'
           /\ GrantInitialFlow => OwnInv'
           /\ Seek => OwnInv'
           /\ ResubscribeAfterSeek => OwnInv'
           /\ DropSeek => OwnInv'
           /\ ResubscribeInPlace => OwnInv'
           /\ CancelSubscribe => OwnInv'
           /\ Close => OwnInv'
<1>1. Good(c) /\ c \in ConsumerState /\ pending \in [Requests -> Kinds]
  BY DEF OwnInv, IInv, Good, TypeOK
<1>2. ASSUME Receive PROVE OwnInv'
  <2>1. SameAttach(c, PopMessage(c))
    BY <1>1 DEF SameAttach, ConsumerState, PopMessage, RecordBrokerPermitConsumed
  <2>2. SameAttach(PopMessage(c), MaybeFlow(PopMessage(c)))
    BY <1>1, PopGood, LedgerKeepsAttach DEF Good
  <2>3. SameAttach(c, c')
    BY <1>2, <2>1, <2>2, SameAttachTrans DEF Receive
  <2>4. QED
    BY <1>2, <2>3, AttachIdle DEF Receive
<1>3. ASSUME Pause \/ Resume PROVE OwnInv'
  <2>1. SameAttach(c, c')
    BY <1>1, <1>3, LedgerKeepsAttach DEF Pause, Resume
  <2>2. QED
    BY <1>3, <2>1, AttachIdle DEF Pause, Resume
<1>4. ASSUME ObserveSubscribed PROVE OwnInv'
  <2>1. /\ c'.subscribe_waiter_id = NoReq
        /\ UNCHANGED <<pending, nextReq, retry>>
        /\ task' \in {"opened", "granting"}
    BY <1>1, <1>4 DEF ObserveSubscribed, ConsumerState
  <2>2. WaiterWatched'
    BY <2>1 DEF WaiterWatched, Waiting
  <2>3. RequestsFresh'
    BY <2>1 DEF OwnInv, RequestsFresh
  <2>4. OwedGrantHasOwner'
    BY <2>1 DEF OwedGrantHasOwner
  <2>5. QED
    BY <2>2, <2>3, <2>4 DEF OwnInv
<1>5. ASSUME GrantInitialFlow PROVE OwnInv'
  <2>1. /\ SameAttach(c, c')
        /\ ~c'.initial_grant_due
        /\ UNCHANGED <<pending, nextReq, retry>>
        /\ task \in {"opened", "granting"}
        /\ task' = "ready"
    BY <1>1, <1>5, LedgerKeepsAttach DEF GrantInitialFlow, SameAttach
  <2>2. WaiterWatched'
    BY <2>1 DEF OwnInv, WaiterWatched, Waiting, SameAttach, IsTerminal
  <2>3. RequestsFresh'
    BY <2>1 DEF OwnInv, RequestsFresh
  <2>4. OwedGrantHasOwner'
    BY <2>1 DEF OwedGrantHasOwner
  <2>5. QED
    BY <2>2, <2>3, <2>4 DEF OwnInv
<1>6. ASSUME Seek PROVE OwnInv'
  <2>1. SameAttach(c, c')
    BY <1>1, <1>6, LedgerKeepsAttach DEF Seek
  <2>2. /\ nextReq' = nextReq + 1
        /\ \A r \in Requests : pending'[r] = pending[r] \/ r = nextReq
        /\ task = "ready" /\ task' = "seeking"
        /\ UNCHANGED <<conn, retry>>
    BY <1>1, <1>6 DEF Seek, Request
  <2>3. QED
    BY <2>1, <2>2, OtherRequest DEF Waiting
<1>7. ASSUME ResubscribeAfterSeek PROVE OwnInv'
  <2>1. CASE IsTerminal(c)
    <3>1. /\ UNCHANGED <<c, conn, nextReq, pending, retry>>
          /\ task = "seekAcked" /\ task' = "ready"
      BY <1>7, <2>1 DEF ResubscribeAfterSeek
    <3>2. SameAttach(c, c')
      BY <3>1 DEF SameAttach
    <3>3. QED
      BY <3>1, <3>2, OtherRequest DEF Waiting
  <2>2. CASE ~IsTerminal(c)
    <3>1. /\ Request("subscribe", "Subscribe")
          /\ c' = NotifyWaiter(c, nextReq)
          /\ task' = "resubscribing"
          /\ taskReq' = nextReq
          /\ UNCHANGED <<conn, retry>>
      BY <1>7, <2>2 DEF ResubscribeAfterSeek
    <3>2. /\ nextReq \in Requests
          /\ nextReq # NoReq
          /\ nextReq' = nextReq + 1
          /\ pending' = [pending EXCEPT ![nextReq] = "subscribe"]
      BY <3>1, RequestType DEF OwnInv, IInv, Request, Kinds, Requests, NoReq
    <3>3. /\ c'.subscribe_waiter_id = nextReq
          /\ c'.subscribe_waiter_request = nextReq
          /\ c'.flow_on_subscribe_ack = NoReq
      BY <1>1, <3>1 DEF NotifyWaiter, ConsumerState
    <3>4. WaiterWatched'
      BY <3>1, <3>2, <3>3 DEF WaiterWatched, Waiting
    <3>5. RequestsFresh'
      BY <1>1, <3>1, <3>2 DEF OwnInv, IInv, TypeOK, RequestsFresh, Requests, NoReq
    <3>6. OwedGrantHasOwner'
      BY <1>1, <3>1, <3>2, <3>3 DEF OwedGrantHasOwner
    <3>7. QED
      BY <3>4, <3>5, <3>6 DEF OwnInv
  <2>3. QED
    BY <2>1, <2>2
<1>8. ASSUME DropSeek PROVE OwnInv'
  <2>1. SameAttach(c, c')
    BY <1>8 DEF DropSeek, SameAttach
  <2>2. QED
    BY <1>8, <2>1, OtherRequest DEF DropSeek, Waiting
<1>9. ASSUME ResubscribeInPlace PROVE OwnInv'
  <2>1. SameAttach(c, c')
    BY <1>9 DEF ResubscribeInPlace, SameAttach
  <2>2. QED
    BY <1>1, <1>9, <2>1, OtherRequest DEF ResubscribeInPlace, Request
<1>10. ASSUME CancelSubscribe PROVE OwnInv'
  <2>1. /\ c'.subscribe_waiter_id = NoReq
        /\ c'.closed
        /\ retry' = NoReq
        /\ task' = "ready"
    BY <1>1, <1>10 DEF CancelSubscribe, ConsumerState
  <2> DEFINE p == [q \in Requests |->
                     IF pending[q] = "subscribe" THEN "none" ELSE pending[q]]
  <2>2. \/ /\ nextReq' = nextReq + 1
           /\ pending' = [p EXCEPT ![nextReq] = "close"]
        \/ UNCHANGED <<nextReq, pending>>
    BY <1>10 DEF CancelSubscribe
  <2>3. \A q \in Requests : pending'[q] # "none" =>
                              pending[q] # "none" \/ (q = nextReq /\ nextReq' = nextReq + 1)
    BY <1>1, <2>2
  <2>4. nextReq' \in {nextReq, nextReq + 1} /\ nextReq \in Nat
    BY <2>2, RequestsAssumption DEF OwnInv, IInv, TypeOK, Requests
  <2>5. RequestsFresh'
    BY <2>1, <2>3, <2>4 DEF OwnInv, RequestsFresh, Requests
  <2>6. WaiterWatched'
    BY <2>1 DEF WaiterWatched, Waiting
  <2>7. OwedGrantHasOwner'
    BY <2>1 DEF OwedGrantHasOwner, IsTerminal
  <2>8. QED
    BY <2>5, <2>6, <2>7 DEF OwnInv
<1>11. ASSUME Close PROVE OwnInv'
  <2>1. /\ c'.subscribe_waiter_id = c.subscribe_waiter_id
        /\ c'.flow_on_subscribe_ack = c.flow_on_subscribe_ack
        /\ c'.closed
    BY <1>1, <1>11 DEF Close, ConsumerState
  <2>2. /\ nextReq' = nextReq + 1 /\ nextReq \in Nat
        /\ \A r \in Requests : pending'[r] = pending[r] \/ r = nextReq
        /\ UNCHANGED <<retry, task, taskReq>>
    BY <1>1, <1>11, RequestsAssumption DEF Close, Request, OwnInv, IInv, TypeOK, Requests
  <2>3. WaiterWatched'
    BY <2>1, <2>2 DEF OwnInv, WaiterWatched, IsTerminal
  <2>4. RequestsFresh'
    BY <2>2 DEF OwnInv, IInv, TypeOK, RequestsFresh, Requests, NoReq
  <2>5. OwedGrantHasOwner'
    BY <2>1 DEF OwedGrantHasOwner, IsTerminal
  <2>6. QED
    BY <2>3, <2>4, <2>5 DEF OwnInv
<1>12. QED
  BY <1>2, <1>3, <1>4, <1>5, <1>6, <1>7, <1>8, <1>9, <1>10, <1>11

(* The abandoned waiter's request becomes flow-owned; a waiter whose ack   *)
(* has landed gets its flow at once.                                       *)
LEMMA AbandonOwned ==
    ASSUME OwnInv, IInv', AbandonWaiter
    PROVE  OwnInv'
<1>1. c \in ConsumerState
  BY DEF OwnInv, IInv, Good
<1>2. /\ task = "resubscribing" /\ task' = "ready"
      /\ UNCHANGED <<conn, nextReq, pending, retry>>
  BY DEF AbandonWaiter
<1>3. RequestsFresh'
  BY <1>2 DEF OwnInv, RequestsFresh
<1>4. taskReq # NoReq
  BY <1>2 DEF OwnInv, WaiterWatched, Waiting
<1>5. CASE c.subscribe_waiter_id # taskReq
  <2>1. c' = c
    BY <1>5 DEF AbandonWaiter
  <2>2. WaiterWatched'
    BY <1>2, <1>5, <2>1 DEF OwnInv, WaiterWatched, Waiting
  <2>3. OwedGrantHasOwner'
    BY <1>2, <1>5, <2>1 DEF OwnInv, OwedGrantHasOwner, RetryIsCurrent
  <2>4. QED
    BY <1>3, <2>2, <2>3 DEF OwnInv
<1>6. CASE c.subscribe_waiter_id = taskReq
  <2> DEFINE f == IF c.subscribe_waiter_request # NoReq
                    THEN c.subscribe_waiter_request ELSE c.flow_on_subscribe_ack
             s == [c EXCEPT !.subscribe_waiter_id = NoReq,
                            !.subscribe_waiter_request = NoReq,
                            !.subscribe_waiter_completed = FALSE,
                            !.flow_on_subscribe_ack = f]
  <2>1. f \in Requests \cup {NoReq} /\ s \in ConsumerState
    BY <1>1 DEF ConsumerState
  <2>2. /\ s.closed = c.closed /\ s.terminal_failure = c.terminal_failure
        /\ s.initial_grant_due = c.initial_grant_due
        /\ s.subscribe_waiter_id = NoReq
        /\ s.flow_on_subscribe_ack = f
    BY <1>1 DEF ConsumerState
  <2>3. IF c.subscribe_waiter_completed /\ IsConnected
          THEN c' = ConnInitialFlow(s) ELSE c' = s
    BY <1>6 DEF AbandonWaiter
  <2> HIDE DEF s
  <2>4. SameAttach(s, c')
        /\ (c.subscribe_waiter_completed /\ IsConnected => ~c'.initial_grant_due)
    BY <2>1, <2>3, LedgerKeepsAttach DEF SameAttach
  <2>5. WaiterWatched'
    BY <1>2, <2>2, <2>4 DEF WaiterWatched, Waiting, SameAttach
  <2>6. OwedGrantHasOwner'
    <3>1. SUFFICES ASSUME conn = "connected", ~IsTerminal(c), c.initial_grant_due,
                          ~c.subscribe_waiter_completed
                   PROVE  OwedGrantHasOwner'
      BY <1>2, <2>2, <2>4 DEF OwedGrantHasOwner, SameAttach, IsTerminal, IsConnected
    <3>2. c.flow_on_subscribe_ack = NoReq
      BY <1>4, <1>6 DEF OwnInv, WaiterWatched
    <3>3. c'.flow_on_subscribe_ack = f /\ IsTerminal(c') = IsTerminal(c)
      BY <2>2, <2>4 DEF SameAttach, IsTerminal
    <3>4. CASE c.subscribe_waiter_request # NoReq
               /\ pending[c.subscribe_waiter_request] = "subscribe"
      BY <1>2, <3>3, <3>4 DEF OwedGrantHasOwner
    <3>5. CASE retry # NoReq /\ RetryIsCurrent(c, retry)
      <4>1. c.subscribe_waiter_request = retry
        BY <3>2, <3>5 DEF RetryIsCurrent
      <4>2. RetryIsCurrent(c', retry)
        BY <3>1, <3>3, <3>5, <4>1 DEF RetryIsCurrent
      <4>3. QED
        BY <1>2, <3>5, <4>2 DEF OwedGrantHasOwner, RetryIsCurrent, IsTerminal
    <3>6. QED
      BY <1>2, <3>1, <3>2, <3>4, <3>5 DEF OwnInv, OwedGrantHasOwner
  <2>7. QED
    BY <1>3, <2>5, <2>6 DEF OwnInv
<1>7. QED
  BY <1>5, <1>6

(* Timers, retries and the supervised reconnect. *)
LEMMA DriverOwned ==
    ASSUME OwnInv, IInv'
    PROVE  /\ \A over \in BOOLEAN : AdjustTick(over) => OwnInv'
           /\ \A u \in Uuids : SweepExpiredChunks(u) => OwnInv'
           /\ RetrySubscribe => OwnInv'
           /\ Disconnect => OwnInv'
           /\ Reset => OwnInv'
           /\ Connected => OwnInv'
           /\ Rebuild => OwnInv'
           /\ PollTransmit => OwnInv'
<1>1. c \in ConsumerState /\ pending \in [Requests -> Kinds]
  BY DEF OwnInv, IInv, Good, TypeOK
<1>0. SameAttach(c, c)
  BY DEF SameAttach
<1>2. ASSUME NEW over \in BOOLEAN, AdjustTick(over) PROVE OwnInv'
  <2>1. SameAttach(c, c')
    BY <1>1, <1>2 DEF SameAttach, ConsumerState, AdjustTick, AdjustReceiverQueue
  <2>2. QED
    BY <1>2, <2>1, AttachIdle DEF AdjustTick
<1>3. ASSUME NEW u \in Uuids, SweepExpiredChunks(u) PROVE OwnInv'
  <2>1. SameAttach(c, c')
    BY <1>1, <1>3, LedgerKeepsAttach DEF SweepExpiredChunks
  <2>2. QED
    BY <1>3, <2>1, AttachIdle DEF SweepExpiredChunks
<1>4. ASSUME RetrySubscribe PROVE OwnInv'
  <2>1. CASE RetryIsCurrent(c, retry)
    <3>1. Request("subscribe", "Subscribe") /\ c' = ReleaseFlow(c, nextReq)
      BY <1>4, <2>1 DEF RetrySubscribe
    <3>2. nextReq \in Requests
      BY <3>1, RequestType DEF OwnInv, IInv, Kinds
    <3>3. QED
      BY <1>0, <1>1, <1>4, <3>1, <3>2, ReleaseOwned DEF RetrySubscribe, Request
  <2>2. CASE ~RetryIsCurrent(c, retry)
    <3>1. UNCHANGED <<c, conn, nextReq, pending, task, taskReq>> /\ retry' = NoReq
      BY <1>4, <2>2 DEF RetrySubscribe
    <3>2. QED
      BY <2>2, <3>1 DEF OwnInv, WaiterWatched, RequestsFresh, OwedGrantHasOwner
  <2>3. QED
    BY <2>1, <2>2
<1>5. ASSUME Disconnect \/ Connected PROVE OwnInv'
  <2>1. /\ UNCHANGED <<c, nextReq, pending, retry, task, taskReq>>
        /\ conn' # "connected"
    BY <1>5 DEF Disconnect, Connected
  <2>2. QED
    BY <2>1 DEF OwnInv, WaiterWatched, RequestsFresh, OwedGrantHasOwner
<1>6. ASSUME Reset PROVE OwnInv'
  <2>1. /\ c'.subscribe_waiter_id = c.subscribe_waiter_id
        /\ c'.flow_on_subscribe_ack = c.flow_on_subscribe_ack
        /\ c'.closed = c.closed
        /\ c'.terminal_failure = c.terminal_failure
    BY <1>1, <1>6 DEF Reset, ResetConsumer, ZeroPermits, ConsumerState
  <2>2. /\ conn' # "connected"
        /\ \A r \in Requests : pending'[r] = "none"
        /\ retry' \in {retry, NoReq}
        /\ task' = task \/ (task \notin Waiting /\ task' \notin Waiting)
        /\ UNCHANGED <<nextReq, taskReq>>
    BY <1>6 DEF Reset, Waiting
  <2>3. QED
    BY <2>1, <2>2 DEF OwnInv, IInv, TypeOK, WaiterWatched, RequestsFresh, OwedGrantHasOwner, IsTerminal
<1>7. ASSUME Rebuild PROVE OwnInv'
  <2>1. CASE IsTerminal(c)
    <3>1. UNCHANGED <<c, nextReq, pending, retry, task, taskReq>>
      BY <1>7, <2>1 DEF Rebuild
    <3>2. QED
      BY <2>1, <3>1 DEF OwnInv, WaiterWatched, RequestsFresh, OwedGrantHasOwner
  <2>2. CASE ~IsTerminal(c)
    <3>1. Request("subscribe", "Subscribe") /\ c' = ReleaseFlow(c, nextReq)
      BY <1>7, <2>2 DEF Rebuild
    <3>2. nextReq \in Requests
      BY <3>1, RequestType DEF OwnInv, IInv, Kinds
    <3>3. QED
      BY <1>0, <1>1, <1>7, <3>1, <3>2, ReleaseOwned DEF Rebuild, Request
  <2>3. QED
    BY <2>1, <2>2
<1>8. ASSUME PollTransmit PROVE OwnInv'
  BY <1>0, <1>8, AttachIdle DEF PollTransmit
<1>9. QED
  BY <1>2, <1>3, <1>4, <1>5, <1>6, <1>7, <1>8

LEMMA InitOwned == Init => OwnInv
<1> SUFFICES ASSUME Init PROVE OwnInv
  OBVIOUS
<1>1. IInv
  BY InitIInv
<1>2. /\ c.subscribe_waiter_id = 1
      /\ c.subscribe_waiter_request = 1
      /\ c.flow_on_subscribe_ack = NoReq
  BY DEF Init, NotifyWaiter, FreshConsumer
<1>3. 1 \in Requests
  BY RequestsAssumption DEF Requests
<1>4. WaiterWatched
  BY <1>2 DEF Init, WaiterWatched, Waiting, NoReq
<1>5. RequestsFresh
  BY DEF Init, RequestsFresh, Requests
<1>6. OwedGrantHasOwner
  BY <1>2, <1>3 DEF Init, OwedGrantHasOwner, NoReq
<1>7. QED
  BY <1>1, <1>4, <1>5, <1>6 DEF OwnInv

LEMMA NextOwned == OwnInv /\ [Next]_cvars => OwnInv'
<1> SUFFICES ASSUME OwnInv, [Next]_cvars PROVE OwnInv'
  OBVIOUS
<1>1. IInv'
  BY NextIInv DEF OwnInv
<1>2. CASE Next
  BY <1>1, <1>2, FrameOwned, AnswerOwned, ApplicationOwned, AbandonOwned, DriverOwned
     DEF Next
<1>3. CASE UNCHANGED cvars
  <2>1. SameAttach(c, c')
    BY <1>3 DEF cvars, SameAttach
  <2>2. QED
    BY <1>1, <1>3, <2>1, AttachIdle DEF cvars
<1>4. QED
  BY <1>2, <1>3

(* While a CommandSubscribe is owed its initial flow, somebody is going to *)
(* send it, whatever the broker and the application do: no ordering of     *)
(* acks, refusals, retries, seeks, abandoned waiters, in-place recoveries  *)
(* and reconnects in conn.rs leaves the debt without an owner.             *)
THEOREM OwnerTheorem == Spec => []OwedGrantHasOwner
<1>1. OwnInv => OwedGrantHasOwner
  BY DEF OwnInv
<1>2. QED
  BY <1>1, InitOwned, NextOwned, PTL DEF Spec

-----------------------------------------------------------------------------
(* The session implements the open component.                              *)

(* Frames the client writes: everything but a flow names a request. *)
Upward ==
    [type : {"Subscribe", "Seek", "Close"}, arg : Requests]
      \cup [type : {"Flow"}, arg : Nat]

Answers ==
    {"Subscribed", "NotReady", "Denied", "SeekDone", "SeekRefused", "Closed"}

(* Frames the broker writes. *)
Downward ==
    [type : Answers, arg : Requests]
      \cup [type : {"Message"}, arg : Entries]
      \cup [type : {"CloseConsumer"}, arg : BOOLEAN]
      \cup [type : {"Marker", "EndOfTopic", "Promoted"}, arg : {0, 1}]

WiresTyped ==
    /\ outbound \in Seq(Upward)
    /\ inbound \in Seq(Downward)
    /\ creating \in Requests \cup {NoReq}

SessionInv == IInv /\ WiresTyped

-----------------------------------------------------------------------------
(* The client's wire.                                                      *)

LEMMA SentUpward ==
    ASSUME NEW s, Good(s)
    PROVE  /\ FlowSent(s) \in Seq(Upward)
           /\ InitialFlowSent(s) \in Seq(Upward)
<1>1. s \in ConsumerState
  BY DEF Good
<1>2. FlowDue(s) => MaybeFlow(s).permit_balance - s.permit_balance \in Nat
  BY <1>1 DEF MaybeFlow, ConsumerState
<1>3. FlowDue(s) =>
        Frame("Flow", MaybeFlow(s).permit_balance - s.permit_balance) \in Upward
  BY <1>2 DEF Frame, Upward
<1>4. Frame("Flow", s.receiver_queue_size) \in Upward
  BY <1>1 DEF ConsumerState, Frame, Upward
<1>5. QED
  BY <1>3, <1>4 DEF FlowSent, InitialFlowSent

LEMMA AppendUpward ==
    ASSUME outbound \in Seq(Upward), NEW f \in Seq(Upward)
    PROVE  outbound \o f \in Seq(Upward)
OBVIOUS

LEMMA RequestUpward ==
    ASSUME IInv, outbound \in Seq(Upward), nextReq <= MaxRequests,
           NEW t \in {"Subscribe", "Seek", "Close"}
    PROVE  Append(outbound, Frame(t, nextReq)) \in Seq(Upward)
<1>1. nextReq \in Requests
  BY RequestsAssumption DEF IInv, TypeOK, Requests
<1>2. Frame(t, nextReq) \in Upward
  BY <1>1 DEF Frame, Upward
<1>3. QED
  BY <1>2

LEMMA ClientWire ==
    ASSUME IInv, outbound \in Seq(Upward), Next
    PROVE  outbound' \in Seq(Upward)
<1>1. Good(c) /\ c \in ConsumerState
  BY DEF IInv, Good
<1> USE AppendUpward
<1>2. ASSUME NEW m \in Entries, HandleMessage(m) PROVE outbound' \in Seq(Upward)
  BY <1>1, <1>2, DeliverGood, SentUpward DEF HandleMessage
<1>3. ASSUME HandlePromoted \/ GrantInitialFlow PROVE outbound' \in Seq(Upward)
  BY <1>1, <1>3, SentUpward DEF HandlePromoted, GrantInitialFlow
<1>4. ASSUME Receive PROVE outbound' \in Seq(Upward)
  BY <1>1, <1>4, PopGood, SentUpward DEF Receive
<1>5. ASSUME NEW r \in Requests, Answer(r) PROVE outbound' \in Seq(Upward)
  <2>1. CASE HandleSubscribed(r)
    BY <1>1, <2>1, SubscribeAckedGood, SentUpward DEF HandleSubscribed
  <2>2. CASE HandleReattachClosed(r)
    BY <2>2, RequestUpward DEF HandleReattachClosed, RequestAfter
  <2>3. CASE HandleSeekDone(r) \/ HandleOtherAnswer(r) \/ HandleSeekRefused(r)
    BY <2>3 DEF HandleSeekDone, HandleOtherAnswer, HandleSeekRefused
  <2>4. CASE \E transient \in BOOLEAN : HandleSubscribeRefused(r, transient)
    BY <2>4 DEF HandleSubscribeRefused
  <2>5. QED
    BY <1>5, <2>1, <2>2, <2>3, <2>4 DEF Answer
<1>6. ASSUME \E moved \in BOOLEAN : HandleCloseConsumer(moved)
      PROVE  outbound' \in Seq(Upward)
  BY <1>6, RequestUpward DEF HandleCloseConsumer, Request
<1>7. ASSUME Seek \/ ResubscribeAfterSeek \/ ResubscribeInPlace \/ Close
      PROVE  outbound' \in Seq(Upward)
  BY <1>7, RequestUpward
     DEF Seek, ResubscribeAfterSeek, ResubscribeInPlace, Close, Request
<1>8. ASSUME RetrySubscribe \/ Rebuild PROVE outbound' \in Seq(Upward)
  BY <1>8, RequestUpward DEF RetrySubscribe, Rebuild, Request
<1>9. ASSUME CancelSubscribe PROVE outbound' \in Seq(Upward)
  BY <1>9, RequestUpward DEF CancelSubscribe
<1>10. ASSUME AbandonWaiter PROVE outbound' \in Seq(Upward)
  <2> DEFINE f == IF c.subscribe_waiter_request # NoReq
                    THEN c.subscribe_waiter_request ELSE c.flow_on_subscribe_ack
             s == [c EXCEPT !.subscribe_waiter_id = NoReq,
                            !.subscribe_waiter_request = NoReq,
                            !.subscribe_waiter_completed = FALSE,
                            !.flow_on_subscribe_ack = f]
  <2>1. s.receiver_queue_size \in Nat
    BY <1>1 DEF ConsumerState
  <2>2. InitialFlowSent(s) \in Seq(Upward)
    <3> HIDE DEF s
    <3>1. Frame("Flow", s.receiver_queue_size) \in Upward
      BY <2>1 DEF Frame, Upward
    <3>2. QED
      BY <3>1 DEF InitialFlowSent
  <2>3. outbound' = outbound \/ outbound' = outbound \o InitialFlowSent(s)
    BY <1>10 DEF AbandonWaiter
  <2>4. QED
    BY <2>2, <2>3
<1>11. ASSUME NEW over \in BOOLEAN, AdjustTick(over)
       PROVE  outbound' \in Seq(Upward)
  <2>1. AdjustDelta(c, over) \in Nat
    BY <1>1, AdjustGood
  <2>2. Frame("Flow", AdjustDelta(c, over)) \in Upward
    BY <2>1 DEF Frame, Upward
  <2>3. QED
    BY <1>11, <2>2 DEF AdjustTick
<1>12. ASSUME \/ HandleMarker \/ HandleEndOfTopic \/ Pause \/ Resume
              \/ ObserveSubscribed \/ DropSeek \/ Disconnect \/ Connected
              \/ \E u \in Uuids : SweepExpiredChunks(u)
       PROVE  outbound' \in Seq(Upward)
  BY <1>12 DEF HandleMarker, HandleEndOfTopic, Pause, Resume,
       ObserveSubscribed, DropSeek, Disconnect, Connected, SweepExpiredChunks
<1>13. ASSUME Reset PROVE outbound' \in Seq(Upward)
  BY <1>13 DEF Reset
<1>14. ASSUME PollTransmit PROVE outbound' \in Seq(Upward)
  BY <1>14 DEF PollTransmit
<1>15. QED
  BY <1>2, <1>3, <1>4, <1>5, <1>6, <1>7, <1>8, <1>9, <1>10, <1>11, <1>12,
     <1>13, <1>14 DEF Next

-----------------------------------------------------------------------------
(* A step of the session is a step of the client or none.                  *)

LEMMA TakesPolls ==
    ASSUME NEW t, Takes(t)
    PROVE  PollTransmit
BY DEF Takes, PollTransmit

LEMMA AskedType ==
    ASSUME WiresTyped, NEW t \in {"Subscribe", "Seek", "Close"}, Takes(t)
    PROVE  Asked \in Requests
<1>1. Head(outbound) \in Upward /\ Head(outbound).type = t
  BY DEF WiresTyped, Takes
<1>2. QED
  BY <1>1 DEF Asked, Upward

LEMMA ArgType ==
    ASSUME WiresTyped, NEW t, Arrives(t)
    PROVE  /\ t \in Answers => Arg \in Requests
           /\ t = "Message" => Arg \in Entries
           /\ t = "CloseConsumer" => Arg \in BOOLEAN
<1>1. Head(inbound) \in Downward /\ Head(inbound).type = t
  BY DEF WiresTyped, Arrives
<1>2. QED
  BY <1>1 DEF Arg, Downward, Answers

BrokerNext ==
    \/ BrokerSubscribe \/ BrokerCreated \/ BrokerRefusesSubscribe \/ BrokerFlow
    \/ BrokerSeek \/ BrokerRefusesSeek \/ BrokerClose \/ BrokerDispatch
    \/ BrokerUnload \/ BrokerTerminatesTopic \/ BrokerPromote

ClientFrame ==
    \/ ClientMessage \/ ClientMarker \/ ClientSubscribed \/ ClientNotReady
    \/ ClientDenied \/ ClientSeekDone \/ ClientSeekRefused \/ ClientClosed
    \/ ClientCloseConsumer \/ ClientEndOfTopic \/ ClientPromoted

ClientOther ==
    \/ Local \/ AppPause \/ AppSeek \/ AppDropSeek \/ AppAbandon \/ AppRecover
    \/ AppCancel \/ AppClose \/ DriverAdjust \/ DriverSweep \/ TransportLost
    \/ SupervisorReset

LEMMA BrokerSteps ==
    ASSUME WiresTyped, BrokerNext
    PROVE  [Next]_cvars
<1>1. CASE PollTransmit
  BY <1>1 DEF Next
<1>2. CASE UNCHANGED cvars
  BY <1>2
<1>3. PollTransmit \/ UNCHANGED cvars
  BY TakesPolls
     DEF BrokerNext, BrokerSubscribe, BrokerCreated, BrokerRefusesSubscribe,
         BrokerFlow, BrokerSeek, BrokerRefusesSeek, BrokerClose,
         BrokerDispatch, BrokerUnload, BrokerTerminatesTopic, BrokerPromote
<1>4. QED
  BY <1>1, <1>2, <1>3

LEMMA FrameStepsOfClient ==
    ASSUME WiresTyped, ClientFrame
    PROVE  [Next]_cvars
<1>1. CASE ClientMessage
  BY <1>1, ArgType DEF ClientMessage, Next
<1>2. CASE ClientMarker \/ ClientEndOfTopic \/ ClientPromoted
  BY <1>2 DEF ClientMarker, ClientEndOfTopic, ClientPromoted, Next
<1>3. CASE ClientCloseConsumer
  BY <1>3, ArgType DEF ClientCloseConsumer, Next
<1>4. CASE ClientSubscribed
  BY <1>4, ArgType DEF ClientSubscribed, Ignored, Answers, Answer, Next
<1>5. CASE ClientNotReady
  BY <1>5, ArgType DEF ClientNotReady, Ignored, Answers, Answer, Next
<1>6. CASE ClientDenied
  BY <1>6, ArgType DEF ClientDenied, Ignored, Answers, Answer, Next
<1>7. CASE ClientSeekDone
  BY <1>7, ArgType DEF ClientSeekDone, Answers, Answer, Next
<1>8. CASE ClientSeekRefused
  BY <1>8, ArgType DEF ClientSeekRefused, Answers, Answer, Next
<1>9. CASE ClientClosed
  BY <1>9, ArgType DEF ClientClosed, Answers, Answer, Next
<1>10. QED
  BY <1>1, <1>2, <1>3, <1>4, <1>5, <1>6, <1>7, <1>8, <1>9 DEF ClientFrame

LEMMA OtherSteps ==
    ASSUME ClientOther
    PROVE  Next
BY DEF ClientOther, Local, ClientStep, AppPause, AppSeek, AppDropSeek,
       AppAbandon, AppRecover, AppCancel, AppClose, DriverAdjust, DriverSweep,
       TransportLost, SupervisorReset, Next

LEMMA StepRefines ==
    ASSUME WiresTyped, [SessionNext]_svars
    PROVE  [Next]_cvars
<1>1. BrokerNext \/ ClientFrame \/ ClientOther \/ UNCHANGED svars
  BY DEF SessionNext, BrokerNext, ClientFrame, ClientOther
<1>2. CASE UNCHANGED svars
  BY <1>2 DEF svars
<1>3. QED
  BY <1>1, <1>2, BrokerSteps, FrameStepsOfClient, OtherSteps

-----------------------------------------------------------------------------
(* The wires keep their types.                                             *)

LEMMA BrokerWire ==
    ASSUME WiresTyped, BrokerNext
    PROVE  inbound' \in Seq(Downward) /\ creating' \in Requests \cup {NoReq}
<1>1. inbound \in Seq(Downward) /\ creating \in Requests \cup {NoReq}
  BY DEF WiresTyped
<1>2. ASSUME NEW t \in Answers, NEW r \in Requests
      PROVE  /\ Append(inbound, Reply(t, r)) \in Seq(Downward)
             /\ Reply(t, r) \in Downward
  <2>1. Reply(t, r) \in Downward
    BY DEF Reply, Frame, Downward
  <2>2. QED
    BY <1>1, <2>1
<1>3. ASSUME NEW t \in {"EndOfTopic", "Promoted"}
      PROVE  /\ Append(inbound, Reply(t, 0)) \in Seq(Downward)
             /\ Reply(t, 0) \in Downward
  <2>1. Reply(t, 0) \in Downward
    BY DEF Reply, Frame, Downward
  <2>2. QED
    BY <1>1, <2>1
<1>4. ASSUME NEW b \in BOOLEAN
      PROVE  Append(inbound, Reply("CloseConsumer", b)) \in Seq(Downward)
  <2>1. Reply("CloseConsumer", b) \in Downward
    BY DEF Reply, Frame, Downward
  <2>2. QED
    BY <1>1, <2>1
<1>5. ASSUME NEW f \in Dispatchable
      PROVE  Append(inbound, f) \in Seq(Downward)
  <2>1. f = Reply("Marker", 1) \/ \E m \in Entries : f = [type |-> "Message", arg |-> m]
    BY DEF Dispatchable
  <2>2. f \in Downward
    BY <2>1 DEF Reply, Frame, Downward
  <2>3. QED
    BY <1>1, <2>2
<1>6. CASE BrokerSubscribe
  BY <1>1, <1>2, <1>6, AskedType DEF BrokerSubscribe, Answers
<1>7. CASE BrokerCreated
  <2>1. creating \in Requests /\ creating' = NoReq
    BY <1>1, <1>7 DEF BrokerCreated
  <2>2. Reply("Subscribed", creating) \in Downward /\ Reply("Promoted", 0) \in Downward
    BY <1>2, <1>3, <2>1 DEF Answers
  <2>3. /\ <<Reply("Subscribed", creating)>> \in Seq(Downward)
        /\ <<Reply("Promoted", 0), Reply("Subscribed", creating)>> \in Seq(Downward)
        /\ <<Reply("Subscribed", creating), Reply("Promoted", 0)>> \in Seq(Downward)
    BY <2>2
  <2>4. \E x \in Seq(Downward) : inbound' = inbound \o x
    BY <1>7, <2>3 DEF BrokerCreated
  <2>5. QED
    BY <1>1, <2>1, <2>4
<1>8. CASE BrokerRefusesSubscribe
  BY <1>1, <1>2, <1>8 DEF BrokerRefusesSubscribe, Answers
<1>9. CASE BrokerFlow
  BY <1>1, <1>9 DEF BrokerFlow
<1>10. CASE BrokerSeek
  BY <1>1, <1>2, <1>10, AskedType DEF BrokerSeek, Answers
<1>11. CASE BrokerRefusesSeek
  BY <1>1, <1>2, <1>11, AskedType DEF BrokerRefusesSeek, Answers
<1>12. CASE BrokerClose
  BY <1>1, <1>2, <1>12, AskedType DEF BrokerClose, Answers
<1>13. CASE BrokerDispatch
  BY <1>1, <1>5, <1>13 DEF BrokerDispatch
<1>14. CASE BrokerUnload
  BY <1>1, <1>4, <1>14 DEF BrokerUnload
<1>15. CASE BrokerTerminatesTopic
  BY <1>1, <1>3, <1>15 DEF BrokerTerminatesTopic
<1>16. CASE BrokerPromote
  BY <1>1, <1>3, <1>16 DEF BrokerPromote
<1>17. QED
  BY <1>6, <1>7, <1>8, <1>9, <1>10, <1>11, <1>12, <1>13, <1>14, <1>15, <1>16
     DEF BrokerNext

LEMMA OtherWire ==
    ASSUME WiresTyped, ClientFrame \/ ClientOther \/ UNCHANGED svars
    PROVE  inbound' \in Seq(Downward) /\ creating' \in Requests \cup {NoReq}
<1>1. inbound \in Seq(Downward) /\ creating \in Requests \cup {NoReq}
  BY DEF WiresTyped
<1>2. CASE ClientFrame
  <2>1. inbound # <<>> /\ inbound' = Tail(inbound) /\ creating' = creating
    BY <1>2 DEF ClientFrame, ClientMessage, ClientMarker, ClientSubscribed,
         ClientNotReady, ClientDenied, ClientSeekDone, ClientSeekRefused,
         ClientClosed, ClientCloseConsumer, ClientEndOfTopic, ClientPromoted,
         Arrives
  <2>2. QED
    BY <1>1, <2>1
<1>3. CASE ClientOther
  <2>1. inbound' \in {inbound, <<>>} /\ creating' \in {creating, NoReq}
    BY <1>3 DEF ClientOther, Local, AppPause, AppSeek, AppDropSeek, AppAbandon,
         AppRecover, AppCancel, AppClose, App, DriverAdjust, DriverSweep,
         TransportLost, SupervisorReset, bvars
  <2>2. <<>> \in Seq(Downward)
    OBVIOUS
  <2>3. inbound' \in Seq(Downward)
    BY <1>1, <2>1, <2>2
  <2>4. creating' \in Requests \cup {NoReq}
    BY <1>1, <2>1
  <2>5. QED
    BY <2>3, <2>4
<1>4. CASE UNCHANGED svars
  BY <1>1, <1>4 DEF svars, bvars
<1>5. QED
  BY <1>2, <1>3, <1>4

LEMMA SessionInitially == SessionInit => Init /\ SessionInv
<1> SUFFICES ASSUME SessionInit PROVE Init /\ SessionInv
  OBVIOUS
<1>1. Init /\ IInv
  BY InitIInv DEF SessionInit
<1>2. Frame("Subscribe", 1) \in Upward
  BY RequestsAssumption DEF Frame, Upward, Requests
<1>3. WiresTyped
  BY <1>1, <1>2 DEF SessionInit, Init, WiresTyped
<1>4. QED
  BY <1>1, <1>3 DEF SessionInv

LEMMA SessionStep ==
    SessionInv /\ [SessionNext]_svars => SessionInv' /\ [Next]_cvars
<1> SUFFICES ASSUME SessionInv, [SessionNext]_svars
             PROVE  SessionInv' /\ [Next]_cvars
  OBVIOUS
<1>1. [Next]_cvars
  BY StepRefines DEF SessionInv
<1>2. IInv'
  BY <1>1, NextIInv DEF SessionInv
<1>3. outbound' \in Seq(Upward)
  BY <1>1, ClientWire DEF SessionInv, WiresTyped, cvars
<1>4. BrokerNext \/ ClientFrame \/ ClientOther \/ UNCHANGED svars
  BY DEF SessionNext, BrokerNext, ClientFrame, ClientOther
<1>5. inbound' \in Seq(Downward) /\ creating' \in Requests \cup {NoReq}
  BY <1>4, BrokerWire, OtherWire DEF SessionInv
<1>6. QED
  BY <1>1, <1>2, <1>3, <1>5 DEF SessionInv, WiresTyped

(* A consumer served by a broker behaves as the open component allows: the *)
(* session is an implementation of ConsumerPermits!Spec.                   *)
THEOREM SessionRefines == SessionSpec => Spec
<1>1. QED
  BY SessionInitially, SessionStep, PTL DEF SessionSpec, Spec

(* In a session with a broker the ledger covers the granted window: no     *)
(* order of frames, calls and faults makes the mirrors lose a permit.      *)
THEOREM SessionWindow == SessionSpec => []WindowCovered
BY SessionRefines, WindowTheorem, PTL

(* In a session with a broker a fixed receiver queue never brings itself   *)
(* into the state is_flow_starved describes.                               *)
THEOREM SessionStarvation == SessionSpec => []NeverSelfStarved
BY SessionRefines, StarvationTheorem, PTL

(* In a session with a broker every subscribe that is owed its initial     *)
(* flow has an owner that will send it.                                    *)
THEOREM SessionOwner == SessionSpec => []OwedGrantHasOwner
BY SessionRefines, OwnerTheorem, PTL
=============================================================================
