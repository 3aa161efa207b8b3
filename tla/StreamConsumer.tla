--------------------------- MODULE StreamConsumer ---------------------------
(***************************************************************************)
(* The runtime around StreamAggregate (magnetar-runtime-tokio/src/         *)
(* scalable.rs; magnetar-runtime-moonpool/src/scalable.rs is its twin).    *)
(*                                                                         *)
(* Every method of the aggregate runs under one mutex; the actions it      *)
(* returns are executed after the unlock, by whichever task made the call: *)
(* the control loop, a child loop, an open task, a spawned task or the     *)
(* application's own future.  So actions of different calls interleave,    *)
(* and each of them meets an aggregate that may have moved on.  One step   *)
(* here is one locked section, except where a comment says which two a     *)
(* step takes together and why no other can come between them.             *)
(*                                                                         *)
(* A task is [by, seg, gen, tries, acts, after]: tries are the segments it *)
(* offers to complete_segment first, acts the actions it still has to      *)
(* execute, after the segments it offers to complete_segment last.  The    *)
(* actions of one task run in any order; the code's order is one of them.  *)
(* A task is by "control" (the control loop), "loop" (a child loop),       *)
(* "spawned" (an open task or one of spawn_actions), "outcome" (of a       *)
(* transaction) or "closer" (finish_close): these are tracked in           *)
(* state.tasks and nobody drops them.  One by "app" is a future of the     *)
(* application, which may drop it; one by "handoff" are actions on their   *)
(* way from an unlocked section to spawn_actions.                          *)
(*                                                                         *)
(* The broker, the transaction coordinator and the application are the     *)
(* environment.  The broker keeps, per segment, the consumer attached to   *)
(* it, its permits, the frames on their way to it, and what is acked.      *)
(***************************************************************************)
EXTENDS StreamAggregate, Sequences, SequencesExt

CONSTANTS
    Plan,        \* what the broker publishes: a sequence of [layout, assigned]
    Size,        \* messages stored in each segment
    Chunked,     \* <<segment, id>> of the messages sent as two chunks
    Transformed, \* those that need a decompression workspace
    Masked,      \* those whose batch is fully acknowledged already
    Txns,        \* transactions of the application
    Bounds       \* how often each kind of disturbance may happen: a set of
                 \* alternatives, each a record of counts

Kinds == {"faults", "restores", "nacks", "seeks", "closes", "batches",
          "cumulative", "txnAcks", "unknowns", "drops", "reconnects"}

ASSUME RuntimeAssumption ==
    /\ Plan \in Seq({Plan[i] : i \in DOMAIN Plan}) /\ Plan # <<>>
    /\ \A i \in DOMAIN Plan : /\ Plan[i].layout \in DOMAIN Layouts
                              /\ DOMAIN Plan[i].assigned \subseteq Segments
    /\ Size \in [Segments -> Nat]
    /\ Bounds \subseteq [Kinds -> Nat]

VARIABLES
    model,      \* the aggregate (StreamAggregate)
    tasks,      \* tasks with something left to do
    opens,      \* open tasks: [seg, gen, inc, attached]
    attached,   \* the child registered in state.children, 0 for none
    flowRes,    \* state.flow_reservations
    arriving,   \* entries between accept_entry and finalize_entry
    queue,      \* deliveries waiting for receive
    held,       \* tokens the application holds
    ackCalls,   \* acknowledgement calls in progress: [op, txn, left, done]
    parked,     \* state.pending_transactions: a sequence of [txn, op]
    txns,       \* the coordinator's verdict on each transaction
    reconnect,  \* state.reconnect_requested
    closing,    \* state.close_state: "Open", "Closing", "Closed"
    published,  \* index of the last plan the broker published
    applied,    \* index of the plan the control loop has seen
    returned,   \* <<segment, generation>> whose child loop met the end of topic
    broker,     \* [gen, permits, wire, sent, acked, half, ended] per segment
    left,       \* disturbances still allowed
    seen,       \* ghost: the messages the application has received
    dropped     \* ghost: actions nobody will execute any more

lost    == <<returned, dropped>>
control == <<reconnect, closing, published, applied, lost>>
client  == <<opens, attached, flowRes, arriving>>
app     == <<queue, held, seen, ackCalls, parked, txns>>
vars == <<model, tasks, opens, attached, flowRes, arriving, queue, held,
          ackCalls, parked, txns, reconnect, closing, published, applied,
          returned, broker, left, seen, dropped>>

End == 0                             \* the end-of-topic notice on the wire
Msg(s, id) == <<s, id>>
Verdicts == {"open", "committed", "aborted", "unknown"}

AtBroker(s, b) == [broker EXCEPT ![s] = b]

Detached(b) == [b EXCEPT !.gen = 0, !.permits = 0, !.wire = <<>>,
                         !.sent = {}, !.half = 0, !.ended = FALSE]

\* The broker has handled the CloseConsumer of generation g.
Unsubscribed(s, g) == IF broker[s].gen = g THEN AtBroker(s, Detached(broker[s]))
                      ELSE broker

-----------------------------------------------------------------------------
(* Tasks.                                                                  *)

Task(by, s, g, tries, acts, after) ==
    [by |-> by, seg |-> s, gen |-> g, tries |-> tries, acts |-> acts,
     after |-> after]

ByHand(who, acts) == Task(who, 0, 0, {}, acts, {})
Free(acts)    == ByHand("spawned", acts)
Handoff(acts) == ByHand("handoff", acts)

Add(T, t) == IF t.tries = {} /\ t.acts = {} /\ t.after = {} THEN T
             ELSE T \cup {t}

\* Mutant: what a callback returns is not executed.
BadAdvance(t, a, more) == Add(tasks \ {t}, [t EXCEPT !.acts = t.acts \ {a}])

\* t has executed a and must also execute more.
Advance(t, a, more) == Add(tasks \ {t},
                           [t EXCEPT !.acts = (t.acts \ {a}) \cup more])

Spend(what) == left[what] > 0 /\ left' = [left EXCEPT ![what] = left[what] - 1]

\* request_resync up to its unlock, in a step that also turned the tasks
\* into T: the actions are then handed to spawn_actions.
Resync(T) ==
    IF closing # "Open"
    THEN tasks' = T /\ UNCHANGED <<model, reconnect, queue>>
    ELSE /\ model' = RequireResync(model)
         /\ tasks' = Add(T, Handoff(Emitted(model, RequireResync(model))))
         /\ reconnect' = TRUE
         /\ queue' = <<>>

\* spawn_actions, which takes the lock again: a close in between wins and
\* the actions are forgotten.
SpawnActions ==
    \E t \in tasks :
        /\ t.by = "handoff"
        /\ IF closing = "Open"
           THEN /\ tasks' = Add(tasks \ {t}, Free(t.acts))
                /\ UNCHANGED dropped
           ELSE /\ tasks' = tasks \ {t}
                /\ dropped' = dropped \cup t.acts
        /\ UNCHANGED <<model, client, app, reconnect, closing, published,
                       applied, returned, broker, left>>

-----------------------------------------------------------------------------
(* Start and control loop.                                                 *)

Init ==
    /\ model = ApplyControlPlane(InitModel, Plan[1].layout, Plan[1].assigned)
    /\ tasks = Add({}, Task("control", 0, 0, {}, Emitted(InitModel, model), {}))
    /\ opens = {} /\ attached = [s \in Segments |-> 0]
    /\ flowRes = {} /\ arriving = {} /\ queue = <<>> /\ held = {}
    /\ ackCalls = {} /\ parked = <<>> /\ txns = [t \in Txns |-> "open"]
    /\ reconnect = FALSE /\ closing = "Open"
    /\ published = 1 /\ applied = 1
    /\ broker = [s \in Segments |->
                   [gen |-> 0, permits |-> 0, wire |-> <<>>, sent |-> {},
                    acked |-> {}, half |-> 0, ended |-> FALSE]]
    /\ left \in Bounds /\ seen = [s \in Segments |-> {}]
    /\ returned = {} /\ dropped = {}

ControlIdle == closing = "Open" /\ \A t \in tasks : t.by # "control"

ControlUpdate ==
    LET p == Plan[applied + 1]
        n == ApplyControlPlane(model, p.layout, p.assigned)
    IN  /\ ControlIdle /\ ~reconnect /\ applied < published
        /\ CanApply(model, p.layout, p.assigned)
        /\ applied' = applied + 1
        /\ model' = n
        /\ tasks' = Add(tasks, Task("control", 0, 0, {}, Emitted(model, n), {}))
        /\ UNCHANGED <<client, app, reconnect, closing, published, lost,
                       broker, left>>

\* The control route fails: control_loop asks for a resynchronisation.
ControlFails ==
    /\ ControlIdle /\ ~reconnect /\ Spend("faults")
    /\ Resync(tasks)
    /\ UNCHANGED <<client, held, seen, ackCalls, parked, txns, closing, published,
                   applied, lost, broker>>

\* Children are fenced: rejoin with the layout and assignment of the day.
ReconnectControlPlane ==
    LET p == Plan[published]
        n == ApplyReconnectBaseline(model, p.layout, p.assigned)
    IN  /\ ControlIdle /\ reconnect
        /\ opens = {} /\ \A s \in Segments : attached[s] = 0
        /\ Spend("reconnects")
        /\ model' = n
        /\ tasks' = Add(tasks, Task("control", 0, 0, {}, Emitted(model, n), {}))
        /\ reconnect' = FALSE
        /\ applied' = published
        /\ held' = {}           \* tokens of earlier epochs are refused everywhere
        /\ UNCHANGED <<client, queue, seen, ackCalls, parked, txns, closing,
                       published, lost, broker>>

-----------------------------------------------------------------------------
(* Execution of actions.                                                   *)

Ready(t) == IF t.tries # {} \/ t.by = "handoff" THEN {} ELSE t.acts

ExecOpen(t, a) ==
    /\ a.op = "open" /\ tasks' = Advance(t, a, {})
    /\ opens' = IF /\ closing = "Open" /\ model.inc = a.inc
                   /\ Has(model, a.seg, a.gen)
                THEN opens \cup {[seg |-> a.seg, gen |-> a.gen, inc |-> a.inc,
                                  attached |-> FALSE]}
                ELSE opens
    /\ UNCHANGED <<model, attached, flowRes, arriving, broker>>

ExecCancel(t, a) ==
    LET n == IF CanChildClosed(model, a.seg, a.gen)
             THEN ChildClosed(model, a.seg) ELSE model
    IN  /\ a.op = "cancel" /\ model' = n
        /\ tasks' = Advance(t, a, Emitted(model, n))
        /\ UNCHANGED <<opens, attached, flowRes, arriving, broker>>

ExecGrant(t, a) ==
    /\ a.op = "grant" /\ tasks' = Advance(t, a, {})
    /\ IF /\ attached[a.seg] = a.gen
          /\ a.seg \in DOMAIN model.children
               => model.children[a.seg].phase # "Closing"
       THEN /\ flowRes' = {r \in flowRes : ~(r.seg = a.seg /\ r.gen = a.gen)}
                            \cup {[seg |-> a.seg, gen |-> a.gen,
                                   epoch |-> a.epoch]}
            /\ broker' = AtBroker(a.seg, [broker[a.seg] EXCEPT
                                    !.permits = broker[a.seg].permits + 1])
       ELSE UNCHANGED <<flowRes, broker>>
    /\ UNCHANGED <<model, opens, attached, arriving>>

\* The two locked sections around consumer.close(), taken as one: nothing
\* can register a reservation for a closing child in between.  finish_close
\* does the same for the children it took, and skips a consumer that another
\* future is closing already.
ExecClose(t, a) ==
    LET n == IF CanChildClosed(model, a.seg, a.gen)
             THEN ChildClosed(model, a.seg) ELSE model
    IN  /\ a.op = "close" /\ model' = n
        /\ tasks' = Advance(t, a, Emitted(model, n))
        /\ flowRes' = {r \in flowRes : ~(r.seg = a.seg /\ r.gen = a.gen)}
        /\ attached' = IF attached[a.seg] = a.gen
                       THEN [attached EXCEPT ![a.seg] = 0] ELSE attached
        /\ broker' = Unsubscribed(a.seg, a.gen)
        /\ UNCHANGED <<opens, arriving>>

\* The broker rewinds the segment to its start and drops what it had sent.
ExecSeek(t, a) ==
    LET n == SeekCompleted(model, a.seg)
    IN  /\ a.op = "seek" /\ attached[a.seg] = a.gen
        /\ CanSeekCompleted(model, a.seg, a.gen)
        /\ model' = n
        /\ tasks' = Advance(t, a, Emitted(model, n))
        /\ broker' = AtBroker(a.seg,
                        [broker[a.seg] EXCEPT
                           !.permits = 0, !.wire = <<>>, !.sent = {},
                           !.acked = {}, !.half = 0, !.ended = FALSE])
        /\ UNCHANGED <<opens, attached, flowRes, arriving>>

Execute ==
    \E t \in tasks : \E a \in Ready(t) :
        /\ \/ ExecOpen(t, a) \/ ExecCancel(t, a) \/ ExecGrant(t, a)
           \/ ExecClose(t, a) \/ ExecSeek(t, a)
        /\ UNCHANGED <<app, control, left>>

\* A seek that fails, or finds its child gone, fences the aggregate and the
\* task drops the rest of its actions.
SeekFails ==
    \E t \in tasks : \E a \in Ready(t) :
        /\ a.op = "seek"
        /\ IF attached[a.seg] = a.gen /\ CanSeekCompleted(model, a.seg, a.gen)
           THEN Spend("faults") ELSE UNCHANGED left
        /\ Resync(tasks \ {t})
        /\ UNCHANGED <<client, held, seen, ackCalls, parked, txns, closing,
                       published, applied, lost, broker>>

\* consumer.close() fails: the child is force-closed all the same, and the
\* error of a background task asks for a resynchronisation.  That of an
\* acknowledgement goes to its caller, that of an outcome to a retry.
CloseFails ==
    \E t \in tasks : \E a \in Ready(t) :
        /\ a.op = "close" /\ attached[a.seg] = a.gen
        /\ closing = "Open" /\ CanChildClosed(model, a.seg, a.gen)
        /\ Spend("faults")
        /\ LET n == ChildClosed(model, a.seg)
               f == RequireResync(n)
           IN  IF t.by \in {"app", "outcome"}
               THEN /\ model' = n
                    /\ tasks' = Advance(t, a, Emitted(model, n))
                    /\ UNCHANGED <<reconnect, queue>>
               ELSE /\ model' = f
                    /\ tasks' = Add(Advance(t, a, Emitted(model, n)),
                                    Handoff(Emitted(n, f)))
                    /\ reconnect' = TRUE /\ queue' = <<>>
        /\ flowRes' = {r \in flowRes : ~(r.seg = a.seg /\ r.gen = a.gen)}
        /\ attached' = [attached EXCEPT ![a.seg] = 0]
        /\ broker' = Unsubscribed(a.seg, a.gen)
        /\ UNCHANGED <<opens, arriving, held, seen, ackCalls, parked, txns, closing,
                       published, applied, lost>>

\* The application drops its future while it awaits consumer.close(): the
\* frame is on its way, the child stays registered and closing, and the
\* actions behind this one are forgotten.
DropClose ==
    \E t \in tasks : \E a \in Ready(t) :
        /\ t.by = "app" /\ a.op = "close" /\ attached[a.seg] = a.gen
        /\ Spend("drops")
        /\ tasks' = tasks \ {t} /\ dropped' = dropped \cup t.acts
        /\ flowRes' = {r \in flowRes : ~(r.seg = a.seg /\ r.gen = a.gen)}
        /\ broker' = Unsubscribed(a.seg, a.gen)
        /\ UNCHANGED <<model, opens, attached, arriving, app, reconnect, closing,
                       published, applied, returned>>

\* try_complete, before or after a task's actions.  What it returns is
\* executed by the same future, in any order with what else it has to do.
TryComplete ==
    \E t \in tasks :
        \E c \in IF t.tries # {} THEN t.tries
                 ELSE IF t.acts = {} THEN t.after ELSE {} :
            LET n == IF CanComplete(model, c[1], c[2])
                     THEN CompleteSegment(model, c[1]) ELSE model
                u == [t EXCEPT !.tries = t.tries \ {c},
                               !.after = IF t.tries = {} THEN t.after \ {c}
                                         ELSE t.after]
            IN  /\ model' = n
                /\ tasks' = Add(Add(tasks \ {t}, u),
                               Task(t.by, t.seg, t.gen, {}, Emitted(model, n),
                                    {}))
                /\ UNCHANGED <<client, app, control, broker, left>>

-----------------------------------------------------------------------------
(* Open tasks.                                                             *)

OpenCurrent(o) ==
    /\ closing = "Open" /\ model.inc = o.inc /\ Has(model, o.seg, o.gen)
    /\ model.children[o.seg].phase = "Opening"

\* finish_cancelled_open, leaving the broker side to the caller.
CancelledOpen(o) ==
    LET n == IF CanChildClosed(model, o.seg, o.gen)
             THEN ChildClosed(model, o.seg) ELSE model
    IN  /\ model' = n
        /\ tasks' = Add(tasks, Free(Emitted(model, n)))

\* The subscribe reaches the broker, perhaps after its child is cancelled:
\* one exclusive consumer per segment.
BrokerAttach ==
    \E o \in opens :
        /\ ~o.attached /\ broker[o.seg].gen = 0
        /\ opens' = (opens \ {o}) \cup {[o EXCEPT !.attached = TRUE]}
        /\ broker' = AtBroker(o.seg, [broker[o.seg] EXCEPT !.gen = o.gen])
        /\ UNCHANGED <<model, tasks, attached, flowRes, arriving, app, control,
                       left>>

\* open_child after the broker's reply, or a stale attempt.
OpenReturns ==
    \E o \in opens :
        /\ opens' = opens \ {o}
        /\ IF OpenCurrent(o)
           THEN LET n == ChildOpened(model, o.seg)
                IN  /\ o.attached
                    /\ model' = n
                    /\ attached' = [attached EXCEPT ![o.seg] = o.gen]
                    /\ tasks' = Add(tasks, Free(Emitted(model, n)))
                    /\ UNCHANGED broker
           ELSE /\ CancelledOpen(o)
                /\ broker' = IF o.attached
                             THEN AtBroker(o.seg, Detached(broker[o.seg]))
                             ELSE broker
                /\ UNCHANGED attached
        /\ UNCHANGED <<flowRes, arriving, app, control, left>>

\* ConsumerBusy: the open task notes it and tries again.
OpenBusy ==
    \E o \in opens :
        /\ ~o.attached /\ OpenCurrent(o) /\ broker[o.seg].gen # 0
        /\ model' = ChildOpenBusy(model, o.seg)
        /\ UNCHANGED <<tasks, client, app, control, broker, left>>

\* Any other error of the open: handle_background_error.
OpenFails ==
    \E o \in opens :
        /\ ~o.attached /\ OpenCurrent(o) /\ Spend("faults")
        /\ opens' = opens \ {o}
        /\ Resync(tasks)
        /\ UNCHANGED <<attached, flowRes, arriving, held, seen, ackCalls, parked,
                       txns, closing, published, applied, lost, broker>>

-----------------------------------------------------------------------------
(* Child loops.                                                            *)

\* The loop of the registered child waits for a frame.
LoopFree(s) ==
    /\ attached[s] # 0 /\ closing = "Open" /\ ~reconnect
    /\ <<s, attached[s]>> \notin returned
    /\ Has(model, s, attached[s]) /\ model.children[s].phase # "Closing"
    /\ \A t \in tasks : ~(t.by = "loop" /\ t.seg = s /\ t.gen = attached[s])
    /\ \A a \in arriving : ~(a.seg = s /\ a.gen = attached[s])

Popped(s) == AtBroker(s, [broker[s] EXCEPT !.wire = Tail(broker[s].wire)])

\* message_arrived up to the decompression: the frame must carry the
\* reservation of the permit it was sent for.  accept_entry and
\* reserve_decompression lock one after the other and are taken as one step:
\* what comes between them can only make the second fail, and a failure of
\* either ends in the same resynchronisation.
LoopReceive(s) ==
    LET g   == attached[s]
        f   == Head(broker[s].wire)
        res == {r \in flowRes : r.seg = s /\ r.gen = g}
        ok  == Receiving(model, s, g) /\ \E r \in res : r.epoch = model.epoch
        grant == [op |-> "grant", seg |-> s, gen |-> g,
                  inc |-> model.children[s].inc, epoch |-> model.epoch]
    IN  /\ LoopFree(s) /\ broker[s].wire # <<>> /\ f.id # End
        /\ broker' = Popped(s) /\ flowRes' = flowRes \ res
        /\ \/ /\ ok /\ ~f.last /\ CanBufferChunk(model, s, g)
              /\ model' = BufferChunk(model, s)
              /\ tasks' = Add(tasks, Task("loop", s, g, {}, {grant}, {}))
              /\ UNCHANGED <<arriving, reconnect, queue>>
           \/ /\ ok /\ f.last
              /\ Msg(s, f.id) \in Transformed => CanReserveWork(model, s, g)
              /\ model' = IF Msg(s, f.id) \in Transformed
                          THEN ReserveWork(model, s) ELSE model
              /\ arriving' = arriving \cup {[seg |-> s, gen |-> g, id |-> f.id]}
              /\ UNCHANGED <<tasks, reconnect, queue>>
           \/ /\ \/ ~ok
                 \/ ~f.last /\ ~CanBufferChunk(model, s, g)
                 \/ f.last /\ Msg(s, f.id) \in Transformed
                      /\ ~CanReserveWork(model, s, g)
              /\ Resync(tasks) /\ UNCHANGED arriving
        /\ UNCHANGED <<opens, attached, held, seen, ackCalls, parked, txns, closing,
                       published, applied, lost, left>>

\* finalize_entry, after the payload has been decompressed.
Finalize ==
    \E a \in arriving :
        LET n == IF Msg(a.seg, a.id) \in Masked THEN Discarded(model, a.seg)
                 ELSE Arrived(model, a.seg)
            r == ArbitrateFlow(n)
        IN  /\ arriving' = arriving \ {a}
            /\ IF Receiving(model, a.seg, a.gen)
               THEN /\ model' = r
                    /\ queue' = IF Msg(a.seg, a.id) \in Masked THEN queue
                                ELSE Append(queue,
                                       [seg |-> a.seg, gen |-> a.gen,
                                        id |-> a.id, token |-> <<>>])
                    /\ tasks' = Add(tasks, Task("loop", a.seg, a.gen, {},
                                                Emitted(n, r), {}))
                    /\ UNCHANGED reconnect
               ELSE Resync(tasks)
            /\ UNCHANGED <<opens, attached, flowRes, held, seen, ackCalls, parked,
                           txns, closing, published, applied, lost, broker,
                           left>>

\* Mutant: the end of a segment is noted but not offered as its completion.
BadLoopTerminal(s) ==
    LET g == attached[s]
        n == IF CanObserveTerminal(model, s, g) THEN ObserveTerminal(model, s)
             ELSE model
    IN  /\ LoopFree(s) /\ broker[s].wire # <<>>
        /\ Head(broker[s].wire).id = End
        /\ broker' = Popped(s)
        /\ model' = n
        /\ tasks' = Add(tasks, Free(Emitted(model, n)))
        /\ returned' = returned \cup {<<s, g>>}
        /\ UNCHANGED <<client, app, reconnect, closing, published, applied,
                       dropped, left>>

\* receive_deferred_until_end returned None: the child loop ends here, and
\* only open_child ever starts one.
LoopTerminal(s) ==
    LET g == attached[s]
        n == IF CanObserveTerminal(model, s, g) THEN ObserveTerminal(model, s)
             ELSE model
    IN  /\ LoopFree(s) /\ broker[s].wire # <<>>
        /\ Head(broker[s].wire).id = End
        /\ broker' = Popped(s)
        /\ model' = n
        /\ tasks' = Add(tasks, Task("loop", s, g, {}, Emitted(model, n),
                                    {<<s, g>>}))
        /\ returned' = returned \cup {<<s, g>>}
        /\ UNCHANGED <<client, app, reconnect, closing, published, applied,
                       dropped, left>>

\* The child consumer fails under its loop.
LoopFails(s) ==
    /\ LoopFree(s) /\ Spend("faults")
    /\ Resync(tasks)
    /\ UNCHANGED <<client, held, seen, ackCalls, parked, txns, closing, published,
                   applied, lost, broker>>

-----------------------------------------------------------------------------
(* The application: receive, restore, nack, seek, close.                   *)

\* One step of reserve_batch: a restored delivery keeps its token, a fresh
\* one is issued.
Reserve(p, q) ==
    CASE ~p.ok -> p
      [] p.ok /\ q.token # <<>> ->
           [ok |-> TRUE, m |-> p.m, toks |-> Append(p.toks, q.token[1])]
      [] p.ok /\ q.token = <<>> /\ CanIssue(p.m, q.seg, q.gen) ->
           [ok |-> TRUE, m |-> IssueDelivery(p.m, q.seg, q.id),
            toks |-> Append(p.toks, Token(p.m, q.seg, q.id))]
      [] OTHER -> [ok |-> FALSE, m |-> p.m, toks |-> p.toks]

\* reserve_batch of the first k deliveries, all or nothing.
Issued(k) ==
    LET step[i \in 0..k] ==
          IF i = 0 THEN [ok |-> TRUE, m |-> model, toks |-> <<>>]
          ELSE Reserve(step[i-1], queue[i])
    IN  step[k]

Receive ==
    \E k \in 1..Len(queue) :
        LET r == Issued(k)
        IN  /\ r.ok
            /\ model' = r.m
            /\ queue' = SubSeq(queue, k + 1, Len(queue))
            /\ held' = held \cup ToSet(r.toks)
            /\ seen' = [s \in Segments |-> seen[s] \cup
                          {t.id : t \in {x \in ToSet(r.toks) : x.seg = s}}]
            /\ UNCHANGED <<tasks, client, ackCalls, parked, txns, control,
                           broker, left>>

\* A cancelled receive gives its delivery back, ahead of every fresh one and
\* in dequeue order; if it cannot, the facade asks for a resynchronisation.
RestoreDelivery ==
    \E t \in held :
        LET later == {i \in 1..Len(queue) :
                        queue[i].token = <<>> \/ queue[i].token[1].seq > t.seq}
            at == IF later = {} THEN Len(queue) + 1 ELSE Min(later)
        IN  /\ closing = "Open" /\ Spend("restores")
            /\ held' = held \ {t}
            /\ IF ValidToken(model, t) /\ ~OpPending(model, t.seq)
               THEN /\ queue' = InsertAt(queue, at,
                                  [seg |-> t.seg, gen |-> t.gen, id |-> t.id,
                                   token |-> <<t>>])
                    /\ UNCHANGED <<model, tasks, reconnect>>
               ELSE Resync(tasks)
            /\ UNCHANGED <<client, seen, ackCalls, parked, txns, closing, published,
                           applied, lost, broker>>

\* negative_acknowledge up to its spawn_actions.
NegativeAcknowledge ==
    \E t \in held :
        LET n == ResolveLeases(model, {t.seq})
        IN  /\ Spend("nacks")
            /\ ValidToken(model, t) /\ ~OpPending(model, t.seq)
            /\ attached[t.seg] = t.gen
            /\ model' = n /\ held' = held \ {t}
            /\ tasks' = Add(tasks, Handoff(Emitted(model, n)))
            /\ broker' = AtBroker(t.seg, [broker[t.seg] EXCEPT
                                           !.sent = broker[t.seg].sent \ {t.id}])
            /\ UNCHANGED <<client, queue, seen, ackCalls, parked, txns, control>>

\* seek_positions: the caller's future executes the seeks.  Dropping it is a
\* failed seek (SeekCancellation).
SeekPositions ==
    LET n == BeginSeek(model)
        seeking(r) == r.seg \in DOMAIN model.children
                        /\ r.gen = model.children[r.seg].gen
    IN  /\ CanSeek(model) /\ Spend("seeks")
        /\ model' = n
        /\ flowRes' = {r \in flowRes : ~seeking(r)}
        /\ tasks' = Add(tasks, ByHand("app", Emitted(model, n)))
        /\ UNCHANGED <<opens, attached, arriving, app, control, broker>>

\* close(): fence everything, then finish_close in a task of its own.
CloseCall ==
    /\ closing = "Open" /\ Spend("closes")
    /\ model' = Close(model)
    /\ tasks' = Add(tasks, Task("closer", 0, 0, {},
                        {a \in Emitted(model, Close(model)) : a.op = "cancel"}
                          \cup {[op |-> "close", seg |-> s, gen |-> attached[s],
                                 inc |-> 0, epoch |-> 0] :
                                  s \in {s \in Segments : attached[s] # 0}},
                        {}))
    /\ closing' = "Closing" /\ queue' = <<>> /\ flowRes' = {}
    /\ parked' = <<>> /\ attached' = [s \in Segments |-> 0]
    /\ UNCHANGED <<opens, arriving, held, ackCalls, txns, reconnect, published,
                   applied, lost, broker, seen>>

Tracked == {t \in tasks : t.by \notin {"app", "handoff"}}

\* Mutant: close does not wait for the open tasks.
BadFinishClose ==
    /\ closing = "Closing" /\ Tracked = {} /\ arriving = {}
    /\ closing' = "Closed"
    /\ UNCHANGED <<model, tasks, client, app, reconnect, published, applied,
                   lost, broker, left>>

\* finish_close has joined the tracked tasks; the futures of the application
\* may still run.
FinishClose ==
    /\ closing = "Closing" /\ Tracked = {} /\ opens = {} /\ arriving = {}
    /\ closing' = "Closed"
    /\ UNCHANGED <<model, tasks, client, app, reconnect, published, applied,
                   lost, broker, left>>

-----------------------------------------------------------------------------
(* Acknowledgements: admission, one broker call per component, settlement. *)

Begin(n, txn) ==
    LET op == CHOOSE o \in n.ops : o.id = model.nextOp
    IN  /\ model' = n
        /\ ackCalls' = ackCalls \cup {[op |-> op, txn |-> txn, left |-> op.comps,
                                       done |-> {}, failed |-> FALSE]}
        /\ UNCHANGED <<tasks, client, queue, held, seen, parked, txns, control,
                       broker>>

AdmitTokens(T, txn) ==
    LET segs  == {t.seg : t \in T}
        comps == {Component(model, s, {t.id : t \in {x \in T : x.seg = s}},
                            FALSE, 0) : s \in segs}
        seqs  == {t.seq : t \in T}
    IN  /\ \A t \in T : ValidToken(model, t)
        /\ CanAdmit(model, seqs)
        /\ Begin(Admit(model, comps, seqs, txn # "none"), txn)

AdmitVector(t, txn) ==
    LET comps == PositionComponents(model, t.vec)
        seqs  == CoveredBy(model, comps)
    IN  /\ \/ ValidToken(model, t)
           \/ txn = "none" /\ ConfirmedRepeat(model, t)
        /\ model.phase = "Open" /\ Representable(model, t.vec)
        /\ comps # {}                   \* nothing left to do otherwise
        /\ CanAdmit(model, seqs)
        /\ Begin(Admit(model, comps, seqs, txn # "none"), txn)

\* acknowledge and acknowledge_batch
Acknowledge ==
    \E T \in SUBSET held :
        T # {} /\ (Cardinality(T) = 1 \/ left.batches > 0)
          /\ AdmitTokens(T, "none") /\ UNCHANGED left

AcknowledgeCumulative ==
    Spend("cumulative") /\ \E t \in held : AdmitVector(t, "none")

AcknowledgeInTransaction ==
    \E x \in Txns : \E t \in held :
        /\ txns[x] = "open" /\ Spend("txnAcks")
        /\ AdmitTokens({t}, x) \/ AdmitVector(t, x)

\* One component reaches the broker, or its child is gone or refuses it.
AckComponent ==
    \E c \in ackCalls : \E p \in c.left :
        LET here == attached[p.seg] = p.gen
            next(done, failed) ==
               ackCalls' = (ackCalls \ {c}) \cup
                  {[c EXCEPT !.left = c.left \ {p}, !.done = c.done \cup done,
                             !.failed = c.failed \/ failed]}
        IN  /\ \/ /\ here /\ next({p.seg}, FALSE)
                  /\ broker' = IF c.txn # "none" THEN broker
                               ELSE AtBroker(p.seg, [broker[p.seg] EXCEPT
                                      !.acked = broker[p.seg].acked \cup p.ids])
                  /\ UNCHANGED left
               \/ ~here /\ next({}, TRUE) /\ UNCHANGED <<broker, left>>
               \/ here /\ Spend("faults") /\ next({}, TRUE) /\ UNCHANGED broker
            /\ UNCHANGED <<model, tasks, client, queue, held, seen, parked, txns,
                           control>>

\* execute_acknowledgement after its last component: settle, then offer the
\* segments to complete_segment before the other actions run, all in the
\* caller's future, whose guard is disarmed.
SettleAck ==
    \E c \in ackCalls :
        LET n == Settle(model, c.op, c.done)
            tries == {<<p.seg, p.gen>> : p \in c.op.comps}
        IN  /\ c.txn = "none" /\ c.left = {}
            /\ ackCalls' = ackCalls \ {c}
            /\ IF CanSettle(model, c.op)
               THEN /\ model' = n
                    /\ tasks' = Add(tasks, Task("app", 0, 0, tries,
                                                Emitted(model, n), {}))
               ELSE UNCHANGED <<model, tasks>>
            /\ UNCHANGED <<client, queue, held, seen, parked, txns, control, broker,
                           left>>

\* The call is dropped before it ends, or a transactional one fails: the
\* operation is cancelled and every lease stays.  Its guard hands the actions
\* over; a caller that the broker refused executes them itself.
AbandonAck ==
    \E c \in ackCalls : \E by \in IF c.failed THEN {"app", "handoff"}
                                  ELSE {"handoff"} :
        LET n == Settle(model, c.op, {})
        IN  /\ IF c.failed THEN c.txn # "none" /\ UNCHANGED left
               ELSE Spend("drops")
            /\ ackCalls' = ackCalls \ {c}
            /\ IF CanSettle(model, c.op)
               THEN /\ model' = n
                    /\ tasks' = Add(tasks, ByHand(by, Emitted(model, n)))
               ELSE UNCHANGED <<model, tasks>>
            /\ UNCHANGED <<client, queue, held, seen, parked, txns, control, broker>>

\* Mutant: the authority of a finished call is dropped, not parked.
BadParkTxnAck ==
    \E c \in ackCalls :
        /\ c.txn # "none" /\ c.left = {} /\ ~c.failed
        /\ ackCalls' = ackCalls \ {c}
        /\ UNCHANGED <<model, tasks, client, queue, held, seen, parked, txns,
                       control, broker, left>>

\* execute_transactional_acknowledgement after its last component.
ParkTxnAck ==
    \E c \in ackCalls :
        /\ c.txn # "none" /\ c.left = {} /\ ~c.failed
        /\ ackCalls' = ackCalls \ {c}
        /\ parked' = IF closing = "Open"
                     THEN Append(parked, [txn |-> c.txn, op |-> c.op])
                     ELSE parked
        /\ UNCHANGED <<model, tasks, client, queue, held, seen, txns, control,
                       broker, left>>

\* The entries of q that are in S, in order.
Keep(p, e, S) == IF e \in S THEN Append(p, e) ELSE p

Within(q, S) ==
    LET upTo[i \in 0..Len(q)] ==
          IF i = 0 THEN <<>> ELSE Keep(upTo[i-1], q[i], S)
    IN  upTo[Len(q)]

\* The authorities of transaction x are settled in the order they were
\* parked.  The first one that is not current ends the loop.
SettleOne(p, e, x, committed) ==
    LET confirmed == IF committed THEN {c.seg : c \in e.op.comps} ELSE {}
    IN  IF e.txn # x THEN p
        ELSE IF p.ok /\ CanSettle(p.m, e.op)
        THEN [ok |-> TRUE, m |-> Settle(p.m, e.op, confirmed)]
        ELSE [ok |-> FALSE, m |-> p.m]

SettledInOrder(x, committed) ==
    LET step[i \in 0..Len(parked)] ==
          IF i = 0 THEN [ok |-> TRUE, m |-> model]
          ELSE SettleOne(step[i-1], parked[i], x, committed)
    IN  step[Len(parked)]

\* propagate_transaction_outcome: the parked authorities are taken whatever
\* happens next; an error drops the actions collected so far.
TransactionOutcome ==
    \E x \in Txns : \E v \in Verdicts \ {"open"} :
        LET mine == {q \in ToSet(parked) : q.txn = x}
            r    == IF v = "unknown" THEN [ok |-> TRUE, m |-> RequireResync(model)]
                    ELSE SettledInOrder(x, v = "committed")
            offers == {<<s, attached[s]>> :
                         s \in {s \in Segments : attached[s] # 0}}
            acked(s) == UNION {c.ids : c \in
                          UNION {{d \in q.op.comps : d.seg = s} : q \in mine}}
        IN  /\ txns[x] = "open" /\ closing = "Open"
            /\ mine # {}            \* the consumer takes part in x
            /\ \A c \in ackCalls : c.txn # x
            /\ IF v = "unknown" THEN Spend("unknowns") ELSE UNCHANGED left
            /\ txns' = [txns EXCEPT ![x] = v]
            /\ parked' = IF v = "unknown" THEN <<>>
                         ELSE Within(parked, ToSet(parked) \ mine)
            /\ reconnect' = (reconnect \/ v = "unknown")
            /\ model' = r.m
            /\ tasks' = IF ~r.ok THEN tasks
                        ELSE Add(tasks, Task("outcome", 0, 0, {},
                                   Emitted(model, r.m),
                                   IF v = "unknown" THEN {} ELSE offers))
            /\ broker' = IF v # "committed" THEN broker
                         ELSE [s \in Segments |->
                                 [broker[s] EXCEPT
                                    !.acked = broker[s].acked \cup acked(s)]]
            /\ UNCHANGED <<client, queue, held, seen, ackCalls, closing,
                           published, applied, lost>>

-----------------------------------------------------------------------------
(* The broker.                                                             *)

Publish ==
    /\ published < Len(Plan)
    /\ published' = published + 1
    /\ UNCHANGED <<model, tasks, client, app, reconnect, closing, applied,
                   lost, broker, left>>

\* The oldest message that is neither acked nor outstanding.
Due(s) == (1..Size[s]) \ (broker[s].sent \cup broker[s].acked)

Dispatch(s) ==
    LET b == broker[s]
        id == Min(Due(s))
        first == Msg(s, id) \in Chunked /\ b.half # id
    IN  /\ b.gen # 0 /\ b.permits > 0 /\ Due(s) # {}
        /\ broker' = AtBroker(s,
             [b EXCEPT !.permits = b.permits - 1,
                       !.wire = Append(b.wire, [id |-> id, last |-> ~first]),
                       !.sent = IF first THEN b.sent ELSE b.sent \cup {id},
                       !.half = IF first THEN id ELSE 0])
        /\ UNCHANGED <<model, tasks, client, app, control, left>>

\* A sealed segment ends once everything in it is acknowledged.
EndOfTopic(s) ==
    /\ broker[s].gen # 0 /\ ~broker[s].ended
    /\ attached[s] = broker[s].gen
    /\ Sealed(Plan[published].layout, s) /\ broker[s].acked = 1..Size[s]
    /\ broker' = AtBroker(s,
         [broker[s] EXCEPT
            !.wire = Append(broker[s].wire, [id |-> End, last |-> TRUE]),
            !.ended = TRUE])
    /\ UNCHANGED <<model, tasks, client, app, control, left>>

-----------------------------------------------------------------------------
Runtime ==
    \/ ControlUpdate \/ ReconnectControlPlane
    \/ SpawnActions \/ Execute \/ TryComplete
    \/ BrokerAttach \/ OpenReturns \/ OpenBusy \/ Finalize
    \/ \E s \in Segments : LoopReceive(s) \/ LoopTerminal(s)

Application ==
    \/ Receive \/ RestoreDelivery \/ NegativeAcknowledge \/ SeekPositions
    \/ CloseCall \/ FinishClose \/ DropClose
    \/ Acknowledge \/ AcknowledgeCumulative \/ AcknowledgeInTransaction
    \/ AckComponent \/ SettleAck \/ AbandonAck \/ ParkTxnAck
    \/ TransactionOutcome

Failures ==
    \/ ControlFails \/ SeekFails \/ CloseFails \/ OpenFails
    \/ \E s \in Segments : LoopFails(s)

Environment == Publish \/ \E s \in Segments : Dispatch(s) \/ EndOfTopic(s)

Next == Runtime \/ Application \/ Failures \/ Environment

Spec == Init /\ [][Next]_vars

-----------------------------------------------------------------------------
(* Properties.                                                             *)

\* Every variable has its type.
TypeOK ==
    /\ model.phase \in {"Open", "ResyncRequired", "Closing", "Closed"}
    /\ DOMAIN model.children \subseteq Segments
    /\ \A s \in DOMAIN model.children :
         LET c == model.children[s]
         IN  /\ c.phase \in Phases /\ c.flow \in Flows
             /\ {c.asm, c.work, c.retained, c.deliveries, c.acks, c.txnAcks,
                 c.preTerm, c.gen, c.inc} \subseteq Nat
    /\ model.history \subseteq Segments /\ model.completed \subseteq Segments
    /\ attached \in [Segments -> Nat]
    /\ closing \in {"Open", "Closing", "Closed"} /\ reconnect \in BOOLEAN
    /\ txns \in [Txns -> Verdicts]
    /\ published \in DOMAIN Plan /\ applied \in 1..published
    /\ \A s \in Segments : broker[s].acked \subseteq 1..Size[s]

\* The frames of messages on a wire, by their place.
Frames(wire) == {i \in DOMAIN wire : wire[i].id # End}

\* The permits, workspaces, assemblies, retained messages and leases of all
\* children together never exceed the receive budget, whatever arrives,
\* restarts or is redelivered (ReceiverBudgetState's data_limit).  Where the
\* application never seeks, what a child may still receive is also reserved:
\* one permit or frame in flight at the broker for one FlowPermit in the
\* ledger.  A seek breaks that half: begin_seek takes the permit out of the
\* ledger while its GrantFlow is still to be executed, and the broker is
\* granted it all the same.
BudgetRespected ==
    /\ Used(model) =< BudgetLimit
    /\ (\A b \in Bounds : b.seeks = 0) =>
       \A s \in DOMAIN model.children :
         LET c == model.children[s]
             frames == Cardinality(Frames(broker[s].wire))
         IN  attached[s] = c.gen /\ c.phase # "Closing" /\ ~c.terminal
               /\ ~reconnect
               => broker[s].permits + frames =< PermitCount(c)

\* A segment's completion barrier counts exactly what its share of the
\* ledger, the queue and the live leases show, so the barrier can always
\* reach zero and never reaches it early.
BarrierExact ==
    \A s \in DOMAIN model.children :
        LET c == model.children[s]
            fresh == {i \in DOMAIN queue : queue[i].token = <<>> /\ queue[i].seg = s}
        IN  /\ c.preTerm = PermitCount(c) + c.asm + c.work + c.retained
            /\ c.deliveries = Cardinality(Leases(model, s))
            /\ model.phase = "Open" => c.retained = Cardinality(fresh)

\* No message of a segment is handed to the application before everything
\* in the segments it was split from, and that this consumer has owned, is
\* acknowledged at the broker.
OrderRespected ==
    \A s \in Segments : \A p \in Segments :
        /\ s \in Present(model.layout) /\ p \in Ancestors(model.layout, s)
        /\ p \in model.history /\ (seen[s] # {} \/ broker[s].sent # {})
        => broker[p].acked = 1..Size[p]

\* The action waits in a task or on its way to one, or it was dropped.
Pending(op, s, g) ==
    \E a \in dropped \cup UNION {t.acts : t \in tasks} :
        a.op = op /\ a.seg = s /\ a.gen = g

\* Somebody is about to move every child that waits: an opening child has an
\* open action or task, a closing one its close, cancel or open task, and a
\* permit is being granted, is at the broker, on the wire, or arriving.  The
\* owner may be lost in three ways that are the code's own: the application
\* drops an acknowledgement that is executing what its settlement returned,
\* close() overtakes spawn_actions (both: dropped), or a seek finds a child
\* whose loop has returned, so that nobody reads what its next permit brings
\* (returned).
EveryChildHasOwner ==
    \A s \in DOMAIN model.children :
        LET c == model.children[s]
            opening == \E o \in opens : o.seg = s /\ o.gen = c.gen
        IN  /\ c.phase = "Opening" =>
                 opening \/ Pending("open", s, c.gen)
            /\ c.phase = "Closing" =>
                 \/ opening \/ Pending("cancel", s, c.gen)
                 \/ Pending("close", s, c.gen)
            /\ c.phase = "Seeking" => Pending("seek", s, c.gen)
            /\ /\ c.flow # "none" /\ c.phase # "Closing" /\ ~reconnect
               /\ <<s, c.gen>> \notin returned
               => \/ Pending("grant", s, c.gen)
                  \/ \E a \in arriving : a.seg = s /\ a.gen = c.gen
                  \/ /\ \E r \in flowRes : r.seg = s /\ r.gen = c.gen
                     /\ broker[s].gen = c.gen
                     /\ broker[s].permits + Len(broker[s].wire) > 0

\* Only messages the application has received are ever acknowledged, also by
\* a batch, by a cumulative acknowledgement over several segments and across
\* redeliveries and moves.
AckedWasSeen == \A s \in Segments : broker[s].acked \subseteq seen[s]

\* Every admitted acknowledgement is in a call still running or parked under
\* its transaction: none keeps a segment's barrier up with nobody to lower it.
\* That is so for one transactional acknowledgement per session: the outcome
\* of a transaction with two of them stops at the first whose session is
\* over, and the authority behind it is taken all the same.
OpsHaveOwner ==
    \A op \in model.ops :
        \/ \E c \in ackCalls : c.op = op
        \/ \E i \in DOMAIN parked : parked[i].op = op

\* A closed aggregate has released every consumer it had at the broker, every
\* child and every unit of its budget, whatever opens, closes, seeks,
\* acknowledgements and failures were under way.  One thing close() may leave
\* behind is the record of a child that never opened: its open failed, and
\* the CancelOpen of that resynchronisation came to spawn_actions too late.
ClosedIsReleased ==
    closing = "Closed" =>
        /\ opens = {} /\ \A s \in Segments : attached[s] = 0 /\ broker[s].gen = 0
        /\ \A s \in DOMAIN model.children :
             Pending("cancel", s, model.children[s].gen)

\* Nothing is under way at the client, on the wire or at the broker, and the
\* application has acknowledged whatever it could.
Quiescent ==
    /\ tasks = {} /\ opens = {} /\ arriving = {} /\ ackCalls = {}
    /\ queue = <<>> /\ ~reconnect /\ closing = "Open"
    /\ applied = Len(Plan) /\ parked = <<>>
    /\ \A t \in held : ~ValidToken(model, t)
    /\ \A s \in Segments :
         LET b == broker[s]
         IN  /\ b.wire = <<>>
             /\ b.gen = 0 \/ b.permits = 0 \/ Due(s) = {}
             /\ Sealed(Len(Layouts), s) /\ b.acked = 1..Size[s] => b.gen = 0 \/ b.ended

\* When nobody has anything left to do, everything the broker stored has been
\* acknowledged: the parent was drained, its children were opened, granted
\* their permits and drained after it.  No grant, completion or close is ever
\* waited for in vain, whatever was nacked, acknowledged in batches or moved.
QuiescentIsDrained ==
    Quiescent => \A s \in DOMAIN Before(model) : broker[s].acked = 1..Size[s]

=============================================================================
