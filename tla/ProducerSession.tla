-------------------------- MODULE ProducerSession --------------------------
(***************************************************************************)
(* The producer of ProducerSends composed with the broker it publishes to: *)
(* two FIFO wires and a log.  The broker is external; it is modelled from  *)
(* what the handlers and comments of the client rely on:                   *)
(*   - a CommandProducer is answered, refused, or lost in the broker;      *)
(*   - every CommandSend of an attached producer is persisted and answered *)
(*     by a receipt with its range, or refused by a send error;            *)
(*   - a CommandSend for a producer it does not hold is discarded;         *)
(*   - it may close the producer on a live connection at any time.         *)
(***************************************************************************)
EXTENDS ProducerSends

CONSTANTS
    Scenarios,  \* sets of disruptions; a behaviour draws from one of them
    MaxFaults   \* bound: how many disruptions happen

ASSUME FaultsAssumption == MaxFaults \in Nat

VARIABLES
    inbound,  \* frames on their way to the client
    reg,      \* the producer at the broker: none, attached, or closed
    log,      \* the sends an attached producer's broker took, persisted or refused
    may,      \* the disruptions of this behaviour
    faults    \* how many of them are left

bvars == <<inbound, reg, log, may, faults>>
svars == <<vars, bvars>>

SessionInit ==
    /\ Init
    /\ inbound = <<>>
    /\ reg = "none"
    /\ log = <<>>
    /\ may \in Scenarios
    /\ faults = MaxFaults

Fault(f) ==
    /\ f \in may
    /\ faults > 0
    /\ faults' = faults - 1
    /\ UNCHANGED may

NoFault == UNCHANGED <<may, faults>>

(* The driver writes, reads and fires timers inside its loop; it rebuilds  *)
(* in the iteration that read CommandConnected, before it comes to that    *)
(* again.  Only other tasks run while the connection is "rebuilding".      *)
InLoop == conn \in {"handshaking", "connected"}

-----------------------------------------------------------------------------
(* The broker takes the next frame off the client's wire.                  *)

Takes(type) ==
    /\ IsConnected /\ InLoop
    /\ wire # <<>>
    /\ Head(wire).type = type
    /\ PollTransmit

Taken == Head(wire).arg
Reply(type, arg) == inbound' = Append(inbound, Frame(type, arg))

Took(persisted) == log' = Append(log, [frame |-> Taken, persisted |-> persisted])

BrokerProducer ==
    /\ Takes("Producer")
    /\ Reply("ProducerSuccess", Taken)
    /\ reg' = "attached"
    /\ NoFault /\ UNCHANGED log

(* The open is refused, for now or for good, or never answered. *)
BrokerRefusesProducer ==
    /\ Takes("Producer")
    /\ \/ Fault("refuse") /\ Reply("NotReady", Taken)
       \/ Fault("deny") /\ Reply("Denied", Taken)
       \/ Fault("silent") /\ UNCHANGED inbound
    /\ reg' = "none"
    /\ UNCHANGED log

BrokerSend ==
    /\ Takes("Send")
    /\ IF reg = "attached"
         THEN /\ Took(TRUE)
              /\ Reply("SendReceipt", Taken)
         ELSE UNCHANGED <<log, inbound>>
    /\ NoFault /\ UNCHANGED reg

BrokerRefusesSend ==
    /\ Takes("Send")
    /\ reg = "attached"
    /\ Fault("reject")
    /\ Reply("SendError", Taken)
    /\ Took(FALSE)
    /\ UNCHANGED reg

BrokerCloses ==
    /\ Takes("CloseProducer")
    /\ Reply("Success", Taken)
    /\ reg' = "closed"
    /\ NoFault /\ UNCHANGED log

(* A bundle unload on a live socket. *)
BrokerUnload ==
    /\ IsConnected
    /\ reg = "attached"
    /\ Fault("unload")
    /\ Reply("CloseProducer", NoReq)
    /\ reg' = "closed"
    /\ UNCHANGED <<vars, log>>

-----------------------------------------------------------------------------
(* The client reads the next frame of the broker.                          *)

Arrives(type) ==
    /\ IsConnected /\ InLoop
    /\ inbound # <<>>
    /\ Head(inbound).type = type
    /\ inbound' = Tail(inbound)
    /\ UNCHANGED <<reg, log, may, faults>>

Arg == Head(inbound).arg

(* An answer to a request that is no longer pending changes nothing. *)
Ignored(r) == requests[r] = "none" /\ UNCHANGED vars

ClientProducerSuccess ==
    Arrives("ProducerSuccess") /\ (HandleProducerSuccess(Arg) \/ Ignored(Arg))
ClientNotReady == Arrives("NotReady") /\ (HandleOpenRefused(Arg, TRUE) \/ Ignored(Arg))
ClientDenied == Arrives("Denied") /\ (HandleOpenRefused(Arg, FALSE) \/ Ignored(Arg))
ClientSendReceipt == Arrives("SendReceipt") /\ HandleSendReceipt(Arg.lo, Arg.hi)
ClientSendError == Arrives("SendError") /\ HandleSendError(Arg.lo)
ClientCloseProducer == Arrives("CloseProducer") /\ HandleCloseProducer
ClientSuccess == Arrives("Success") /\ (HandleCloseAcked(Arg) \/ Ignored(Arg))

-----------------------------------------------------------------------------
(* The application and the driver.                                         *)

AppSend == (\E way \in Ways : Send(way)) /\ UNCHANGED bvars
AppPoll(q) == Poll(q) /\ UNCHANGED bvars
AppFlush == Fault("flush") /\ StartFlush /\ UNCHANGED <<inbound, reg, log>>
AppFlushed == FlushReturns /\ UNCHANGED bvars
AppClose == Fault("close") /\ CloseProducer /\ UNCHANGED <<inbound, reg, log>>

DriverDrain == InLoop /\ DrainProducerOutbound /\ UNCHANGED bvars
DriverBatchDue == InLoop /\ HandleTimeout(TRUE, 1) /\ UNCHANGED bvars
DriverSendsLate ==
    /\ InLoop
    /\ Fault("timeout")
    /\ \E due \in BOOLEAN, cut \in 2..p.next : HandleTimeout(due, cut)
    /\ UNCHANGED <<inbound, reg, log>>

(* operation_timeout: nobody answers an open, or the answer is late. *)
Unanswered(r) ==
    /\ \A i \in 1..Len(wire) : wire[i] # Frame("Producer", r)
    /\ \A i \in 1..Len(inbound) : inbound[i].type \in {"ProducerSuccess", "NotReady", "Denied"}
                                    => inbound[i].arg # r
DriverOpenExpires ==
    /\ InLoop
    /\ \E r \in Requests : Unanswered(r) /\ ExpireProducerOpen(r)
    /\ UNCHANGED bvars
DriverOpenLate ==
    /\ InLoop
    /\ Fault("slow")
    /\ \E r \in Requests : ~Unanswered(r) /\ ExpireProducerOpen(r)
    /\ UNCHANGED <<inbound, reg, log>>

DriverRetry == RetryProducerOpen(TRUE) /\ UNCHANGED bvars
(* It ends the producer, so that it needs no share of the bound. *)
DriverLookupFails == "lookup" \in may /\ RetryProducerOpen(FALSE) /\ UNCHANGED bvars

(* The broker forgets the producers of a dead connection. *)
TransportLost ==
    /\ Fault("disconnect")
    /\ Disconnect
    /\ inbound' = <<>>
    /\ reg' = "none"
    /\ UNCHANGED log

SupervisorReset == Reset /\ UNCHANGED bvars
SupervisorConnected == Connected /\ UNCHANGED bvars
SupervisorRebuilds == RebuildProducers /\ UNCHANGED bvars
SupervisorGivesUp == Fault("giveup") /\ FailAllPending /\ UNCHANGED <<inbound, reg, log>>

SessionNext ==
    \/ BrokerProducer
    \/ BrokerRefusesProducer
    \/ BrokerSend
    \/ BrokerRefusesSend
    \/ BrokerCloses
    \/ BrokerUnload
    \/ ClientProducerSuccess
    \/ ClientNotReady
    \/ ClientDenied
    \/ ClientSendReceipt
    \/ ClientSendError
    \/ ClientCloseProducer
    \/ ClientSuccess
    \/ AppSend
    \/ \E q \in Seqs : AppPoll(q)
    \/ AppFlush
    \/ AppFlushed
    \/ AppClose
    \/ DriverDrain
    \/ DriverBatchDue
    \/ DriverSendsLate
    \/ DriverOpenExpires
    \/ DriverOpenLate
    \/ DriverRetry
    \/ DriverLookupFails
    \/ TransportLost
    \/ SupervisorReset
    \/ SupervisorConnected
    \/ SupervisorRebuilds
    \/ SupervisorGivesUp

SessionSpec == SessionInit /\ [][SessionNext]_svars

(* Fairness: the broker serves its wire, the driver reads, drains, runs    *)
(* its timers and retry legs, the supervisor reconnects, and the executor  *)
(* polls a future that was woken.  Nothing is assumed of disruptions.      *)
Fairness ==
    /\ WF_svars(BrokerProducer \/ BrokerSend \/ BrokerCloses)
    /\ WF_svars(ClientProducerSuccess \/ ClientNotReady \/ ClientDenied \/ ClientSendReceipt
                  \/ ClientSendError \/ ClientCloseProducer \/ ClientSuccess)
    /\ WF_svars(DriverDrain)
    /\ WF_svars(DriverBatchDue)
    /\ WF_svars(DriverRetry)
    /\ WF_svars(DriverOpenExpires)
    /\ WF_svars(SupervisorReset)
    /\ WF_svars(SupervisorConnected)
    /\ WF_svars(SupervisorRebuilds)
    /\ \A q \in Seqs : WF_svars(fut[q] = "ready" /\ AppPoll(q))

FairSessionSpec == SessionSpec /\ Fairness

-----------------------------------------------------------------------------
(* Properties.                                                             *)

(* Every send queue_send accepted is in exactly one place: no receipt,     *)
(* error, timeout, reset, replay or close loses it, keeps two copies of it *)
(* or resolves it twice.  Two cases are excepted, in which the code does:  *)
(* a supervisor that gives up resolves a send again whose waker is left in *)
(* the slab, and a producer closed around a reset is not rebuilt, which    *)
(* drops what the reset set aside for it (rebuild_producers).              *)
SendsTracked ==
    "giveup" \notin may /\ ~({"close", "disconnect"} \subseteq may) =>
      /\ \A i, j \in 1..Len(Held) : Held[i].seq = Held[j].seq => i = j
      /\ \A q \in Seqs :
            IF q < p.next THEN \E place \in Places(q) : Places(q) = {place}
                          ELSE Places(q) = {}

(* "The waker will be woken when an outcome lands": a future that parked   *)
(* has no outcome waiting, and its waker is where the handler that will    *)
(* resolve its own send looks for it.  This is so as long as no send times *)
(* out: drain_timed_out_sends shortens pending and leaves pending_index as *)
(* it was, and a later poll registers on the op of another send.  And the  *)
(* sends a close around a reset drops have no op at all.                   *)
ParkedIsRegistered ==
    "timeout" \notin may /\ ~({"close", "disconnect"} \subseteq may) =>
      \A q \in Seqs : fut[q] = "parked" =>
         /\ outcomes[q] = "none"
         /\ \E op \in OpsOf(p.pending) \cup OpsOf(snapshots) : op.seq = q /\ WakerFor(op)

(* "Pulsar closes the WHOLE connection on a send to a not-ready producer": *)
(* no CommandSend reaches a broker that has not attached the producer on   *)
(* this connection, unless one side closed it while the send was on its    *)
(* way.  Holds because drain_producer_outbound is gated by broker_ready.   *)
NeverSentUnattached ==
    IsConnected /\ wire # <<>> /\ Head(wire).type = "Send" => reg # "none"

(* Publishes reach the broker in sequence-id order: when one arrives after *)
(* a later one, the broker has had it before that one, so deduplication    *)
(* drops a copy and never an original.  Every replay path matters here.    *)
PublishedInOrder ==
    \A i, j \in 1..Len(log) :
       i < j /\ Before(log[j].frame, log[i].frame) =>
         \E k \in 1..(i - 1) : log[k].frame = log[j].frame

(* A batched send whose frame is gone: neither staged, nor on the wire,    *)
(* nor persisted.  A batched op has no replay frames, so nothing stages it *)
(* again when the broker closes the producer under it, and a send error    *)
(* names the lowest id of its batch alone; only a send timeout, a close or *)
(* a reset resolves such a send.                                           *)
Carries(f, q) == f.lo <= q /\ q <= f.hi
Discarded(q) ==
    /\ \E op \in OpsOf(p.pending) : op.seq = q /\ ~Replayable(op)
    /\ \A i \in 1..Len(p.batch) : p.batch[i] # q
    /\ \A i \in 1..Len(p.outbound) : ~Carries(p.outbound[i], q)
    /\ \A i \in 1..Len(wire) : wire[i].type = "Send" => ~Carries(wire[i].arg, q)
    /\ \A i \in 1..Len(log) : log[i].persisted => ~Carries(log[i].frame, q)

(* The future of every accepted send returns, through reconnects, closes   *)
(* by the broker, refused and unanswered opens, late answers and a         *)
(* supervisor that gives up.  A batch whose frame is gone for good is      *)
(* excepted.  The property needs that no open times out after a newer one  *)
(* has attached, which takes two opens in flight, a refusal and a silence  *)
(* on one reconnect: expire_pending_producer_open then shuts the gate of   *)
(* the attached producer and nobody opens it again.                        *)
SendsResolve ==
    \A q \in Seqs : (fut[q] = "ready") ~> [](fut[q] \in Done \/ Discarded(q))

-----------------------------------------------------------------------------
(* The promise this session keeps.  A verdict falls when the outcome is    *)
(* recorded, before the future that takes it is polled.                    *)

Verdict ==
    [q \in Seqs |->
       IF fut[q] = "idle" THEN "idle"
       ELSE IF fut[q] \in Done THEN fut[q]
       ELSE IF outcomes[q] = "none" THEN "open"
       ELSE IF outcomes[q] = "receipt" THEN "ok" ELSE "err"]

Stored ==
    {q \in Seqs : \E i \in 1..Len(log) : log[i].persisted /\ Carries(log[i].frame, q)}

Promise == INSTANCE PublishPromise
             WITH Sends <- Seqs, verdict <- Verdict, stored <- Stored

(* The producer keeps PublishPromise through every disruption: one verdict *)
(* per send, never revised by a late receipt, a timeout, a replay or the   *)
(* poll that takes it, and no confirmation of what was not stored.  Only a *)
(* supervisor that gives up after a reconnect may revise one, of a send    *)
(* that was polled twice after its replay (see SendsTracked).              *)
KeepsPromise == Promise!Spec
=============================================================================
