-------------------------- MODULE ConsumerSession --------------------------
(***************************************************************************)
(* One consumer of ConsumerPermits composed with the broker that serves    *)
(* it: two FIFO wires and a dispatcher.  The broker is external; it is     *)
(* modelled from what the comments and handlers of the client rely on:     *)
(*   - a consumer is created with no permits, and a CommandFlow that names *)
(*     a consumer the broker does not hold is dropped;                     *)
(*   - a CommandSubscribe for a consumer the broker holds is answered and  *)
(*     otherwise ignored; creating one takes time;                         *)
(*   - a seek removes the consumer before it is acknowledged;              *)
(*   - an entry is dispatched while at least one permit is left and        *)
(*     charges all its members, so permits may go below zero.              *)
(***************************************************************************)
EXTENDS ConsumerPermits, SequencesExt

CONSTANTS
    Backlog,    \* bound: entries the broker has to dispatch
    KindsSent,  \* the kinds of entry in the backlog
    SingleThreaded, \* TRUE: a current_thread executor, FALSE: worker threads
    Scenarios,  \* sets of disruptions; a behaviour draws from one of them
    MaxFaults   \* bound: how many disruptions happen

ASSUME BacklogAssumption == Backlog \in Nat
ASSUME ThreadsAssumption == SingleThreaded \in BOOLEAN
ASSUME FaultsAssumption == MaxFaults \in Nat
ASSUME KindsSentAssumption ==
    KindsSent \subseteq {"plain", "dead", "undecodable", "chunk", "marker"}

VARIABLES
    inbound,   \* frames on their way to the client
    held,      \* the broker holds the consumer
    creating,  \* the subscribe request it is creating one for, or NoReq
    permits,   \* the dispatcher's permits for it
    backlog,   \* entries left to dispatch
    half,      \* the chunked message whose first chunk has been dispatched
    may,       \* the disruptions of this behaviour
    faults     \* how many of them are left

bvars == <<inbound, held, creating, permits, backlog, half, may, faults>>
svars == <<cvars, bvars>>

SessionInit ==
    /\ Init
    /\ inbound = <<>>
    /\ held = FALSE
    /\ creating = NoReq
    /\ permits = 0
    /\ backlog = Backlog
    /\ half = {}
    /\ may \in Scenarios
    /\ faults = MaxFaults

(* The client's locks are released between a task's ack and its initial    *)
(* flow, and between Connected and the rebuild, with no await in between:  *)
(* on one thread nothing of the client runs there, on several anything may. *)
TaskYielded == SingleThreaded => task \notin {"opened", "granting"}
DriverYielded == SingleThreaded => conn # "rebuilding"

Reply(type, arg) == Frame(type, arg)
Fault(f) ==
    /\ f \in may
    /\ faults > 0
    /\ faults' = faults - 1
    /\ UNCHANGED may

-----------------------------------------------------------------------------
(* The broker takes the next frame off the client's wire.                  *)

Takes(type) ==
    /\ IsConnected
    /\ outbound # <<>>
    /\ Head(outbound).type = type
    /\ outbound' = Tail(outbound)
    /\ UNCHANGED <<c, conn, nextReq, pending, retry, task, taskReq, recv>>

Asked == Head(outbound).arg

(* A consumer it holds is answered at once; while one is being created a   *)
(* second request is refused; otherwise creation starts.                   *)
BrokerSubscribe ==
    /\ Takes("Subscribe")
    /\ IF held
         THEN /\ inbound' = Append(inbound, Reply("Subscribed", Asked))
              /\ UNCHANGED creating
         ELSE IF creating # NoReq
         THEN /\ inbound' = Append(inbound, Reply("NotReady", Asked))
              /\ UNCHANGED creating
         ELSE /\ creating' = Asked
              /\ UNCHANGED inbound
    /\ UNCHANGED <<held, permits, backlog, half, may, faults>>

(* Creation ends: the consumer starts with no permits, and a broker that   *)
(* elects an active consumer announces it in the same write.               *)
BrokerCreated ==
    /\ creating # NoReq
    /\ creating' = NoReq
    /\ held' = TRUE
    /\ permits' = 0
    /\ inbound' \in {inbound \o <<Reply("Subscribed", creating)>>}
         \cup IF "promote" \in may
                THEN {inbound \o <<Reply("Promoted", 0), Reply("Subscribed", creating)>>,
                      inbound \o <<Reply("Subscribed", creating), Reply("Promoted", 0)>>}
                ELSE {}
    /\ UNCHANGED <<cvars, backlog, half, may, faults>>

(* Creation fails, with an error the client may retry or one it may not. *)
BrokerRefusesSubscribe ==
    /\ creating # NoReq
    /\ creating' = NoReq
    /\ \/ /\ Fault("refuse")
          /\ inbound' = Append(inbound, Reply("NotReady", creating))
       \/ /\ Fault("deny")
          /\ inbound' = Append(inbound, Reply("Denied", creating))
    /\ UNCHANGED <<cvars, held, permits, backlog, half>>

BrokerFlow ==
    /\ Takes("Flow")
    /\ permits' = IF held THEN permits + Asked ELSE permits
    /\ UNCHANGED <<inbound, held, creating, backlog, half, may, faults>>

(* The broker removes the consumer; the part-sent chunked message will be  *)
(* sent again from its first chunk.                                        *)
Removed ==
    /\ held' = FALSE
    /\ permits' = 0
    /\ half' = {}

BrokerSeek ==
    /\ Takes("Seek")
    /\ IF held
         THEN /\ Removed
              /\ inbound' = Append(inbound, Reply("SeekDone", Asked))
         ELSE /\ inbound' = Append(inbound, Reply("SeekRefused", Asked))
              /\ UNCHANGED <<held, permits, half>>
    /\ UNCHANGED <<creating, backlog, may, faults>>

BrokerRefusesSeek ==
    /\ Fault("refuseSeek")
    /\ Takes("Seek")
    /\ inbound' = Append(inbound, Reply("SeekRefused", Asked))
    /\ UNCHANGED <<held, creating, permits, backlog, half>>

(* A close also retires a consumer that is still being created. *)
BrokerClose ==
    /\ Takes("Close")
    /\ Removed
    /\ creating' = NoReq
    /\ inbound' = Append(inbound, Reply("Closed", Asked))
    /\ UNCHANGED <<backlog, may, faults>>

-----------------------------------------------------------------------------
(* What the broker does on its own.                                        *)

Dispatchable ==
    { [type |-> "Message", arg |-> m] :
        m \in { e \in Entries :
                  \/ e.kind \in KindsSent
                  \/ /\ "chunk" \in KindsSent
                     /\ e.kind = "first" /\ half = {}
                  \/ /\ e.kind = "last" /\ e.uuid \in half } }
      \cup IF "marker" \in KindsSent THEN {Reply("Marker", 1)} ELSE {}

Charge(f) == IF f.type = "Marker" THEN 1 ELSE f.arg.n

BrokerDispatch ==
    /\ held
    /\ permits > 0
    /\ backlog > 0
    /\ \E f \in Dispatchable :
         /\ inbound' = Append(inbound, f)
         /\ permits' = permits - Charge(f)
         /\ half' = IF f.type = "Message" /\ f.arg.kind = "first" THEN {f.arg.uuid}
                    ELSE IF f.type = "Message" /\ f.arg.kind = "last" THEN {}
                    ELSE half
    /\ backlog' = backlog - 1
    /\ UNCHANGED <<cvars, held, creating, may, faults>>

(* The consumer is closed by the broker: its bundle is reassigned on the   *)
(* same broker, or its topic moves to another one.                         *)
BrokerUnload ==
    /\ held
    /\ Removed
    /\ \/ /\ Fault("unload")
          /\ inbound' = Append(inbound, Reply("CloseConsumer", FALSE))
       \/ /\ Fault("move")
          /\ inbound' = Append(inbound, Reply("CloseConsumer", TRUE))
    /\ UNCHANGED <<cvars, creating, backlog>>

BrokerTerminatesTopic ==
    /\ Fault("terminate")
    /\ held
    /\ backlog = 0
    /\ inbound' = Append(inbound, Reply("EndOfTopic", 0))
    /\ UNCHANGED <<cvars, held, creating, permits, backlog, half>>

BrokerPromote ==
    /\ Fault("promote")
    /\ held
    /\ inbound' = Append(inbound, Reply("Promoted", 0))
    /\ UNCHANGED <<cvars, held, creating, permits, backlog, half>>

-----------------------------------------------------------------------------
(* The client handles the next frame.                                      *)

Arrives(type) ==
    /\ TaskYielded
    /\ inbound # <<>>
    /\ Head(inbound).type = type
    /\ inbound' = Tail(inbound)
    /\ UNCHANGED <<held, creating, permits, backlog, half, may, faults>>

Arg == Head(inbound).arg

(* An answer to a request the client no longer tracks is ignored. *)
Ignored(r) ==
    /\ IsConnected
    /\ pending[r] = "none"
    /\ UNCHANGED cvars

ClientMessage == Arrives("Message") /\ HandleMessage(Arg)
ClientMarker == Arrives("Marker") /\ HandleMarker
ClientSubscribed == Arrives("Subscribed") /\ (HandleSubscribed(Arg) \/ Ignored(Arg))
ClientNotReady ==
    Arrives("NotReady") /\ (HandleSubscribeRefused(Arg, TRUE) \/ Ignored(Arg))
ClientDenied ==
    Arrives("Denied") /\ (HandleSubscribeRefused(Arg, FALSE) \/ Ignored(Arg))
ClientSeekDone == Arrives("SeekDone") /\ HandleSeekDone(Arg)
ClientSeekRefused == Arrives("SeekRefused") /\ HandleSeekRefused(Arg)
ClientClosed ==
    /\ Arrives("Closed")
    /\ \/ HandleReattachClosed(Arg)
       \/ pending[Arg] = "close" /\ HandleOtherAnswer(Arg)
ClientCloseConsumer == Arrives("CloseConsumer") /\ HandleCloseConsumer(Arg)
ClientEndOfTopic == Arrives("EndOfTopic") /\ HandleEndOfTopic
ClientPromoted == Arrives("Promoted") /\ HandlePromoted

-----------------------------------------------------------------------------
(* Client steps that take no frame.                                        *)

ClientStep ==
    \/ Receive
    \/ Resume
    \/ ObserveSubscribed
    \/ ResubscribeAfterSeek
    \/ RetrySubscribe
    \/ Connected

Local ==
    /\ \/ GrantInitialFlow /\ DriverYielded
       \/ Rebuild /\ TaskYielded
       \/ ClientStep /\ TaskYielded /\ DriverYielded
    /\ UNCHANGED bvars

(* What the application does, counted as a disruption. *)
App(f) ==
    /\ Fault(f)
    /\ TaskYielded /\ DriverYielded
    /\ UNCHANGED <<inbound, held, creating, permits, backlog, half>>

AppPause == App("pause") /\ Pause
AppSeek == App("seek") /\ Seek
AppDropSeek == App("drop") /\ DropSeek
AppAbandon == App("abandon") /\ AbandonWaiter
AppRecover == App("recover") /\ ResubscribeInPlace
AppCancel == App("cancel") /\ CancelSubscribe
AppClose == App("close") /\ Close

DriverAdjust ==
    /\ TaskYielded /\ DriverYielded
    /\ \E over \in BOOLEAN : AdjustTick(over)
    /\ UNCHANGED bvars

DriverSweep ==
    /\ Fault("sweep")
    /\ TaskYielded /\ DriverYielded
    /\ \E u \in Uuids : SweepExpiredChunks(u)
    /\ UNCHANGED <<inbound, held, creating, permits, backlog, half>>

(* The broker reaps the consumer of a dead connection at its own pace;     *)
(* its reconnect finds it gone.                                            *)
TransportLost ==
    /\ Fault("disconnect")
    /\ TaskYielded /\ DriverYielded
    /\ Disconnect
    /\ Removed
    /\ creating' = NoReq
    /\ inbound' = <<>>
    /\ UNCHANGED backlog

SupervisorReset == TaskYielded /\ Reset /\ UNCHANGED bvars

SessionNext ==
    \/ BrokerSubscribe
    \/ BrokerCreated
    \/ BrokerRefusesSubscribe
    \/ BrokerFlow
    \/ BrokerSeek
    \/ BrokerRefusesSeek
    \/ BrokerClose
    \/ BrokerDispatch
    \/ BrokerUnload
    \/ BrokerTerminatesTopic
    \/ BrokerPromote
    \/ ClientMessage
    \/ ClientMarker
    \/ ClientSubscribed
    \/ ClientNotReady
    \/ ClientDenied
    \/ ClientSeekDone
    \/ ClientSeekRefused
    \/ ClientClosed
    \/ ClientCloseConsumer
    \/ ClientEndOfTopic
    \/ ClientPromoted
    \/ Local
    \/ AppPause
    \/ AppSeek
    \/ AppDropSeek
    \/ AppAbandon
    \/ AppRecover
    \/ AppCancel
    \/ AppClose
    \/ DriverAdjust
    \/ DriverSweep
    \/ TransportLost
    \/ SupervisorReset

SessionSpec == SessionInit /\ [][SessionNext]_svars

(* Fairness: the broker serves its wire, creates consumers and dispatches; *)
(* the driver reads the socket, reconnects and runs its retry legs; the    *)
(* executor polls every woken future, and the application goes on calling  *)
(* receive and resumes what it paused.  No disruption is ever forced.      *)
BrokerServes ==
    BrokerSubscribe \/ BrokerFlow \/ BrokerSeek \/ BrokerClose
ClientReads ==
    \/ ClientMessage \/ ClientMarker \/ ClientSubscribed \/ ClientNotReady
    \/ ClientSeekDone \/ ClientSeekRefused \/ ClientClosed
    \/ ClientDenied \/ ClientCloseConsumer \/ ClientEndOfTopic \/ ClientPromoted
Reconnects ==
    SupervisorReset
      \/ (TaskYielded /\ (Connected \/ Rebuild) /\ UNCHANGED bvars)
SubscribeTask ==
    /\ \/ GrantInitialFlow
       \/ TaskYielded /\ (ObserveSubscribed \/ ResubscribeAfterSeek)
    /\ DriverYielded
    /\ UNCHANGED bvars
Polled(A) == A /\ TaskYielded /\ DriverYielded /\ UNCHANGED bvars

Fairness ==
    /\ WF_svars(BrokerServes)
    /\ WF_svars(BrokerCreated)
    /\ WF_svars(BrokerDispatch)
    /\ WF_svars(ClientReads)
    /\ WF_svars(Reconnects)
    /\ WF_svars(SubscribeTask)
    /\ WF_svars(Polled(RetrySubscribe))
    /\ WF_svars(Polled(Receive))
    /\ WF_svars(Polled(Resume))

FairSessionSpec == SessionSpec /\ Fairness

-----------------------------------------------------------------------------
(* Properties.                                                             *)

ChargedOn(wire) ==
    FoldLeft(LAMBDA a, f : IF f.type \in {"Message", "Marker"}
                             THEN a + Charge(f) ELSE a, 0, wire)

GrantedOn(wire) ==
    FoldLeft(LAMBDA a, f : IF f.type = "Flow" THEN a + f.arg ELSE a, 0, wire)

(* The broker holds the consumer and the mirrors describe that attach: its *)
(* initial grant has gone out and no seek is about to retire it.           *)
InSync ==
    /\ held
    /\ c.window > 0
    /\ ~c.initial_grant_due
    /\ c.pending_seek = NoReq

(* The receiver queue is a bound on memory: whatever the broker may still  *)
(* send, what is on its way and what the application has not taken fit in  *)
(* receiver_queue_size together (in its ceiling, where the Auto policy     *)
(* moves the size).  It is what the once-per-attach guard of               *)
(* Connection::initial_flow protects from the racing grants of the ack,    *)
(* the promotion and the subscribing task (issue #427).                    *)
WindowBounded ==
    InSync =>
      permits + GrantedOn(outbound) + ChargedOn(inbound) + c.queue
        <= (IF AutoPolicy THEN AutoCap ELSE c.receiver_queue_size)

(* permit_balance mirrors the broker: once it describes the current        *)
(* attach, it is what the broker may still spend, plus the units and the   *)
(* flows on the wires.  Lower, and the starvation predicate and Auto fire  *)
(* on a fed consumer; higher, and a debit was missed for good.             *)
MirrorExact ==
    InSync =>
      c.permit_balance =
        Max2(permits + GrantedOn(outbound) + ChargedOn(inbound), 0)

(* Nothing is in flight and nobody has anything left to do but the broker. *)
Quiescent ==
    /\ conn = "connected"
    /\ task = "ready"
    /\ retry = NoReq
    /\ creating = NoReq
    /\ recv = "parked"
    /\ inbound = <<>>
    /\ outbound = <<>>
    /\ ~IsTerminal(c)
    /\ ~c.paused

(* No wedge: when an application waits in receive, nothing is in flight    *)
(* and the broker has a backlog, the broker holds the consumer and has     *)
(* permits for it.  Otherwise both sides wait for each other for ever.     *)
ParkedMeansFed == Quiescent /\ backlog > 0 => held /\ permits > 0

(* A closed or cancelled consumer leaves no registration behind: once the  *)
(* wires are empty the broker neither holds nor creates it, whatever       *)
(* subscribe, re-subscribe, seek or recovery was in flight.  The exception *)
(* is a subscribe that is cancelled after its connection failed: a retry   *)
(* leg and the rebuild may have put two subscribes in flight, of which the *)
(* refused one is current, and the cancel then closes nothing although the *)
(* other one has created the consumer.                                     *)
ClosedMeansReleased ==
    ~({"cancel", "disconnect"} \subseteq may) =>
      (c.closed /\ conn = "connected" /\ inbound = <<>> /\ outbound = <<>> =>
         ~held /\ creating = NoReq)

(* Whatever disruptions the run allows, the backlog reaches the            *)
(* application, unless the application or the broker ended the consumer.   *)
BacklogDrains ==
    <>(IsTerminal(c) \/ (backlog = 0 /\ inbound = <<>> /\ c.queue = 0))
=============================================================================
