---------------------------- MODULE MemoryLimit ----------------------------
(***************************************************************************)
(* The client-wide publish memory budget: MemoryLimitController and the    *)
(* futures that reserve from it (magnetar-proto/src/memory_limit.rs, and   *)
(* SendFut in magnetar-runtime-tokio/src/producer.rs).                     *)
(*                                                                         *)
(* Every sender is one Producer::send call.  The atomic counter `used' is  *)
(* read and compare-exchanged by any thread at any time; the waiter map is *)
(* under a mutex (`lock').  One action is one atomic access or one         *)
(* critical section, so the window between a release's fetch_sub and its   *)
(* draining of the waiter map, and the window between a failed attempt and *)
(* its registration, are both states of the model.                         *)
(***************************************************************************)
EXTENDS Integers, FiniteSets

CONSTANTS
    Senders,   \* the send calls of the whole client, on any connection
    Bytes,     \* payload length of each send
    Limits,    \* the configured limits to consider (0 = unlimited)
    NoSender   \* nobody holds the waiter mutex

ASSUME SendersAssumption == IsFiniteSet(Senders)
ASSUME BytesAssumption == Bytes \in [Senders -> Nat]
ASSUME LimitsAssumption == Limits \subseteq Nat
ASSUME NoSenderAssumption == NoSender \notin Senders

VARIABLES
    limit,     \* MemoryLimitController.limit
    policy,    \* MemoryLimitController.policy
    used,      \* MemoryLimitController.used
    lock,      \* the sender polling inside the waiter mutex, or NoSender
    nextId,    \* Waiters.next_id
    parked,    \* Waiters.parked: waiter id -> the sender whose waker it holds
    pc,        \* where each send call is
    waiter,    \* SendState::Reserving.waiter
    seen,      \* `current' of try_reserve
    woken,     \* the task of this send has been scheduled to poll
    toWake     \* the wakers a release took and has not yet called

vars == <<limit, policy, used, lock, nextId, parked, pc, waiter, seen, woken,
          toWake>>

NoId == -1
Policies == {"FailImmediately", "ProducerBlock"}

Places == {"start",      \* send() not called
           "fastCas",    \* try_reserve of send(), between load and exchange
           "failed",     \* FailImmediately rejection
           "reserving",  \* SendState::Reserving, not being polled
           "pollLoad",   \* poll_reserve, lock held, about to load
           "pollCas",    \* poll_reserve, between load and exchange
           "parking",    \* poll_reserve, attempt refused, not yet registered
           "held",       \* the reservation lives in the pending op
           "draining",   \* release: counter decremented, waiters not taken
           "waking",     \* release: calling the wakers it took
           "done", "cancelled"}

TypeOK ==
    /\ limit \in Limits
    /\ policy \in Policies
    /\ used \in Int
    /\ lock \in Senders \cup {NoSender}
    /\ nextId \in Nat
    /\ DOMAIN parked \subseteq Nat
    /\ parked \in [DOMAIN parked -> Senders]
    /\ pc \in [Senders -> Places]
    /\ waiter \in [Senders -> Nat \cup {NoId}]
    /\ seen \in [Senders -> Int]
    /\ woken \in [Senders -> BOOLEAN]
    /\ toWake \in [Senders -> SUBSET Senders]

Init ==
    /\ limit \in Limits
    /\ policy \in Policies
    /\ used = 0
    /\ lock = NoSender
    /\ nextId = 0
    /\ parked = [i \in {} |-> NoSender]
    /\ pc = [s \in Senders |-> "start"]
    /\ waiter = [s \in Senders |-> NoId]
    /\ seen = [s \in Senders |-> 0]
    /\ woken = [s \in Senders |-> FALSE]
    /\ toWake = [s \in Senders |-> {}]

-----------------------------------------------------------------------------
(* Variants named Bad... are deliberately wrong: each one breaks a property.  *)
(* Soft limit: the request itself is not counted. *)
BadFits(current, s) == current <= limit

(* try_reserve's admission test on the counter value it loaded. *)
Fits(current, s) == current + Bytes[s] <= limit

(* What the compare-exchange of try_reserve does to the counter. *)
Reserve(s) == used' = used + Bytes[s]

(* Producer::send up to try_reserve's load.  An unlimited controller hands  *)
(* out the empty reservation; a refusal fails the send or turns it into a   *)
(* Reserving future, whose first poll is the caller's await.                *)
Send(s) ==
    /\ pc[s] \in {"start"}
    /\ seen' = [seen EXCEPT ![s] = used]
    /\ pc' = [pc EXCEPT ![s] =
                IF limit = 0 THEN "held"
                ELSE IF Fits(used, s) THEN "fastCas"
                ELSE IF policy = "FailImmediately" THEN "failed"
                ELSE "reserving"]
    /\ woken' = [woken EXCEPT ![s] = pc'[s] = "reserving"]
    /\ UNCHANGED <<limit, policy, used, lock, nextId, parked, waiter, toWake>>

(* The compare-exchange of the fast path; a lost race goes back to the load. *)
SendCas(s) ==
    /\ pc[s] = "fastCas"
    /\ IF used = seen[s]
         THEN /\ Reserve(s)
              /\ pc' = [pc EXCEPT ![s] = "held"]
         ELSE /\ UNCHANGED used
              /\ pc' = [pc EXCEPT ![s] = "start"]
    /\ UNCHANGED <<limit, policy, lock, nextId, parked, waiter, seen, woken,
                   toWake>>

-----------------------------------------------------------------------------
(* SendFut::poll in Reserving: poll_reserve takes the waiter mutex.  A task  *)
(* may be polled without having been woken.                                  *)
PollStart(s) ==
    /\ pc[s] = "reserving"
    /\ lock = NoSender
    /\ lock' = s
    /\ woken' = [woken EXCEPT ![s] = FALSE]
    /\ pc' = [pc EXCEPT ![s] = "pollLoad"]
    /\ UNCHANGED <<limit, policy, used, nextId, parked, waiter, seen, toWake>>

PollLoad(s) ==
    /\ pc[s] = "pollLoad"
    /\ seen' = [seen EXCEPT ![s] = used]
    /\ pc' = [pc EXCEPT ![s] = IF Fits(used, s) THEN "pollCas" ELSE "parking"]
    /\ UNCHANGED <<limit, policy, used, lock, nextId, parked, waiter, woken,
                   toWake>>

Unregister(id) == parked' = [i \in DOMAIN parked \ {id} |-> parked[i]]

(* Reserved: the caller's own registration goes, the mutex is released and   *)
(* the message is queued with its reservation (send_reserved).               *)
PollCas(s) ==
    /\ pc[s] = "pollCas"
    /\ IF used = seen[s]
         THEN /\ Reserve(s)
              /\ Unregister(waiter[s])
              /\ waiter' = [waiter EXCEPT ![s] = NoId]
              /\ lock' = NoSender
              /\ pc' = [pc EXCEPT ![s] = "held"]
         ELSE /\ pc' = [pc EXCEPT ![s] = "pollLoad"]
              /\ UNCHANGED <<used, parked, waiter, lock>>
    /\ UNCHANGED <<limit, policy, nextId, seen, woken, toWake>>

(* A registration drained by a release is taken for a live one. *)
BadPark(s) ==
    /\ pc[s] = "parking"
    /\ IF waiter[s] # NoId
         THEN UNCHANGED <<nextId, parked, waiter>>
         ELSE /\ nextId' = nextId + 1
              /\ parked' = [i \in DOMAIN parked \cup {nextId} |->
                                IF i = nextId THEN s ELSE parked[i]]
              /\ waiter' = [waiter EXCEPT ![s] = nextId]
    /\ lock' = NoSender
    /\ pc' = [pc EXCEPT ![s] = "reserving"]
    /\ UNCHANGED <<limit, policy, used, seen, woken, toWake>>

(* park: refresh the caller's live registration, or take a fresh id when a   *)
(* release drained it or there never was one.                                *)
Park(s) ==
    /\ pc[s] = "parking"
    /\ IF waiter[s] \in DOMAIN parked
         THEN UNCHANGED <<nextId, parked, waiter>>
         ELSE /\ nextId' = nextId + 1
              /\ parked' = [i \in DOMAIN parked \cup {nextId} |->
                                IF i = nextId THEN s ELSE parked[i]]
              /\ waiter' = [waiter EXCEPT ![s] = nextId]
    /\ lock' = NoSender
    /\ pc' = [pc EXCEPT ![s] = "reserving"]
    /\ UNCHANGED <<limit, policy, used, seen, woken, toWake>>

(* The future is dropped without cancelling its registration. *)
BadDropSendFut(s) ==
    /\ pc[s] = "reserving"
    /\ pc' = [pc EXCEPT ![s] = "cancelled"]
    /\ UNCHANGED <<limit, policy, used, lock, nextId, parked, waiter, seen,
                   woken, toWake>>

(* SendFut::drop in Reserving: cancel_waiter on the id it holds, if any.     *)
DropSendFut(s) ==
    /\ pc[s] = "reserving"
    /\ IF waiter[s] = NoId
         THEN UNCHANGED parked
         ELSE /\ lock = NoSender
              /\ Unregister(waiter[s])
    /\ pc' = [pc EXCEPT ![s] = "cancelled"]
    /\ UNCHANGED <<limit, policy, used, lock, nextId, waiter, seen, woken,
                   toWake>>

-----------------------------------------------------------------------------
(* The pending op leaves the client (receipt, error, timeout, close, or a    *)
(* synchronous rejection): its reservation is dropped.  release subtracts    *)
(* first; an empty reservation has no controller and does nothing.           *)
DropReservation(s) ==
    /\ pc[s] = "held"
    /\ IF limit = 0
         THEN /\ pc' = [pc EXCEPT ![s] = "done"]
              /\ UNCHANGED used
         ELSE /\ pc' = [pc EXCEPT ![s] = "draining"]
              /\ used' = used - Bytes[s]
    /\ UNCHANGED <<limit, policy, lock, nextId, parked, waiter, seen, woken,
                   toWake>>

(* A release wakes only the oldest parked caller. *)
BadTakeParked(s) ==
    LET oldest == {i \in DOMAIN parked : \A j \in DOMAIN parked : i <= j} IN
    /\ pc[s] = "draining"
    /\ lock = NoSender
    /\ toWake' = [toWake EXCEPT ![s] = {parked[i] : i \in oldest}]
    /\ parked' = [i \in DOMAIN parked \ oldest |-> parked[i]]
    /\ pc' = [pc EXCEPT ![s] = "waking"]
    /\ UNCHANGED <<limit, policy, used, lock, nextId, waiter, seen, woken>>

(* release takes the whole parked map under the mutex ...                    *)
TakeParked(s) ==
    /\ pc[s] = "draining"
    /\ lock = NoSender
    /\ toWake' = [toWake EXCEPT ![s] = {parked[i] : i \in DOMAIN parked}]
    /\ parked' = [i \in {} |-> NoSender]
    /\ pc' = [pc EXCEPT ![s] = "waking"]
    /\ UNCHANGED <<limit, policy, used, lock, nextId, waiter, seen, woken>>

(* ... and calls the wakers once the mutex is free again.                    *)
WakeOne(s) ==
    /\ pc[s] = "waking"
    /\ \E w \in toWake[s] :
         /\ toWake' = [toWake EXCEPT ![s] = @ \ {w}]
         /\ woken' = [woken EXCEPT ![w] = TRUE]
    /\ UNCHANGED <<limit, policy, used, lock, nextId, parked, pc, waiter, seen>>

ReleaseReturns(s) ==
    /\ pc[s] = "waking"
    /\ toWake[s] = {}
    /\ pc' = [pc EXCEPT ![s] = "done"]
    /\ UNCHANGED <<limit, policy, used, lock, nextId, parked, waiter, seen,
                   woken, toWake>>

Step(s) ==
    \/ Send(s) \/ SendCas(s)
    \/ PollStart(s) \/ PollLoad(s) \/ PollCas(s) \/ Park(s)
    \/ DropSendFut(s)
    \/ DropReservation(s) \/ TakeParked(s) \/ WakeOne(s) \/ ReleaseReturns(s)

Next == \E s \in Senders : Step(s)

(***************************************************************************)
(* Threads inside the controller keep running; a scheduled task is polled; *)
(* the broker's answer, the send timeout or the connection's death drops   *)
(* every held reservation.  parking_lot's mutex is eventually fair, so the *)
(* two acquisitions get strong fairness.  Nobody has to call send or drop  *)
(* a future.                                                               *)
(***************************************************************************)
Fairness ==
    \A s \in Senders :
        /\ WF_vars(SendCas(s)) /\ WF_vars(PollLoad(s)) /\ WF_vars(PollCas(s))
        /\ WF_vars(Park(s)) /\ WF_vars(DropReservation(s))
        /\ WF_vars(WakeOne(s)) /\ WF_vars(ReleaseReturns(s))
        /\ SF_vars(woken[s] /\ PollStart(s)) /\ SF_vars(TakeParked(s))

Spec == Init /\ [][Next]_vars
FairSpec == Spec /\ Fairness

-----------------------------------------------------------------------------
Holders == {s \in Senders : pc[s] = "held"}

(* The client never has more payload in flight than memory_limit_bytes,      *)
(* whatever the threads racing on the counter (try_reserve's CAS loop).      *)
BudgetNeverExceeded == limit # 0 => used <= limit

(* A parked future is registered, or a release that took its waker is about  *)
(* to call it, or it has been woken: no release between its refused attempt  *)
(* and its registration can be missed (poll_reserve's documentation).  And a *)
(* future asleep while its bytes would fit has a release on its way to the   *)
(* waiter map.                                                               *)
Registered(s) == waiter[s] \in DOMAIN parked /\ parked[waiter[s]] = s
WakeComing(s) == woken[s] \/ \E r \in Senders : s \in toWake[r]
ReleaseComing == \E r \in Senders : pc[r] = "draining"
NoLostWakeup ==
    \A s \in Senders : pc[s] = "reserving" /\ ~WakeComing(s) =>
        /\ Registered(s)
        /\ Fits(used, s) => ReleaseComing

(* A registration belongs to the future whose slot names it, and that future *)
(* is alive: no release wakes a dropped or finished send, and no stale id    *)
(* evicts another caller (MemoryWaiterId's documentation).                   *)
RegistrationsAreLive ==
    \A i \in DOMAIN parked :
        /\ waiter[parked[i]] = i
        /\ pc[parked[i]] \in {"reserving", "pollLoad", "pollCas", "parking"}

(***************************************************************************)
(* The inductive invariant behind the safety properties.  Only the sender  *)
(* in the mutex is polling; an id names one slot and is below the counter; *)
(* an admission decided on a loaded value still holds for that value; and  *)
(* a refused attempt that meanwhile would fit has a release on its way.    *)
(***************************************************************************)
Polling == {"pollLoad", "pollCas", "parking"}
LockInv == \A s \in Senders : lock = s <=> pc[s] \in Polling
IdsAreOwned ==
    /\ \A s \in Senders : waiter[s] < nextId
    /\ \A s, t \in Senders : waiter[s] = waiter[t] /\ waiter[s] # NoId => s = t
AdmittedFits ==
    \A s \in Senders : pc[s] \in {"fastCas", "pollCas"} => Fits(seen[s], s)
RefusedHasRelease ==
    \A s \in Senders : pc[s] = "parking" /\ Fits(used, s) => ReleaseComing
WakersInv == \A s \in Senders : toWake[s] # {} => pc[s] = "waking"

IInv ==
    /\ TypeOK /\ LockInv /\ IdsAreOwned /\ AdmittedFits /\ RefusedHasRelease
    /\ WakersInv /\ BudgetNeverExceeded /\ NoLostWakeup /\ RegistrationsAreLive

(* Every send the budget could ever hold stops waiting, unless dropped.      *)
BlockedSendsProceed ==
    \A s \in Senders :
        (pc[s] = "reserving" /\ Bytes[s] <= limit)
            ~> (pc[s] \in {"held", "draining", "waking", "done", "cancelled"})
=============================================================================
