---------------------------- MODULE TransactionEnd ----------------------------
(***************************************************************************)
(* Ending one transaction that scalable consumers acknowledge in: the      *)
(* admission gate (AggregateTransaction of stream_consumer.rs), the        *)
(* client's TransactionCoordinator (transaction.rs), the EndTxn request of *)
(* the connection (conn.rs, txn.rs) with the engine's end_txn future, and  *)
(* a transaction coordinator at the broker, which is external.             *)
(*                                                                         *)
(* The application runs several commit and abort calls, may drop any of    *)
(* them at an await, and drops consumers.  One action is what a call does  *)
(* under one lock; calls run on different threads.                         *)
(***************************************************************************)
EXTENDS Integers, Sequences, FiniteSets, FiniteSetsExt, TLC

CONSTANTS
    Callers,       \* tasks that commit or abort
    Ops,           \* acknowledgements, each of a consumer of its own, 1..n
    MaxRequests,   \* bound: EndTxn requests
    Bounds         \* how often each disturbance may happen: alternatives

ASSUME EndAssumption ==
    Ops \subseteq Nat \ {0} /\ IsFiniteSet(Ops) /\ MaxRequests \in Nat \ {0}

VARIABLES
    gate,      \* AggregateTransaction: state, pending, poisoned
    entry,     \* TransactionEntry: listed, claimed, participants, waiters
    op,        \* what became of each acknowledgement
    alive,     \* consumers the application has not dropped
    call,      \* the commit or abort each caller runs
    lease,     \* end_txn_waiters of this transaction, or "none"
    canon,     \* end_txn_requests: the request of each action, or 0
    request,   \* pending_requests and outcomes, by request id
    wire,      \* EndTxn frames to the coordinator
    replies,   \* its answers
    tc,        \* the transaction at the coordinator
    told,      \* the outcomes each consumer was given
    left,      \* disturbances still allowed
    faulted    \* ghost: a session was lost or the coordinator refused

local == <<gate, entry, op, alive, told>>
link  == <<lease, canon, request, wire, replies, tc>>
vars  == <<gate, entry, op, alive, call, lease, canon, request, wire, replies, tc,
           told, left, faulted>>

Actions  == {"Commit", "Abort"}
Outcomes == {"Committed", "Aborted", "Unknown"}
Requests == 1..MaxRequests
Done(kind) == IF kind = "Commit" THEN "Committed" ELSE "Aborted"
Issued(kind) == IF kind = "Commit" THEN "CommitIssued" ELSE "AbortIssued"
Closing(kind) == IF kind = "Commit" THEN "CommitClosing" ELSE "AbortClosing"

Spend(what) == left[what] > 0 /\ left' = [left EXCEPT ![what] = @ - 1]

Idle == [pc |-> "idle", kind |-> "Commit", saw |-> "wait", rid |-> 0,
         untold |-> {}, outcome |-> "Unknown", failed |-> FALSE]

Init ==
    /\ gate = [state |-> "Open", pending |-> {}, poisoned |-> FALSE]
    /\ entry = [listed |-> TRUE, claimed |-> FALSE, participants |-> {},
                waiters |-> {}]
    /\ op = [o \in Ops |-> "idle"] /\ alive = Ops
    /\ call = [c \in Callers |-> Idle]
    /\ lease = "none" /\ canon = [a \in Actions |-> 0]
    /\ request = [r \in Requests |-> "free"]
    /\ wire = <<>> /\ replies = <<>> /\ tc = "open"
    /\ told = [o \in Ops |-> {}]
    /\ left \in Bounds /\ faulted = FALSE

-----------------------------------------------------------------------------
(* The gate: operators from states to states.                              *)

\* Mutant: a failed acknowledgement does not forbid the commit.
BadSettle(g, o, succeeded) == [g EXCEPT !.pending = @ \ {o}]

Settle(g, o, succeeded) ==
    [g EXCEPT !.pending = @ \ {o}, !.poisoned = @ \/ ~succeeded]

\* decision: the gate after it, and "wait", "poisoned" or "issue".
Decision(g) ==
    LET says(s, d) == [gate |-> [g EXCEPT !.state = s], is |-> d]
    IN  IF g.pending # {} THEN says(g.state, "wait")
        ELSE CASE g.state = "CommitClosing" /\ g.poisoned ->
                    says(g.state, "poisoned")
               [] g.state = "CommitClosing" /\ ~g.poisoned ->
                    says("CommitIssued", "issue")
               [] g.state = "AbortClosing"  -> says("AbortIssued", "issue")
               [] OTHER -> says(g.state, "wait")

\* begin_commit and begin_abort: a poisoned commit may turn into an abort.
MayBegin(g, kind) ==
    \/ g.state \in {"Open", Closing(kind)}
    \/ kind = "Abort" /\ g.state = "CommitClosing" /\ g.poisoned

\* finish leaves a gate alone that is not waiting for an outcome.
Finish(g, outcome) ==
    IF g.pending = {} /\ g.state \in {"CommitIssued", "AbortIssued"}
    THEN [g EXCEPT !.state = outcome] ELSE g

-----------------------------------------------------------------------------
(* Acknowledging in the transaction: admit, then the backend, then finish. *)

Admit(o) ==
    /\ op[o] = "idle" /\ o \in alive
    /\ IF entry.listed /\ gate.state = "Open"
       THEN /\ gate' = [gate EXCEPT !.pending = @ \cup {o}]
            /\ entry' = [entry EXCEPT !.participants = @ \cup {o}]
            /\ op' = [op EXCEPT ![o] = "pending"]
       ELSE /\ op' = [op EXCEPT ![o] = "refused"]
            /\ UNCHANGED <<gate, entry>>
    /\ UNCHANGED <<alive, call, link, told, left, faulted>>

Woken == [c \in Callers |-> IF c \in entry.waiters /\ call[c].pc = "parked"
                            THEN [call[c] EXCEPT !.pc = "woken"] ELSE call[c]]

\* Mutant: nobody is told that the gate may have opened.
BadFinishAck(o, succeeded) ==
    /\ op[o] = "pending"
    /\ succeeded \/ Spend("failures")
    /\ succeeded => UNCHANGED left
    /\ op' = [op EXCEPT ![o] = IF succeeded THEN "ok" ELSE "failed"]
    /\ gate' = Settle(gate, o, succeeded)
    /\ UNCHANGED <<entry, call, alive, link, told, faulted>>

\* settle_admission; a dropped future settles as a failure.
FinishAck(o, succeeded) ==
    /\ op[o] = "pending"
    /\ succeeded \/ Spend("failures")
    /\ succeeded => UNCHANGED left
    /\ op' = [op EXCEPT ![o] = IF succeeded THEN "ok" ELSE "failed"]
    /\ gate' = Settle(gate, o, succeeded)
    /\ entry' = [entry EXCEPT !.waiters = {}]
    /\ call' = Woken
    /\ UNCHANGED <<alive, link, told, faulted>>

\* The application drops a consumer.  The coordinator holds it weakly; a call
\* that took it along keeps it until it has told it.
DropConsumer(o) ==
    /\ o \in alive /\ op[o] # "pending" /\ Spend("drops")
    /\ alive' = alive \ {o}
    /\ UNCHANGED <<gate, entry, op, call, link, told, faulted>>

-----------------------------------------------------------------------------
(* prepare and EndWait.  A call goes on with what the gate decides.        *)

Become(c, r) == call' = [call EXCEPT ![c] = r]

\* complete, up to its first await: a confirmed outcome is final at once.
Completing(c, kind, g, outcome) ==
    /\ gate' = IF outcome = "Unknown" \/ g.state = outcome THEN g
               ELSE Finish(g, outcome)
    /\ Become(c, [call[c] EXCEPT !.pc = "telling", !.kind = kind,
                                 !.outcome = outcome, !.failed = FALSE])

\* The participants a preparation takes along; dropped ones are forgotten.
Reachable == entry.participants \cap alive

\* prepare ends its lock section with a decision, which EndWait keeps.
Prepared(c, kind, d) ==
    /\ gate' = d.gate
    /\ entry' = [entry EXCEPT !.claimed = TRUE]
    /\ Become(c, [Idle EXCEPT !.pc = "prepared", !.kind = kind, !.saw = d.is])

\* prepare, for commit_transaction and abort_transaction.
Start(c, kind) ==
    /\ call[c].pc = "idle" /\ Spend("calls")
    /\ \/ /\ ~entry.listed \/ entry.claimed
          /\ Become(c, Idle) /\ UNCHANGED <<gate, entry>>
       \/ /\ entry.listed /\ ~entry.claimed /\ gate.state = Done(kind)
          /\ entry' = [entry EXCEPT !.claimed = TRUE, !.participants = Reachable]
          /\ Become(c, [Idle EXCEPT !.pc = "telling", !.kind = kind,
                                    !.untold = Reachable, !.outcome = Done(kind)])
          /\ UNCHANGED gate
       \/ /\ entry.listed /\ ~entry.claimed /\ gate.state = Issued(kind)
          /\ Prepared(c, kind, [gate |-> gate, is |-> "issue"])
       \/ /\ entry.listed /\ ~entry.claimed /\ MayBegin(gate, kind)
          /\ Prepared(c, kind, Decision([gate EXCEPT !.state = Closing(kind)]))
       \/ /\ entry.listed /\ ~entry.claimed /\ ~MayBegin(gate, kind)
          /\ gate.state \notin {Done(kind), Issued(kind)}
          /\ Become(c, Idle) /\ UNCHANGED <<gate, entry>>
    /\ UNCHANGED <<op, alive, link, told, faulted>>

\* EndWait::poll takes the lock again.  The first poll goes by the decision
\* prepare made, however old it is; a later one asks the gate.
PollWait(c) ==
    LET d == IF call[c].pc = "prepared" THEN [gate |-> gate, is |-> call[c].saw]
             ELSE Decision(gate)
    IN  /\ call[c].pc \in {"prepared", "woken"}
        /\ gate' = d.gate
        /\ CASE d.is = "wait" ->
                  /\ entry' = [entry EXCEPT !.waiters = @ \cup {c}]
                  /\ Become(c, [call[c] EXCEPT !.pc = "parked"])
             [] d.is = "poisoned" ->
                  /\ entry' = [entry EXCEPT !.claimed = FALSE]
                  /\ Become(c, Idle)
             [] d.is = "issue" ->
                  /\ entry' = [entry EXCEPT !.participants = Reachable]
                  /\ Become(c, [call[c] EXCEPT !.pc = "issuing", !.untold = Reachable])
        /\ UNCHANGED <<op, alive, link, told, left, faulted>>

-----------------------------------------------------------------------------
(* The engine's end_txn.                                                   *)

\* Mutant: every call sends a request of its own.
BadResume(kind) == 0

\* A request for the same action that is not consumed is resumed.
Resume(kind) == canon[kind]

EndTxn(c) ==
    LET kind  == call[c].kind
        fresh == Min({r \in Requests : request[r] = "free"})
        rid   == IF Resume(kind) # 0 THEN Resume(kind) ELSE fresh
    IN  /\ call[c].pc = "issuing"
        /\ IF lease # "none"
           THEN Completing(c, kind, gate, "Unknown") /\ UNCHANGED link
           ELSE /\ \E r \in Requests : request[r] = "free"
                /\ lease' = kind
                /\ canon' = [canon EXCEPT ![kind] = rid]
                /\ Become(c, [call[c] EXCEPT !.pc = "ending", !.rid = rid])
                /\ IF Resume(kind) # 0 THEN UNCHANGED <<request, wire>>
                   ELSE /\ request' = [request EXCEPT ![rid] = "pending"]
                        /\ wire' = Append(wire, [rid |-> rid, action |-> kind])
                /\ UNCHANGED <<gate, replies, tc>>
        /\ UNCHANGED <<entry, op, alive, told, left, faulted>>

Result(c) == IF request[call[c].rid] = "ok" THEN Done(call[c].kind)
             ELSE "Unknown"

\* RequestFut takes the outcome, the waiter guard drops, complete begins.
TakeOutcome(c) ==
    /\ call[c].pc = "ending" /\ request[call[c].rid] \in {"ok", "error", "lost"}
    /\ request' = [request EXCEPT ![call[c].rid] = "taken"]
    /\ canon' = [canon EXCEPT ![call[c].kind] = 0]
    /\ lease' = "none"
    /\ Completing(c, call[c].kind, gate, Result(c))
    /\ UNCHANGED <<entry, op, alive, wire, replies, tc, told, left, faulted>>

-----------------------------------------------------------------------------
(* complete.                                                               *)

\* Mutant: a consumer that could not be told is not told again.
BadForget(heard, o) == entry.participants \ {o}

Forget(heard, o) == IF heard THEN entry.participants \ {o} ELSE entry.participants

\* One consumer is given the outcome; it may fail to apply it.
Tell(c, heard) ==
    LET o == Min(call[c].untold)
    IN  /\ call[c].pc = "telling" /\ call[c].untold # {}
        /\ heard \/ Spend("deaf")
        /\ heard => UNCHANGED left
        /\ told' = IF heard THEN [told EXCEPT ![o] = @ \cup {call[c].outcome}]
                   ELSE told
        /\ entry' = [entry EXCEPT !.participants = Forget(heard, o)]
        /\ Become(c, [call[c] EXCEPT !.untold = @ \ {o}, !.failed = @ \/ ~heard])
        /\ UNCHANGED <<gate, op, alive, link, faulted>>

\* The claim is given back and a transaction nobody waits for is forgotten.
Complete(c) ==
    LET after == IF call[c].outcome = "Unknown" THEN Finish(gate, "Unknown") ELSE gate
        ok    == ~call[c].failed /\ after.state = call[c].outcome
    IN  /\ call[c].pc = "telling" /\ call[c].untold = {}
        /\ gate' = after
        /\ entry' = [entry EXCEPT !.claimed = FALSE,
                                  !.listed = @ /\ ~(entry.participants = {} /\ ok)]
        /\ Become(c, Idle)
        /\ UNCHANGED <<op, alive, link, told, left, faulted>>

-----------------------------------------------------------------------------
(* A call is dropped at an await.  Its locals go innermost first: the wait  *)
(* on the connection, then the claim on the transaction.                   *)

\* EndWait::drop; its waker stays registered.
DropWait(c) ==
    /\ call[c].pc \in {"parked", "woken"} /\ Spend("cancels")
    /\ entry' = [entry EXCEPT !.claimed = FALSE]
    /\ Become(c, Idle)
    /\ UNCHANGED <<gate, op, alive, told, link, faulted>>

\* Mutant: a dropped request keeps the lease.
BadDropRequest(c) ==
    \/ /\ call[c].pc = "ending" /\ Spend("cancels")
       /\ Become(c, [call[c] EXCEPT !.pc = "dropped"])
       /\ UNCHANGED <<local, link, faulted>>
    \/ /\ call[c].pc = "dropped"
       /\ entry' = [entry EXCEPT !.claimed = FALSE]
       /\ Become(c, Idle)
       /\ UNCHANGED <<gate, op, alive, told, link, left, faulted>>

\* EndTxnWaiterGuard::drop, then EndPreparation::drop.
DropRequest(c) ==
    \/ /\ call[c].pc = "ending" /\ Spend("cancels")
       /\ lease' = IF lease = call[c].kind THEN "none" ELSE lease
       /\ Become(c, [call[c] EXCEPT !.pc = "dropped"])
       /\ UNCHANGED <<local, canon, request, wire, replies, tc, faulted>>
    \/ /\ call[c].pc = "dropped"
       /\ entry' = [entry EXCEPT !.claimed = FALSE]
       /\ Become(c, Idle)
       /\ UNCHANGED <<gate, op, alive, told, link, left, faulted>>

DropComplete(c) ==
    /\ call[c].pc = "telling" /\ call[c].untold # {} /\ Spend("cancels")
    /\ entry' = [entry EXCEPT !.claimed = FALSE]
    /\ Become(c, Idle)
    /\ UNCHANGED <<gate, op, alive, told, link, faulted>>

-----------------------------------------------------------------------------
(* The coordinator and the connection.                                     *)

\* It ends an open transaction, repeats the answer it gave, refuses the other.
TcTakes ==
    LET f == Head(wire)
        fits == tc \in {"open", Done(f.action)}
    IN  /\ wire # <<>>
        /\ wire' = Tail(wire)
        /\ tc' = IF fits THEN Done(f.action) ELSE tc
        /\ replies' = Append(replies, [rid |-> f.rid, ok |-> fits])
        /\ faulted' = (faulted \/ ~fits)
        /\ UNCHANGED <<local, call, lease, canon, request, left>>

\* The transaction's time to live is over.
TcTimesOut ==
    /\ tc = "open" /\ Spend("timeouts")
    /\ tc' = "Aborted"
    /\ UNCHANGED <<local, call, lease, canon, request, wire, replies, faulted>>

\* CommandEndTxnResponse.
HandleEndTxnResponse ==
    LET a == Head(replies)
    IN  /\ replies # <<>>
        /\ replies' = Tail(replies)
        /\ request' = [request EXCEPT ![a.rid] = IF a.ok THEN "ok" ELSE "error"]
        /\ UNCHANGED <<local, call, lease, canon, wire, tc, left, faulted>>

\* The transport dies and reset fails what is pending.
Reset ==
    /\ Spend("losses")
    /\ tc' \in {tc} \cup {Done(wire[i].action) : i \in {j \in DOMAIN wire : tc = "open"}}
    /\ wire' = <<>> /\ replies' = <<>>
    /\ request' = [r \in Requests |-> IF request[r] = "pending" THEN "lost"
                                      ELSE request[r]]
    /\ faulted' = TRUE
    /\ UNCHANGED <<local, call, lease, canon>>

-----------------------------------------------------------------------------
Application ==
    \/ \E o \in Ops : \/ Admit(o) \/ DropConsumer(o)
                      \/ \E succeeded \in BOOLEAN : FinishAck(o, succeeded)
    \/ \E c \in Callers, kind \in Actions : Start(c, kind)
    \/ \E c \in Callers : DropWait(c) \/ DropRequest(c) \/ DropComplete(c)

Call(c) == \/ PollWait(c) \/ EndTxn(c) \/ TakeOutcome(c)
           \/ (\E heard \in BOOLEAN : Tell(c, heard)) \/ Complete(c)

Broker == TcTakes \/ TcTimesOut \/ HandleEndTxnResponse \/ Reset

Next == Application \/ (\E c \in Callers : Call(c)) \/ Broker

Spec == Init /\ [][Next]_vars

FairSpec ==
    /\ Spec
    /\ \A c \in Callers : /\ WF_vars(Call(c))
                          /\ WF_vars(call[c].pc = "dropped" /\ DropRequest(c))
    /\ \A o \in Ops : WF_vars(\E succeeded \in BOOLEAN : FinishAck(o, succeeded))
    /\ WF_vars(TcTakes) /\ WF_vars(HandleEndTxnResponse)

-----------------------------------------------------------------------------
(* Properties.                                                             *)

States == {"Open", "CommitClosing", "CommitIssued", "AbortClosing", "AbortIssued"}
            \cup Outcomes

\* Every variable has its type; only admitted acknowledgements have a say.
TypeOK ==
    /\ gate \in [state : States, pending : SUBSET Ops, poisoned : BOOLEAN]
    /\ entry \in [listed : BOOLEAN, claimed : BOOLEAN, participants : SUBSET Ops,
                  waiters : SUBSET Callers]
    /\ op \in [Ops -> {"idle", "pending", "ok", "failed", "refused"}]
    /\ \A o \in entry.participants : op[o] \in {"pending", "ok", "failed"}
    /\ lease \in Actions \cup {"none"} /\ canon \in [Actions -> 0..MaxRequests]
    /\ request \in [Requests -> {"free", "pending", "ok", "error", "lost", "taken"}]
    /\ tc \in {"open", "Committed", "Aborted"}
    /\ told \in [Ops -> SUBSET Outcomes]
    /\ \A c \in Callers : /\ call[c].pc \in {"idle", "prepared", "parked", "woken",
                               "issuing", "ending", "dropped", "telling"}
                          /\ call[c].untold \subseteq Ops

\* The coordinator commits only what was acknowledged in full: no admitted
\* acknowledgement is under way, failed or dropped, whichever of several
\* commits, aborts and cancelled calls got there.
CommitMeansAll ==
    tc = "Committed" => \A o \in Ops : op[o] \notin {"pending", "failed"}

Unanswered == {r \in Requests : request[r] = "pending"}

\* One decision per transaction: the claim on it belongs to a call that is
\* running, and to one, so that a dropped call leaves it endable; a retry
\* resumes the request on its way; and a commit and an abort are never both
\* asked for.
OneDecision ==
    LET running == {c \in Callers : call[c].pc # "idle"}
    IN  /\ Cardinality(running) = IF entry.claimed THEN 1 ELSE 0
        /\ Cardinality(Unanswered) =< 1
        /\ \A i \in DOMAIN wire : gate.state \in {Issued(wire[i].action),
                                     Done(wire[i].action), "Unknown"}

\* An outcome is unknown only after a lost session or a refusal.  A call that
\* races with the clean-up of a dropped one does not make it so: the lease on
\* the request is back before the claim is.
UnknownMeansFault ==
    gate.state = "Unknown" \/ (\E o \in Ops : "Unknown" \in told[o]) => faulted

\* A consumer is told an outcome only when the coordinator decided it, however
\* sessions, time-outs, refusals and retries fall, and the transaction is not
\* forgotten before every consumer that acknowledged in it, and still exists,
\* was told.
EveryoneHears ==
    /\ \A o \in Ops : /\ "Committed" \in told[o] => tc = "Committed"
                      /\ "Aborted" \in told[o] => tc = "Aborted"
    /\ ~entry.listed => \A o \in alive : op[o] \in {"ok", "failed"} => told[o] # {}

\* A call that waits for acknowledgements which have all settled already.
Overtaken(c) == call[c].pc = "parked" /\ gate.pending = {}

\* A commit or abort that is not dropped returns: it waits for the admitted
\* acknowledgements, for the coordinator or for the session's end, and none of
\* these is waited for in vain.  The exception is a call whose first poll
\* registers its waker after the last acknowledgement has settled: that one
\* waits until it is dropped (WaitRetainsWork).
CallsReturn ==
    \A c \in Callers :
        (call[c].pc \notin {"idle", "prepared"} /\ ~Overtaken(c))
          ~> (call[c].pc = "idle")

\* EndWait::poll asserts that "a transaction wait must retain admitted work":
\* a call waits only while an acknowledgement is under way whose settlement
\* wakes it.
WaitRetainsWork == \A c \in Callers : ~Overtaken(c)

=============================================================================
