--------------------------- MODULE StreamAggregate ---------------------------
(***************************************************************************)
(* The state machine behind a scalable-topic StreamConsumer                *)
(* (magnetar-proto/src/stream_consumer.rs, with the ordering rule of       *)
(* dag_watch.rs).  One aggregate owns one ordinary consumer ("child") per  *)
(* assigned segment, lends each of them single FLOW permits out of one     *)
(* receive budget, and lets a segment flow only when the segments it was   *)
(* split or merged from are complete.                                      *)
(*                                                                         *)
(* The code mutates a StreamConsumerModel and returns the list of actions  *)
(* that the runtime must execute.  Here every method is an operator from a *)
(* model record to a model record, CanX its error returns, and Emitted the *)
(* actions, read off the difference between two models.                    *)
(*                                                                         *)
(* Sizes are counted in units: a permit reserves Frame of them, everything *)
(* else (a retained message, a delivery lease, a workspace, a chunk        *)
(* assembly) one.  The authority headroom of the ledger and the exact byte *)
(* sizes are left out.  The block reason of an OpenBlocked child and the   *)
(* aggregate generation are only reported, never read, and are left out;   *)
(* so is SegmentPhase::Failed, entered only by message_arrived, which no   *)
(* runtime calls.  An entry has one member: a batch entry's further        *)
(* members (complete_preallocated_arrival adds one retained unit and one   *)
(* unacknowledged message for each) and the permits such an entry costs    *)
(* beyond the one it was granted are left out.  Every sum here is linear   *)
(* in the number of members.                                               *)
(***************************************************************************)
EXTENDS Integers, FiniteSets, FiniteSetsExt

CONSTANTS
    Segments,     \* segment ids, a set of positive integers
    Layouts,      \* the DAG snapshots the broker publishes, in epoch order
    Strict,       \* OrderingMode::Strict (TRUE) or BrokerManaged
    Frame,        \* units one FLOW permit reserves (MAX_FRAME_SIZE)
    BudgetLimit   \* units the aggregate may hold (data_limit)

ASSUME StreamAssumption ==
    /\ Segments \subseteq Nat \ {0}
    /\ \E top \in Segments : \A s \in Segments : s =< top
    /\ Frame \in Nat \ {0} /\ BudgetLimit \in Nat /\ Frame =< BudgetLimit
    /\ Strict \in BOOLEAN

Phases == {"Opening", "OpenBlocked", "Flowing", "Terminal", "Seeking",
           "Draining", "Closing"}
Flows == {"none", "message", "chunk"}
NoAssignment == [none |-> TRUE]
Some(a) == [of |-> a]
Nothing == [s \in {} |-> 0]          \* an empty map

-----------------------------------------------------------------------------
(* DAG snapshots: state and parents are functions on the segments present, *)
(* placed is the set that has a broker address, pruned the roots whose     *)
(* ancestry the broker has forgotten.                                      *)

Present(l) == DOMAIN Layouts[l].state
Kids(l, s) == {k \in Present(l) : s \in Layouts[l].parents[k]}

Descriptor(l, s) ==
    IF s \notin Present(l) THEN NoAssignment
    ELSE [state |-> Layouts[l].state[s], placed |-> s \in Layouts[l].placed,
          parents |-> Layouts[l].parents[s], kids |-> Kids(l, s)]

Sealed(l, s) == s \in Present(l) /\ Layouts[l].state[s] = "Sealed"

\* Every transitive ancestor of s.
Ancestors(l, s) ==
    LET up[n \in 0..Cardinality(Segments)] ==
          IF n = 0 THEN Layouts[l].parents[s]
          ELSE up[n-1] \cup UNION {Layouts[l].parents[p] : p \in up[n-1]}
    IN  up[Cardinality(Segments)]

-----------------------------------------------------------------------------
(* Children, their completion barrier and their share of the ledger.       *)

NewChild(inc, gen, shared) ==
    [inc |-> inc, gen |-> gen, phase |-> "Opening", flow |-> "none",
     asm |-> 0, work |-> 0, retained |-> 0,
     terminal |-> FALSE, deliveries |-> 0, acks |-> 0, txnAcks |-> 0,
     preTerm |-> 0, waitFlow |-> FALSE, shared |-> shared,
     ackGen |-> 0, confirmed |-> 0]

InitModel ==
    [phase |-> "Open", inc |-> 1, epoch |-> 0, layout |-> 1,
     assigned |-> NoAssignment, children |-> Nothing, history |-> {},
     completed |-> {}, pending |-> {}, nextGen |-> 1, cursor |-> 0,
     live |-> {}, nextSeq |-> 1, pos |-> Nothing, ops |-> {}, nextOp |-> 1]

Has(m, s, g) == s \in DOMAIN m.children /\ m.children[s].gen = g

Leases(m, s) == {d \in m.live : d.seg = s /\ d.gen = m.children[s].gen}

PermitCount(c) == IF c.flow = "none" THEN 0 ELSE 1

Owned(m, s) ==
    LET c == m.children[s]
    IN  Frame * PermitCount(c) + c.asm + c.work + c.retained
          + Cardinality(Leases(m, s))

\* The sum of w over all segments.
Total(w) ==
    LET upTo[s \in 0..Max(Segments)] ==
          IF s = 0 THEN 0 ELSE upTo[s-1] + w[s]
    IN  upTo[Max(Segments)]

\* Units reserved by all children (data_used).
Used(m) == Total([s \in 1..Max(Segments) |->
                    IF s \in DOMAIN m.children THEN Owned(m, s) ELSE 0])

Settled(c) == c.deliveries = 0 /\ c.acks = 0 /\ c.txnAcks = 0 /\ c.preTerm = 0
HandoffSettled(c) == Settled([c EXCEPT !.preTerm = c.preTerm - PermitCount(c)])
DrainSettled(c) == IF c.waitFlow THEN Settled(c) ELSE HandoffSettled(c)
Complete(c) == c.terminal /\ Settled(c)

\* A draining child that has nothing left to settle is closed.
CloseDrained(c) ==
    IF c.phase = "Draining" /\ DrainSettled(c)
    THEN [c EXCEPT !.phase = "Closing"] ELSE c

CloseIfDrained(m, S) ==
    [m EXCEPT !.children = [s \in DOMAIN m.children |->
        IF s \in S THEN CloseDrained(m.children[s]) ELSE m.children[s]]]

WithChild(m, s, c) == [m EXCEPT !.children = [m.children EXCEPT ![s] = c]]

-----------------------------------------------------------------------------
(* Flow arbitration, the last step of nearly every method.                 *)

\* Mutant: ancestry is not looked at.
BadMayFlow(m, s) ==
    m.children[s].phase = "OpenBlocked" /\ s \in Present(m.layout)

MayFlow(m, s) ==
    LET anc == Ancestors(m.layout, s)
    IN  /\ m.children[s].phase = "OpenBlocked"
        /\ s \in Present(m.layout)
        /\ ({s} \cup anc) \cap Layouts[m.layout].pruned = {}
        /\ Strict => anc \subseteq m.history
        /\ anc \cap m.history \subseteq m.completed

\* Segments in the cyclic order that starts after the cursor.
Rank(m, s) == IF s > m.cursor THEN s ELSE s + Max(Segments)

Granted(c) == [c EXCEPT !.phase = "Flowing", !.flow = "message",
                        !.preTerm = c.preTerm + 1]

\* Mutant: one permit more than the budget has room for.
BadArbitrateFlow(m) ==
    LET eligible == {s \in DOMAIN m.children : m.phase = "Open" /\ MayFlow(m, s)}
    IN  IF Used(m) > BudgetLimit THEN m
        ELSE [m EXCEPT !.children = [s \in DOMAIN m.children |->
                IF s \in eligible THEN Granted(m.children[s])
                ELSE m.children[s]]]

ArbitrateFlow(m) ==
    LET eligible == {s \in DOMAIN m.children : m.phase = "Open" /\ MayFlow(m, s)}
        room     == (BudgetLimit - Used(m)) \div Frame
        granted  == {s \in eligible :
                       Cardinality({t \in eligible : Rank(m, t) =< Rank(m, s)})
                          =< room}
    IN  IF granted = {} THEN m
        ELSE [m EXCEPT
               !.children = [s \in DOMAIN m.children |->
                   IF s \in granted THEN Granted(m.children[s])
                   ELSE m.children[s]],
               !.cursor = CHOOSE s \in granted :
                             \A t \in granted : Rank(m, t) =< Rank(m, s)]

-----------------------------------------------------------------------------
(* The actions a transition from m to n hands to the runtime.              *)

Emitted(m, n) ==
    LET kept   == {s \in DOMAIN n.children :
                     Has(m, s, n.children[s].gen)}
        turned(s, from, to) == m.children[s].phase \in from
                                 /\ n.children[s].phase = to
        act(op, S) == {[op |-> op, seg |-> s, gen |-> n.children[s].gen,
                        inc |-> n.children[s].inc, epoch |-> n.epoch] : s \in S}
    IN  act("open", DOMAIN n.children \ kept)
          \cup act("cancel", {s \in kept : turned(s, {"Opening"}, "Closing")})
          \cup act("close", {s \in kept :
                     turned(s, Phases \ {"Opening", "Closing"}, "Closing")})
          \cup act("seek", {s \in kept :
                     turned(s, Phases \ {"Seeking"}, "Seeking")})
          \cup act("grant", {s \in kept : m.children[s].flow = "none"
                                            /\ n.children[s].flow # "none"})

-----------------------------------------------------------------------------
(* Assignments and layouts.  An assignment maps each owned segment to the  *)
(* bucket ranges it is owned for; {} is the whole segment.                 *)

Before(m) == IF m.assigned = NoAssignment THEN Nothing ELSE m.assigned.of

SameIn(f, g, s) == s \in DOMAIN f /\ s \in DOMAIN g /\ f[s] = g[s]

Retire(c, wait) ==
    CloseDrained(
      CASE c.phase = "Opening"  -> [c EXCEPT !.phase = "Closing"]
        [] c.phase \in {"Flowing", "OpenBlocked", "Terminal", "Seeking"} ->
             [c EXCEPT !.phase = "Draining", !.waitFlow = wait]
        [] c.phase = "Draining" -> [c EXCEPT !.waitFlow = c.waitFlow \/ wait]
        [] OTHER -> c)

\* Segments that are complete and sealed are never opened again.
Finished(m) == {s \in m.completed : Sealed(m.layout, s)}

ReconcileAssignment(m, a, replaced) ==
    LET before   == Before(m)
        retiring == {s \in DOMAIN before : ~SameIn(before, a, s)} \cup replaced
        bucketOnly == {s \in DOMAIN before \cap DOMAIN a : before[s] # a[s]}
        gained   == {s \in DOMAIN a :
                       s \notin Finished(m)
                         /\ (s \in replaced \/ ~SameIn(before, a, s))}
        opened   == gained \ DOMAIN m.children
    IN  IF m.assigned = Some(a) /\ replaced = {} THEN m
        ELSE [m EXCEPT
               !.assigned = Some(a),
               !.pending  = (m.pending \ retiring) \cup (gained \ opened),
               !.completed = m.completed \ opened,
               !.history  = m.history \cup opened,
               !.nextGen  = m.nextGen + Cardinality(opened),
               !.children =
                  [s \in DOMAIN m.children \cup opened |->
                     IF s \in opened
                     THEN NewChild(m.inc,
                                   m.nextGen + Cardinality({t \in opened : t < s}),
                                   a[s] # {})
                     ELSE IF s \in retiring
                     THEN Retire(m.children[s], s \in replaced \ bucketOnly)
                     ELSE m.children[s]]]

CanApply(m, l, a) == m.phase = "Open" /\ DOMAIN a \subseteq Present(l)

\* A child whose descriptor changed is replaced, unless it was sealed
\* without a new address: then it drains in place.
ApplyControlPlane(m, l, a) ==
    LET replaced == {s \in DOMAIN m.children :
            /\ Descriptor(m.layout, s) # Descriptor(l, s)
            /\ ~ (/\ s \in Present(m.layout) /\ ~Sealed(m.layout, s)
                  /\ Sealed(l, s) /\ s \notin Layouts[l].placed)}
    IN  ArbitrateFlow(
          ReconcileAssignment([m EXCEPT !.layout = l], a, replaced))

CloseAll(m) == [s \in DOMAIN m.children |->
                  [m.children[s] EXCEPT !.phase = "Closing"]]

\* What every fence clears: positions, admitted operations, the assignment.
Fence(m, p) ==
    [m EXCEPT !.phase = p, !.epoch = m.epoch + 1, !.assigned = NoAssignment,
              !.pending = {}, !.pos = Nothing, !.ops = {},
              !.children = CloseAll(m)]

ApplyReconnectBaseline(m, l, a) ==
    ApplyControlPlane([Fence(m, "Open") EXCEPT !.inc = m.inc + 1], l, a)

RequireResync(m) == IF m.phase = "Open" THEN Fence(m, "ResyncRequired") ELSE m

Close(m) ==
    IF m.phase \in {"Closing", "Closed"} THEN m
    ELSE Fence(m, IF DOMAIN m.children = {} THEN "Closed" ELSE "Closing")

-----------------------------------------------------------------------------
(* Child callbacks.                                                        *)

ChildOpened(m, s) ==
    ArbitrateFlow(
      [WithChild(m, s, [m.children[s] EXCEPT !.phase = "OpenBlocked"])
         EXCEPT !.pending = m.pending \ {s}])

ChildOpenBusy(m, s) == [m EXCEPT !.pending = m.pending \cup {s}]

CanChildClosed(m, s, g) ==
    m.phase # "Closed" /\ Has(m, s, g) /\ m.children[s].phase = "Closing"

Without(f, s) == [x \in DOMAIN f \ {s} |-> f[x]]

ChildClosed(m, s) ==
    LET reopen == m.phase = "Open" /\ s \notin Finished(m) /\ s \in m.pending
        base   == [m EXCEPT
                     !.live = {d \in m.live : d.seg # s},
                     !.pending = m.pending \ {s},
                     !.pos = Without(m.pos, s),
                     !.children = Without(m.children, s)]
        n      == IF ~reopen THEN base
                  ELSE [base EXCEPT
                     !.children = [m.children EXCEPT ![s] =
                        NewChild(m.inc, m.nextGen, m.assigned.of[s] # {})],
                     !.nextGen = m.nextGen + 1,
                     !.completed = m.completed \ {s},
                     !.history = m.history \cup {s}]
    IN  IF m.phase = "Closing" /\ DOMAIN n.children = {}
        THEN [n EXCEPT !.phase = "Closed", !.assigned = NoAssignment]
        ELSE IF Owned(m, s) = 0 THEN n ELSE ArbitrateFlow(n)

-----------------------------------------------------------------------------
(* Seek: every owned segment at once, and only when nothing is in hand.    *)

CanSeek(m) ==
    /\ m.phase = "Open" /\ m.assigned # NoAssignment
    /\ m.live = {} /\ m.pending = {}
    /\ DOMAIN m.children = DOMAIN m.assigned.of
    /\ \A s \in DOMAIN m.children :
         LET c == m.children[s]
         IN  /\ s \in Present(m.layout) /\ ~Sealed(m.layout, s)
             /\ Kids(m.layout, s) = {}
             /\ HandoffSettled(c) /\ Owned(m, s) = Frame * PermitCount(c)
             /\ c.phase \in {"OpenBlocked", "Flowing", "Terminal"}

BeginSeek(m) ==
    [m EXCEPT !.epoch = m.epoch + 1, !.pos = Nothing,
              !.completed = m.completed \ DOMAIN m.children,
              !.children = [s \in DOMAIN m.children |->
                 [m.children[s] EXCEPT !.flow = "none", !.terminal = FALSE,
                                       !.preTerm = 0, !.phase = "Seeking"]]]

CanSeekCompleted(m, s, g) ==
    m.phase = "Open" /\ Has(m, s, g) /\ m.children[s].phase = "Seeking"

SeekCompleted(m, s) ==
    LET n == WithChild(m, s, [m.children[s] EXCEPT !.phase = "OpenBlocked"])
    IN  IF \E t \in DOMAIN n.children : n.children[t].phase = "Seeking"
        THEN n ELSE ArbitrateFlow(n)

-----------------------------------------------------------------------------
(* Arrivals.  A permit turns into a retained message, or, for a chunk that *)
(* is not the last, into an assembly and the permit of the next chunk.     *)

Receiving(m, s, g) ==
    /\ m.phase = "Open" /\ Has(m, s, g)
    /\ m.children[s].phase \in {"Flowing", "Draining"}
    /\ m.children[s].flow # "none"

CanReserveWork(m, s, g) == Receiving(m, s, g) /\ Used(m) < BudgetLimit

ReserveWork(m, s) ==
    LET c == m.children[s]
    IN  WithChild(m, s, [c EXCEPT !.work = c.work + 1,
                                  !.preTerm = c.preTerm + 1])

\* chunk_frame_buffered: the assembly keeps one unit, the spent permit's
\* Frame goes back and a new permit takes it.
CanBufferChunk(m, s, g) ==
    /\ Receiving(m, s, g)
    /\ Used(m) - (IF m.children[s].asm = 0 THEN 0 ELSE 1) + 1 =< BudgetLimit

BufferChunk(m, s) ==
    LET c == m.children[s]
    IN  WithChild(m, s,
          [c EXCEPT !.flow = "chunk", !.asm = 1,
                    !.preTerm = IF c.asm = 0 THEN c.preTerm + 1 ELSE c.preTerm])

AfterArrival(c) == IF c.phase = "Flowing" THEN "OpenBlocked" ELSE c.phase

\* Mutant: the barrier forgets the assembly and the workspace it held.
BadArrived(m, s) ==
    LET c == m.children[s]
    IN  WithChild(m, s,
          [c EXCEPT !.flow = "none", !.asm = 0, !.work = 0,
                    !.retained = c.retained + 1, !.phase = AfterArrival(c)])

\* complete_preallocated_arrival, before its arbitrate_flow.
Arrived(m, s) ==
    LET c == m.children[s]
    IN  WithChild(m, s,
          [c EXCEPT !.flow = "none", !.asm = 0, !.work = 0,
                    !.retained = c.retained + 1,
                    !.preTerm = c.preTerm - (1 + c.asm + c.work) + 1,
                    !.phase = AfterArrival(c)])

\* discard_preallocated_arrival: the arrival is completed as above and its
\* retained unit is then released.  The barrier keeps counting it.
Discarded(m, s) ==
    WithChild(m, s, [Arrived(m, s).children[s] EXCEPT
                       !.retained = m.children[s].retained])

-----------------------------------------------------------------------------
(* Deliveries.  A token is the authority the application holds.            *)

CanIssue(m, s, g) ==
    /\ m.phase = "Open" /\ Has(m, s, g)
    /\ m.children[s].preTerm > 0 /\ m.children[s].retained > 0

PosAfter(m, s, id) ==
    [x \in DOMAIN m.pos \cup {s} |-> IF x = s THEN id ELSE m.pos[x]]

Token(m, s, id) ==
    LET again == s \in DOMAIN m.pos /\ m.pos[s] >= id
    IN  [seq |-> m.nextSeq, seg |-> s, gen |-> m.children[s].gen,
         inc |-> m.children[s].inc, epoch |-> m.epoch, id |-> id,
         ackGen |-> m.children[s].ackGen + (IF again THEN 1 ELSE 0),
         vec |-> PosAfter(m, s, id)]

IssueDelivery(m, s, id) ==
    LET c == m.children[s]
        again == s \in DOMAIN m.pos /\ m.pos[s] >= id
        issued == [c EXCEPT !.deliveries = c.deliveries + 1,
                            !.preTerm = c.preTerm - 1,
                            !.retained = c.retained - 1,
                            !.ackGen = c.ackGen + (IF again THEN 1 ELSE 0),
                            !.confirmed = IF again THEN 0 ELSE c.confirmed]
    IN  [WithChild(m, s, issued) EXCEPT
          !.pos = PosAfter(m, s, id),
          !.nextSeq = m.nextSeq + 1,
          !.live = m.live \cup {[seq |-> m.nextSeq, seg |-> s,
                                 gen |-> c.gen, id |-> id]}]

ValidToken(m, t) ==
    /\ m.phase = "Open" /\ Has(m, t.seg, t.gen)
    /\ m.children[t.seg].inc = t.inc /\ m.inc = t.inc /\ m.epoch = t.epoch
    /\ m.children[t.seg].phase # "Closing"
    /\ \E d \in m.live : d.seq = t.seq /\ d.seg = t.seg /\ d.gen = t.gen

OpPending(m, seq) == \E op \in m.ops : seq \in op.leases

\* Release leases, then let drained children close and the rest flow.
ResolveLeases(m, D) ==
    LET gone == {d \in m.live : d.seq \in D}
        of(s) == Cardinality({d \in gone : d.seg = s})
        n == [m EXCEPT !.live = m.live \ gone,
                       !.children = [s \in DOMAIN m.children |->
                          [m.children[s] EXCEPT
                             !.deliveries = m.children[s].deliveries - of(s)]]]
    IN  IF gone = {} THEN m
        ELSE ArbitrateFlow(CloseIfDrained(n, {d.seg : d \in gone}))

-----------------------------------------------------------------------------
(* Acknowledgement operations: admitted under the lock, executed by the    *)
(* runtime component by component, then settled.                           *)

Component(m, s, ids, cum, upTo) ==
    [seg |-> s, gen |-> m.children[s].gen, ids |-> ids, cum |-> cum,
     upTo |-> upTo, ackGen |-> m.children[s].ackGen]

\* position_components, for a vector of one position per segment.
Representable(m, vec) ==
    \A s \in DOMAIN vec :
        /\ s \in DOMAIN m.children
        /\ m.children[s].phase \notin {"Opening", "Closing", "Seeking"}

\* Mutant: a cumulative acknowledgement reaches one message too far.
BadPositionComponents(m, vec) ==
    {Component(m, s, 1..vec[s] + 1, TRUE, vec[s]) :
       s \in {s \in DOMAIN vec : vec[s] > m.children[s].confirmed}}

PositionComponents(m, vec) ==
    LET tracked(s) == {d.id : d \in {x \in Leases(m, s) : x.id =< vec[s]}}
        ids(s) == IF m.children[s].shared THEN tracked(s) ELSE 1..vec[s]
    IN  {Component(m, s, ids(s), ~m.children[s].shared, vec[s]) :
           s \in {s \in DOMAIN vec : /\ vec[s] > m.children[s].confirmed
                                     /\ ids(s) # {}}}

CoveredBy(m, comps) ==
    {d.seq : d \in {x \in m.live :
       \E c \in comps : c.upTo > 0 /\ c.seg = x.seg /\ c.gen = x.gen
                          /\ x.id =< c.upTo}}

\* A cumulative token whose own position is confirmed may be used again for
\* the components that are not.
ConfirmedRepeat(m, t) ==
    /\ Has(m, t.seg, t.gen) /\ m.inc = t.inc /\ m.epoch = t.epoch
    /\ m.children[t.seg].inc = t.inc
    /\ m.children[t.seg].ackGen = t.ackGen
    /\ t.id =< m.children[t.seg].confirmed

CanAdmit(m, leases) ==
    m.phase = "Open" /\ \A q \in leases : ~OpPending(m, q)

Bumped(c, txn, k) == IF txn THEN [c EXCEPT !.txnAcks = c.txnAcks + k]
                     ELSE [c EXCEPT !.acks = c.acks + k]

Bump(m, comps, txn, k) ==
    [m EXCEPT !.children = [s \in DOMAIN m.children |->
        IF \E c \in comps : c.seg = s THEN Bumped(m.children[s], txn, k)
        ELSE m.children[s]]]

Admit(m, comps, leases, txn) ==
    [Bump(m, comps, txn, 1) EXCEPT
        !.ops = m.ops \cup {[id |-> m.nextOp, txn |-> txn, comps |-> comps,
                             leases |-> leases]},
        !.nextOp = m.nextOp + 1]

CanSettle(m, op) ==
    m.phase = "Open" /\ op \in m.ops
      /\ \A c \in op.comps : Has(m, c.seg, c.gen)

\* Settle the counters, note the confirmed positions and resolve the leases
\* of the confirmed segments.  Settling against {} is a cancellation.
Settle(m, op, confirmed) ==
    LET segs == {c.seg : c \in op.comps}
        n == CloseIfDrained(
               [Bump(m, op.comps, op.txn, -1) EXCEPT !.ops = m.ops \ {op}], segs)
        note == [s \in DOMAIN n.children |->
                   LET up == {c.upTo : c \in {x \in op.comps :
                                x.seg = s /\ s \in confirmed /\ ~op.txn
                                  /\ x.ackGen = n.children[s].ackGen}}
                   IN  [n.children[s] EXCEPT
                          !.confirmed = Max(up \cup {n.children[s].confirmed})]]
    IN  ResolveLeases([n EXCEPT !.children = note],
                      {q \in op.leases :
                         \E d \in m.live : d.seq = q /\ d.seg \in confirmed})

-----------------------------------------------------------------------------
(* End of a segment.                                                       *)

CanObserveTerminal(m, s, g) ==
    m.phase # "Closed" /\ Has(m, s, g) /\ m.children[s].phase # "Opening"

ObserveTerminal(m, s) ==
    LET c == m.children[s]
        n == WithChild(m, s,
               [c EXCEPT !.preTerm = c.preTerm - PermitCount(c),
                         !.flow = "none", !.terminal = TRUE,
                         !.phase = IF c.phase \in {"Draining", "Closing"}
                                   THEN c.phase ELSE "Terminal"])
    IN  ArbitrateFlow(CloseIfDrained(n, {s}))

CanComplete(m, s, g) ==
    m.phase = "Open" /\ Has(m, s, g) /\ Complete(m.children[s])

CompleteSegment(m, s) ==
    ArbitrateFlow([m EXCEPT !.completed = m.completed \cup {s}])

=============================================================================
