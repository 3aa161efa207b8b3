------------------------- MODULE TransactionEndProofs -------------------------
(***************************************************************************)
(* The safety properties of ending a transaction, for any number of        *)
(* callers, consumers, requests and disturbances.                          *)
(*                                                                         *)
(* The argument: a claim has one owner, and the gate cannot move away from *)
(* what the owner's call is about; a request that is not consumed belongs  *)
(* to the action the gate has issued; so at most one frame or answer is on *)
(* the link, and what it says agrees with the coordinator.                 *)
(***************************************************************************)
EXTENDS TransactionEnd, FiniteSetTheorems, TLAPS

Places == {"idle", "prepared", "parked", "woken", "issuing", "ending", "dropped",
           "telling"}
Says == {"wait", "poisoned", "issue"}

CallRecord == [pc : Places, kind : Actions, saw : Says, rid : 0..MaxRequests,
               untold : SUBSET Ops, outcome : Outcomes, failed : BOOLEAN]

(* A call that has to wait for the gate, and one that has its decision. *)
Waiting(r) == \/ r.pc \in {"parked", "woken"}
              \/ r.pc = "prepared" /\ r.saw # "issue"
Issuing(r) == \/ r.pc \in {"issuing", "ending"}
              \/ r.pc = "prepared" /\ r.saw = "issue"

Frame == [rid : Requests, action : Actions]
Reply == [rid : Requests, ok : BOOLEAN]

(* TypeOK, and the types of what it leaves out. *)
Types ==
    /\ TypeOK
    /\ call \in [Callers -> CallRecord]
    /\ wire \in Seq(Frame) /\ replies \in Seq(Reply)
    /\ alive \subseteq Ops /\ faulted \in BOOLEAN

(* The claim on the transaction is held by the one call that runs. *)
ClaimInv ==
    /\ \A c \in Callers : call[c].pc # "idle" => entry.claimed
    /\ entry.claimed => \E c \in Callers : call[c].pc # "idle"
    /\ \A c, d \in Callers : call[c].pc # "idle" /\ call[d].pc # "idle" => c = d

(* The gate counts the acknowledgements under way and remembers failures;  *)
(* it has issued a decision only when nothing was under way.               *)
GateInv ==
    /\ gate.pending = {o \in Ops : op[o] = "pending"}
    /\ \A o \in Ops : op[o] = "failed" => gate.poisoned
    /\ gate.state \notin {"Open", "CommitClosing", "AbortClosing"} =>
         gate.pending = {}
    /\ gate.state \in {"CommitIssued", "Committed"} => ~gate.poisoned

(* What the gate says while a call runs. *)
CallInv ==
    \A c \in Callers :
      /\ Waiting(call[c]) => gate.state = Closing(call[c].kind)
      /\ Issuing(call[c]) => gate.state = Issued(call[c].kind)
      /\ call[c].pc = "ending" => /\ call[c].rid # 0
                                  /\ canon[call[c].kind] = call[c].rid
                                  /\ lease = call[c].kind
      /\ call[c].pc = "telling" /\ call[c].outcome # "Unknown" =>
           gate.state = call[c].outcome

(* The lease belongs to a call that waits for its request. *)
LeaseInv ==
    lease # "none" => \E c \in Callers : call[c].pc = "ending"

(* A commit was asked for: everything admitted had been acknowledged. *)
Ready == /\ gate.pending = {} /\ ~gate.poisoned
         /\ gate.state \in {"CommitIssued", "Committed", "Unknown"}

(* A request that is not consumed is for the decision the gate has taken,  *)
(* and only such a request is unanswered.                                  *)
CanonInv ==
    /\ \A a \in Actions : canon[a] # 0 =>
         gate.state \in {Issued(a), Done(a), "Unknown"}
    /\ canon["Commit"] # 0 => Ready
    /\ canon["Commit"] = 0 \/ canon["Abort"] = 0
    /\ \A r \in Requests : request[r] = "pending" =>
         \E a \in Actions : canon[a] = r
    /\ tc = "Committed" => Ready

(* The link carries at most one frame or answer, of the pending request,   *)
(* and an answer agrees with the coordinator.                              *)
LinkInv ==
    \/ wire = <<>> /\ replies = <<>>
    \/ \E a \in Actions :
         /\ canon[a] # 0 /\ request[canon[a]] = "pending"
         /\ \/ wire = <<[rid |-> canon[a], action |-> a]>> /\ replies = <<>>
            \/ /\ wire = <<>>
               /\ \E ok \in BOOLEAN :
                    /\ replies = <<[rid |-> canon[a], ok |-> ok]>>
                    /\ IF ok THEN tc = Done(a) ELSE faulted

(* Confirmed outcomes are the coordinator's. *)
OutcomeInv ==
    /\ \A a \in Actions : canon[a] # 0 /\ request[canon[a]] = "ok" => tc = Done(a)
    /\ gate.state = "Committed" => tc = "Committed"
    /\ gate.state = "Aborted" => tc = "Aborted"
    /\ \A o \in Ops : /\ "Committed" \in told[o] => tc = "Committed"
                      /\ "Aborted" \in told[o] => tc = "Aborted"

(* Unknown outcomes come from a fault. *)
FaultInv ==
    /\ \A r \in Requests : request[r] \in {"error", "lost"} => faulted
    /\ gate.state = "Unknown" => faulted
    /\ \A o \in Ops : "Unknown" \in told[o] => faulted
    /\ \A c \in Callers : call[c].pc = "telling" /\ call[c].outcome = "Unknown" =>
         faulted

(* Who was admitted is a participant until it is told. *)
HeardInv ==
    /\ \A o \in alive : op[o] \in {"pending", "ok", "failed"} =>
         o \in entry.participants \/ told[o] # {}
    /\ ~entry.listed => entry.participants = {}

(* The inductive invariant. *)
IInv == /\ Types /\ ClaimInv /\ GateInv /\ CallInv /\ LeaseInv
        /\ CanonInv /\ LinkInv /\ OutcomeInv /\ FaultInv /\ HeardInv
-----------------------------------------------------------------------------
(* Operators.                                                              *)

(* Min picks a member. *)
LEMMA MinIsMember ==
    ASSUME NEW S \in SUBSET Nat, S # {}
    PROVE  Min(S) \in S
<1>1. OpToRel(<, Nat) = {ss \in Nat \X Nat : ss[1] < ss[2]}
  BY DEF OpToRel
<1>2. PICK x \in S : \A y \in S : ~ (<<y, x>> \in OpToRel(<, Nat))
  BY NatLessThanWellFounded, WFMin
<1>3. ASSUME NEW y \in S PROVE x =< y
  <2>1. <<y, x>> \in Nat \X Nat /\ <<y, x>>[1] = y /\ <<y, x>>[2] = x
    OBVIOUS
  <2>2. ~ (y < x)
    BY <1>1, <1>2, <2>1
  <2> QED
    BY <2>2
<1> QED
  BY <1>3 DEF Min

(* A record type, field by field: a call keeps its type when some of its   *)
(* fields are assigned.                                                    *)
LEMMA CallAssigned ==
    ASSUME call \in [Callers -> CallRecord], NEW x \in Callers,
           NEW r \in CallRecord, call' = [call EXCEPT ![x] = r]
    PROVE  /\ call' \in [Callers -> CallRecord]
           /\ call'[x] = r
           /\ \A d \in Callers : d # x => call'[d] = call[d]
OBVIOUS

LEMMA IdleType == Idle \in CallRecord /\ Idle.pc = "idle"
BY EndAssumption DEF Idle, CallRecord, Places, Says, Actions, Outcomes

(* While one call runs, the others are idle. *)
LEMMA Alone ==
    ASSUME ClaimInv, NEW x \in Callers, call[x].pc # "idle" \/ ~entry.claimed
    PROVE  \A d \in Callers : d # x => call[d].pc = "idle"
BY DEF ClaimInv

(* What decision does with a gate that is closing. *)
LEMMA DecisionCases ==
    ASSUME NEW g \in [state : States, pending : SUBSET Ops, poisoned : BOOLEAN],
           NEW k \in Actions, g.state = Closing(k)
    PROVE  LET d == Decision(g)
           IN  \/ d.is = "wait" /\ d.gate = g
               \/ d.is = "poisoned" /\ d.gate = g
               \/ /\ d.is = "issue" /\ d.gate = [g EXCEPT !.state = Issued(k)]
                  /\ g.pending = {} /\ (k = "Commit" => ~g.poisoned)
<1>1. [g EXCEPT !.state = g.state] = g
  OBVIOUS
<1>2. CASE g.pending # {}
  <2>1. Decision(g) = [gate |-> g, is |-> "wait"]
    BY <1>1, <1>2 DEF Decision
  <2> QED
    BY <2>1
<1>3. CASE g.pending = {} /\ k = "Commit" /\ g.poisoned
  <2>1. Decision(g) = [gate |-> g, is |-> "poisoned"]
    BY <1>1, <1>3 DEF Decision, Closing
  <2> QED
    BY <2>1
<1>4. CASE g.pending = {} /\ k = "Commit" /\ ~g.poisoned
  <2>1. Decision(g) = [gate |-> [g EXCEPT !.state = Issued(k)], is |-> "issue"]
    BY <1>4 DEF Decision, Closing, Issued
  <2> QED
    BY <1>4, <2>1
<1>5. CASE g.pending = {} /\ k = "Abort"
  <2>1. Decision(g) = [gate |-> [g EXCEPT !.state = Issued(k)], is |-> "issue"]
    BY <1>5 DEF Decision, Closing, Issued
  <2> QED
    BY <1>5, <2>1
<1> QED
  BY <1>2, <1>3, <1>4, <1>5 DEF Actions

-----------------------------------------------------------------------------
(* What a call does when it prepares or polls, in four cases.              *)

Same == UNCHANGED <<op, alive, lease, canon, request, wire, replies, tc, told, faulted>>

Only(x) == /\ call[x].pc \in {"idle", "prepared", "woken"}
           /\ \A d \in Callers : d # x => call[d].pc = "idle"

Early == {"Open", "CommitClosing", "AbortClosing"}

(* The call returns at once, with the gate closing or as it was. *)
Returns(x) ==
    /\ \/ call[x].pc = "idle" /\ gate' = gate /\ entry' = entry
       \/ /\ Only(x) /\ gate.state \in Early
          /\ \E k \in Actions : gate' = [gate EXCEPT !.state = Closing(k)]
          /\ entry' = [entry EXCEPT !.claimed = FALSE]
    /\ call' = [call EXCEPT ![x] = Idle]
    /\ Same

(* It has to wait for acknowledgements. *)
Parks(x, k) ==
    /\ Only(x) /\ gate.state \in Early
    /\ gate' = [gate EXCEPT !.state = Closing(k)]
    /\ \E W \in SUBSET Callers :
         entry' = [entry EXCEPT !.claimed = TRUE, !.waiters = W]
    /\ \E r \in CallRecord : /\ r.kind = k /\ r.pc \in {"prepared", "parked"}
                             /\ Waiting(r) /\ call' = [call EXCEPT ![x] = r]
    /\ Same

(* It has its decision, or issues it. *)
Issues(x, k) ==
    /\ Only(x) /\ gate.state \in Early \cup {Issued(k)}
    /\ gate.pending = {} /\ (k = "Commit" => ~gate.poisoned)
    /\ gate' = [gate EXCEPT !.state = Issued(k)]
    /\ \E P \in {entry.participants, Reachable} :
         entry' = [entry EXCEPT !.claimed = TRUE, !.participants = P]
    /\ \E r \in CallRecord : /\ r.kind = k /\ r.pc \in {"prepared", "issuing"}
                             /\ Issuing(r) /\ call' = [call EXCEPT ![x] = r]
    /\ Same

(* It tells again what is confirmed already. *)
Retells(x, k) ==
    /\ Only(x) /\ gate.state = Done(k) /\ gate' = gate
    /\ entry' = [entry EXCEPT !.claimed = TRUE, !.participants = Reachable]
    /\ call' = [call EXCEPT ![x] = [Idle EXCEPT !.pc = "telling", !.kind = k,
                                  !.untold = Reachable, !.outcome = Done(k)]]
    /\ Same

Moves(x) == Returns(x) \/ \E k \in Actions : Parks(x, k) \/ Issues(x, k) \/ Retells(x, k)

(* A call takes the gate's decision with it. *)
LEMMA PreparedMoves ==
    ASSUME IInv, NEW x \in Callers, NEW k \in Actions, Only(x), Same,
           gate.state \in Early,
           Prepared(x, k, Decision([gate EXCEPT !.state = Closing(k)]))
    PROVE  Moves(x)
<1> DEFINE g == [gate EXCEPT !.state = Closing(k)]
<1> DEFINE d == Decision(g)
<1> DEFINE r == [Idle EXCEPT !.pc = "prepared", !.kind = k, !.saw = d.is]
<1>1. /\ g \in [state : States, pending : SUBSET Ops, poisoned : BOOLEAN]
      /\ g.state = Closing(k) /\ g.pending = gate.pending
      /\ g.poisoned = gate.poisoned
      /\ [g EXCEPT !.state = Issued(k)] = [gate EXCEPT !.state = Issued(k)]
  BY DEF IInv, Types, TypeOK, Closing, States
<1>2. \/ d.is = "wait" /\ d.gate = g
      \/ d.is = "poisoned" /\ d.gate = g
      \/ /\ d.is = "issue" /\ d.gate = [g EXCEPT !.state = Issued(k)]
         /\ g.pending = {} /\ (k = "Commit" => ~g.poisoned)
  BY <1>1, DecisionCases
<1>3. /\ gate' = d.gate
      /\ entry' = [entry EXCEPT !.claimed = TRUE]
      /\ call' = [call EXCEPT ![x] = r]
  BY DEF Prepared, Become
<1> HIDE DEF g, d
<1>4. r \in CallRecord /\ r.pc = "prepared" /\ r.kind = k /\ r.saw = d.is
  BY <1>2, IdleType DEF CallRecord, Places, Says
<1> HIDE DEF r
<1>5. CASE d.is # "issue"
  <2>1. gate' = [gate EXCEPT !.state = Closing(k)] /\ Waiting(r)
    BY <1>2, <1>3, <1>4, <1>5 DEF g, Waiting
  <2>2. /\ entry.waiters \in SUBSET Callers
        /\ entry' = [entry EXCEPT !.claimed = TRUE, !.waiters = entry.waiters]
    BY <1>3 DEF IInv, Types, TypeOK
  <2>3. Parks(x, k)
    BY <1>3, <1>4, <2>1, <2>2 DEF Parks
  <2> QED
    BY <2>3 DEF Moves
<1>6. CASE d.is = "issue"
  <2>1. /\ gate' = [gate EXCEPT !.state = Issued(k)] /\ Issuing(r)
        /\ gate.pending = {} /\ (k = "Commit" => ~gate.poisoned)
    BY <1>1, <1>2, <1>3, <1>4, <1>6 DEF Issuing
  <2>2. entry' = [entry EXCEPT !.claimed = TRUE, !.participants = entry.participants]
    BY <1>3 DEF IInv, Types, TypeOK
  <2>3. Issues(x, k)
    BY <1>3, <1>4, <2>1, <2>2 DEF Issues
  <2> QED
    BY <2>3 DEF Moves
<1> QED
  BY <1>5, <1>6

LEMMA StartMoves ==
    ASSUME IInv, NEW x \in Callers, NEW kind \in Actions, Start(x, kind)
    PROVE  Moves(x)
<1>1. Same /\ call[x].pc = "idle"
  BY DEF Start, Same, link
<1>2. CASE /\ ~entry.listed \/ entry.claimed
           /\ Become(x, Idle) /\ UNCHANGED <<gate, entry>>
  BY <1>1, <1>2 DEF Moves, Returns, Become
<1>3. CASE /\ entry.listed /\ ~entry.claimed /\ gate.state = Done(kind)
           /\ entry' = [entry EXCEPT !.claimed = TRUE, !.participants = Reachable]
           /\ Become(x, [Idle EXCEPT !.pc = "telling", !.kind = kind,
                              !.untold = Reachable, !.outcome = Done(kind)])
           /\ UNCHANGED gate
  <2>1. Only(x)
    BY <1>1, <1>3, Alone DEF IInv, Only
  <2>2. Retells(x, kind)
    BY <1>1, <1>3, <2>1 DEF Retells, Become
  <2> QED
    BY <2>2 DEF Moves
<1>4. CASE /\ entry.listed /\ ~entry.claimed /\ gate.state = Issued(kind)
           /\ Prepared(x, kind, [gate |-> gate, is |-> "issue"])
  <2> DEFINE r == [Idle EXCEPT !.pc = "prepared", !.kind = kind, !.saw = "issue"]
  <2>1. Only(x)
    BY <1>1, <1>4, Alone DEF IInv, Only
  <2>2. /\ gate' = gate
        /\ entry' = [entry EXCEPT !.claimed = TRUE]
        /\ call' = [call EXCEPT ![x] = r]
    BY <1>4 DEF Prepared, Become
  <2>3. gate = [gate EXCEPT !.state = Issued(kind)]
    BY <1>4 DEF IInv, Types, TypeOK
  <2>4. gate.pending = {} /\ (kind = "Commit" => ~gate.poisoned)
    BY <1>4 DEF IInv, GateInv, Issued, Actions
  <2>5. entry' = [entry EXCEPT !.claimed = TRUE, !.participants = entry.participants]
    BY <2>2 DEF IInv, Types, TypeOK
  <2>6. /\ r \in CallRecord /\ r.pc = "prepared" /\ r.kind = kind
        /\ r.saw = "issue"
    BY IdleType DEF CallRecord, Places, Says
  <2> HIDE DEF r
  <2>7. Issuing(r)
    BY <2>6 DEF Issuing
  <2>8. Issues(x, kind)
    BY <1>1, <1>4, <2>1, <2>2, <2>3, <2>4, <2>5, <2>6, <2>7 DEF Issues
  <2> QED
    BY <2>8 DEF Moves
<1>5. CASE /\ entry.listed /\ ~entry.claimed /\ MayBegin(gate, kind)
           /\ Prepared(x, kind, Decision([gate EXCEPT !.state = Closing(kind)]))
  <2>1. Only(x)
    BY <1>1, <1>5, Alone DEF IInv, Only
  <2>2. gate.state \in Early
    BY <1>5 DEF MayBegin, Closing, Early
  <2> QED
    BY <1>1, <1>5, <2>1, <2>2, PreparedMoves
<1>6. CASE Become(x, Idle) /\ UNCHANGED <<gate, entry>>
  BY <1>1, <1>6 DEF Moves, Returns, Become
<1> QED
  BY <1>2, <1>3, <1>4, <1>5, <1>6 DEF Start

(* A poll waits, returns or issues, by the decision it was made with or by *)
(* a new one: in either case one the gate still stands by.                 *)
LEMMA PollWaitMoves ==
    ASSUME IInv, NEW x \in Callers, PollWait(x)
    PROVE  Moves(x)
<1> DEFINE k == call[x].kind
<1> DEFINE d == IF call[x].pc = "prepared"
                THEN [gate |-> gate, is |-> call[x].saw] ELSE Decision(gate)
<1>1. Same
  BY DEF PollWait, Same, link
<1>2. Only(x) /\ call[x].pc \in {"prepared", "woken"}
  BY Alone DEF IInv, Only, PollWait
<1>3. k \in Actions /\ call[x] \in CallRecord /\ call[x].saw \in Says
  BY DEF IInv, Types, CallRecord
<1>4. entry.claimed = TRUE /\ entry = [entry EXCEPT !.claimed = TRUE]
  BY <1>2 DEF IInv, Types, TypeOK, ClaimInv
<1>5. \/ /\ d.is \in {"wait", "poisoned"} /\ d.gate = gate
         /\ gate.state = Closing(k)
      \/ /\ d.is = "issue" /\ d.gate = [gate EXCEPT !.state = Issued(k)]
         /\ gate.pending = {} /\ (k = "Commit" => ~gate.poisoned)
         /\ gate.state \in {Closing(k), Issued(k)}
  <2>1. CASE call[x].pc = "woken"
    <3>1. gate.state = Closing(k)
      BY <2>1 DEF IInv, CallInv, Waiting
    <3>2. gate \in [state : States, pending : SUBSET Ops, poisoned : BOOLEAN]
      BY DEF IInv, Types, TypeOK
    <3> QED
      BY <1>3, <2>1, <3>1, <3>2, DecisionCases
  <2>2. CASE call[x].pc = "prepared" /\ call[x].saw # "issue"
    BY <1>3, <2>2 DEF IInv, CallInv, Waiting, Says
  <2>3. CASE call[x].pc = "prepared" /\ call[x].saw = "issue"
    <3>1. gate.state = Issued(k)
      BY <2>3 DEF IInv, CallInv, Waiting, Issuing, Issuing
    <3>2. gate = [gate EXCEPT !.state = Issued(k)]
      BY <3>1 DEF IInv, Types, TypeOK
    <3>3. gate.pending = {} /\ (k = "Commit" => ~gate.poisoned)
      BY <1>3, <3>1 DEF IInv, GateInv, Issued, Actions
    <3> QED
      BY <2>3, <3>1, <3>2, <3>3
  <2> QED
    BY <1>2, <2>1, <2>2, <2>3
<1>6. /\ gate' = d.gate
      /\ d.is = "wait" =>
           /\ entry' = [entry EXCEPT !.waiters = @ \cup {x}]
           /\ Become(x, [call[x] EXCEPT !.pc = "parked"])
      /\ d.is = "poisoned" =>
           entry' = [entry EXCEPT !.claimed = FALSE] /\ Become(x, Idle)
      /\ d.is = "issue" =>
           /\ entry' = [entry EXCEPT !.participants = Reachable]
           /\ Become(x, [call[x] EXCEPT !.pc = "issuing", !.untold = Reachable])
  BY <1>5 DEF PollWait
<1> HIDE DEF d
<1>7. gate.state = Closing(k) =>
        gate.state \in Early /\ gate = [gate EXCEPT !.state = Closing(k)]
  BY DEF IInv, Types, TypeOK, Closing, Early
<1>8. CASE d.is = "wait"
  <2> DEFINE r == [call[x] EXCEPT !.pc = "parked"]
  <2>1. r \in CallRecord /\ r.pc = "parked" /\ r.kind = k
    BY <1>3 DEF CallRecord, Places
  <2>2. /\ entry.waiters \cup {x} \in SUBSET Callers
        /\ entry' = [entry EXCEPT !.claimed = TRUE,
                                   !.waiters = entry.waiters \cup {x}]
    BY <1>4, <1>6, <1>8 DEF IInv, Types, TypeOK
  <2>3. gate' = [gate EXCEPT !.state = Closing(k)] /\ gate.state \in Early
    BY <1>5, <1>6, <1>7, <1>8
  <2>4. call' = [call EXCEPT ![x] = r]
    BY <1>6, <1>8 DEF Become
  <2> HIDE DEF r
  <2>5. Parks(x, k)
    BY <1>1, <1>2, <2>1, <2>2, <2>3, <2>4 DEF Parks, Waiting
  <2> QED
    BY <1>3, <2>5 DEF Moves
<1>9. CASE d.is = "poisoned"
  <2>1. gate' = [gate EXCEPT !.state = Closing(k)] /\ gate.state \in Early
    BY <1>5, <1>6, <1>7, <1>9
  <2>2. Returns(x)
    BY <1>1, <1>2, <1>3, <1>6, <1>9, <2>1 DEF Returns, Become
  <2> QED
    BY <2>2 DEF Moves
<1>10. CASE d.is = "issue"
  <2> DEFINE r == [call[x] EXCEPT !.pc = "issuing", !.untold = Reachable]
  <2>1. Reachable \in SUBSET Ops
    BY DEF IInv, Types, TypeOK, Reachable
  <2>2. r \in CallRecord /\ r.pc = "issuing" /\ r.kind = k
    BY <1>3, <2>1 DEF CallRecord, Places
  <2>3. entry' = [entry EXCEPT !.claimed = TRUE, !.participants = Reachable]
    BY <1>4, <1>6, <1>10 DEF IInv, Types, TypeOK
  <2>4. /\ gate' = [gate EXCEPT !.state = Issued(k)]
        /\ gate.state \in Early \cup {Issued(k)}
        /\ gate.pending = {} /\ (k = "Commit" => ~gate.poisoned)
    BY <1>5, <1>6, <1>7, <1>10
  <2>5. call' = [call EXCEPT ![x] = r]
    BY <1>6, <1>10 DEF Become
  <2> HIDE DEF r
  <2>6. Issues(x, k)
    BY <1>1, <1>2, <2>2, <2>3, <2>4, <2>5 DEF Issues, Issuing
  <2> QED
    BY <1>3, <2>6 DEF Moves
<1> QED
  BY <1>5, <1>8, <1>9, <1>10

-----------------------------------------------------------------------------
(* One step per action; first the acknowledgements.                        *)

(* Admit with an open gate, and without. *)
Admits(o) ==
    /\ op[o] = "idle" /\ gate.state = "Open" /\ entry.listed = TRUE
    /\ gate' = [gate EXCEPT !.pending = @ \cup {o}]
    /\ entry' = [entry EXCEPT !.participants = @ \cup {o}]
    /\ op' = [op EXCEPT ![o] = "pending"]
    /\ UNCHANGED <<alive, call, link, told, faulted>>

Refuses(o) ==
    /\ op[o] = "idle"
    /\ op' = [op EXCEPT ![o] = "refused"]
    /\ UNCHANGED <<gate, entry, alive, call, link, told, faulted>>

(* An acknowledgement is admitted. *)
LEMMA AdmitsStep ==
    ASSUME IInv, NEW o \in Ops, Admits(o)
    PROVE  IInv'
<1>1. Types'
  <2>1. gate' \in [state : States, pending : SUBSET Ops, poisoned : BOOLEAN]
    BY EndAssumption DEF IInv, Types, TypeOK, Admits, link, States, Outcomes
  <2>2. entry' \in [listed : BOOLEAN, claimed : BOOLEAN,
                   participants : SUBSET Ops, waiters : SUBSET Callers]
    BY EndAssumption DEF IInv, Types, TypeOK, Admits, link
  <2>3. op' \in [Ops -> {"idle", "pending", "ok", "failed", "refused"}]
    BY EndAssumption DEF IInv, Types, TypeOK, Admits, link
  <2>4. \A o1 \in entry'.participants : op'[o1] \in {"pending", "ok", "failed"}
    BY EndAssumption DEF IInv, Types, TypeOK, Admits, link
  <2>5. /\ lease' \in Actions \cup {"none"}
        /\ canon' \in [Actions -> 0..MaxRequests]
        /\ request' \in [Requests -> {"free", "pending", "ok", "error", "lost", "taken"}]
    BY EndAssumption DEF IInv, Types, TypeOK, Admits, link, Actions, Requests
  <2>6. tc' \in {"open", "Committed", "Aborted"} /\ told' \in [Ops -> SUBSET Outcomes]
    BY EndAssumption DEF IInv, Types, TypeOK, Admits, link, Outcomes
  <2>7. call' \in [Callers -> CallRecord]
    BY EndAssumption DEF IInv, Types, TypeOK, Admits, link, CallRecord,
       Places, Actions, Outcomes
  <2>8. wire' \in Seq(Frame) /\ replies' \in Seq(Reply)
    BY EndAssumption DEF IInv, Types, TypeOK, Admits, link, Frame, Reply
  <2>9. alive' \subseteq Ops /\ faulted' \in BOOLEAN
    BY EndAssumption DEF IInv, Types, TypeOK, Admits, link
  <2> QED
    BY <2>1, <2>2, <2>3, <2>4, <2>5, <2>6, <2>7, <2>8, <2>9 DEF Types,
       TypeOK, CallRecord, Places
<1>2. ClaimInv'
  BY DEF IInv, ClaimInv, Types, Admits, link
<1>3. GateInv'
  BY DEF IInv, GateInv, Types, TypeOK, Admits, link
<1>4. CallInv'
  BY DEF IInv, CallInv, Waiting, Issuing, Types, TypeOK, ClaimInv, Admits, link
<1>5. LeaseInv'
  BY DEF IInv, LeaseInv, Types, ClaimInv, CallInv, Waiting, Issuing, Admits, link
<1>6. CanonInv'
  BY DEF IInv, CanonInv, Ready, Types, TypeOK, GateInv, CallInv, Waiting,
     Issuing, Admits, link
<1>7. LinkInv'
  BY DEF IInv, LinkInv, Types, TypeOK, Done, CanonInv, Admits, link
<1>8. OutcomeInv'
  BY DEF IInv, OutcomeInv, Types, TypeOK, CallInv, Waiting, Issuing, Done,
     Admits, link
<1>9. FaultInv'
  BY DEF IInv, FaultInv, Types, TypeOK, CallInv, Waiting, Issuing, Admits, link
<1>10. HeardInv'
  BY DEF IInv, HeardInv, Types, TypeOK, Admits, link
<1> QED
  BY <1>1, <1>2, <1>3, <1>4, <1>5, <1>6, <1>7, <1>8, <1>9, <1>10 DEF IInv

(* An acknowledgement is refused. *)
LEMMA RefusesStep ==
    ASSUME IInv, NEW o \in Ops, Refuses(o)
    PROVE  IInv'
<1>1. Types'
  <2>1. /\ gate' \in [state : States, pending : SUBSET Ops, poisoned : BOOLEAN]
        /\ entry' \in [listed : BOOLEAN, claimed : BOOLEAN,
                   participants : SUBSET Ops, waiters : SUBSET Callers]
        /\ op' \in [Ops -> {"idle", "pending", "ok", "failed", "refused"}]
        /\ \A o1 \in entry'.participants : op'[o1] \in {"pending", "ok", "failed"}
    BY EndAssumption DEF IInv, Types, TypeOK, Refuses, link, States, Outcomes
  <2>2. /\ lease' \in Actions \cup {"none"}
        /\ canon' \in [Actions -> 0..MaxRequests]
        /\ request' \in [Requests -> {"free", "pending", "ok", "error", "lost", "taken"}]
        /\ tc' \in {"open", "Committed", "Aborted"}
        /\ told' \in [Ops -> SUBSET Outcomes]
        /\ wire' \in Seq(Frame) /\ replies' \in Seq(Reply)
        /\ alive' \subseteq Ops /\ faulted' \in BOOLEAN
    BY EndAssumption DEF IInv, Types, TypeOK, Refuses, link, Actions,
       Requests, Outcomes, Frame, Reply
  <2>3. call' \in [Callers -> CallRecord]
    BY EndAssumption DEF IInv, Types, TypeOK, Refuses, link, CallRecord,
       Places, Actions, Outcomes
  <2> QED
    BY <2>1, <2>2, <2>3 DEF Types, TypeOK, CallRecord, Places
<1>2. ClaimInv'
  BY DEF IInv, ClaimInv, Types, Refuses, link
<1>3. GateInv'
  BY DEF IInv, GateInv, Types, TypeOK, Refuses, link
<1>4. CallInv'
  BY DEF IInv, CallInv, Waiting, Issuing, Types, TypeOK, ClaimInv, Refuses, link
<1>5. LeaseInv'
  BY DEF IInv, LeaseInv, Types, ClaimInv, CallInv, Waiting, Issuing, Refuses, link
<1>6. CanonInv'
  BY DEF IInv, CanonInv, Ready, Types, TypeOK, GateInv, CallInv, Waiting,
     Issuing, Refuses, link
<1>7. LinkInv'
  BY DEF IInv, LinkInv, Types, TypeOK, Done, CanonInv, Refuses, link
<1>8. OutcomeInv'
  BY DEF IInv, OutcomeInv, Types, TypeOK, CallInv, Waiting, Issuing, Done,
     Refuses, link
<1>9. FaultInv'
  BY DEF IInv, FaultInv, Types, TypeOK, CallInv, Waiting, Issuing, Refuses, link
<1>10. HeardInv'
  BY DEF IInv, HeardInv, Types, TypeOK, Refuses, link
<1> QED
  BY <1>1, <1>2, <1>3, <1>4, <1>5, <1>6, <1>7, <1>8, <1>9, <1>10 DEF IInv

LEMMA AdmitStep ==
    ASSUME IInv, NEW o \in Ops, Admit(o)
    PROVE  IInv'
<1>1. entry.listed \in BOOLEAN
  BY DEF IInv, Types, TypeOK
<1>2. Admits(o) \/ Refuses(o)
  BY <1>1 DEF Admit, Admits, Refuses
<1> QED
  BY <1>2, AdmitsStep, RefusesStep

(* An acknowledgement is settled and parked calls are woken. *)
LEMMA FinishAckStep ==
    ASSUME IInv, NEW o \in Ops, NEW succeeded \in BOOLEAN,
           FinishAck(o, succeeded)
    PROVE  IInv'
<1>1. Types'
  <2>1. /\ gate' \in [state : States, pending : SUBSET Ops, poisoned : BOOLEAN]
        /\ entry' \in [listed : BOOLEAN, claimed : BOOLEAN,
                   participants : SUBSET Ops, waiters : SUBSET Callers]
        /\ op' \in [Ops -> {"idle", "pending", "ok", "failed", "refused"}]
        /\ \A o1 \in entry'.participants : op'[o1] \in {"pending", "ok", "failed"}
    BY EndAssumption DEF IInv, Types, TypeOK, FinishAck, Settle, Woken,
       link, States, Outcomes
  <2>2. /\ lease' \in Actions \cup {"none"}
        /\ canon' \in [Actions -> 0..MaxRequests]
        /\ request' \in [Requests -> {"free", "pending", "ok", "error", "lost", "taken"}]
        /\ tc' \in {"open", "Committed", "Aborted"}
        /\ told' \in [Ops -> SUBSET Outcomes]
        /\ wire' \in Seq(Frame) /\ replies' \in Seq(Reply)
        /\ alive' \subseteq Ops /\ faulted' \in BOOLEAN
    BY EndAssumption DEF IInv, Types, TypeOK, FinishAck, Settle, Woken,
       link, Actions, Requests, Outcomes, Frame, Reply
  <2>3. call' \in [Callers -> CallRecord]
    <3>1. ASSUME NEW c \in Callers PROVE [call[c] EXCEPT !.pc = "woken"] \in CallRecord
      BY DEF IInv, Types, CallRecord, Places
    <3> QED
      BY <3>1 DEF IInv, Types, FinishAck, Woken
  <2> QED
    BY <2>1, <2>2, <2>3 DEF Types, TypeOK, CallRecord, Places
<1>2. ClaimInv'
  BY DEF IInv, ClaimInv, Types, FinishAck, Settle, Woken, link
<1>3. GateInv'
  BY DEF IInv, GateInv, Types, TypeOK, FinishAck, Settle, Woken, link
<1>4. CallInv'
  BY DEF IInv, CallInv, Waiting, Issuing, Types, TypeOK, ClaimInv, FinishAck,
     Settle, Woken,
     link
<1>5. LeaseInv'
  BY DEF IInv, LeaseInv, Types, ClaimInv, CallInv, Waiting, Issuing, FinishAck,
     Settle, Woken,
     link
<1>6. CanonInv'
  BY DEF IInv, CanonInv, Ready, Types, TypeOK, GateInv, CallInv, Waiting,
     Issuing, FinishAck,
     Settle, Woken, link
<1>7. LinkInv'
  BY DEF IInv, LinkInv, Types, TypeOK, Done, CanonInv, FinishAck, Settle,
     Woken, link
<1>8. OutcomeInv'
  BY DEF IInv, OutcomeInv, Types, TypeOK, CallInv, Waiting, Issuing, Done,
     FinishAck, Settle,
     Woken, link
<1>9. FaultInv'
  BY DEF IInv, FaultInv, Types, TypeOK, CallInv, Waiting, Issuing, FinishAck,
     Settle, Woken,
     link
<1>10. HeardInv'
  BY DEF IInv, HeardInv, Types, TypeOK, FinishAck, Settle, Woken, link
<1> QED
  BY <1>1, <1>2, <1>3, <1>4, <1>5, <1>6, <1>7, <1>8, <1>9, <1>10 DEF IInv

(* A consumer is dropped. *)
LEMMA DropConsumerStep ==
    ASSUME IInv, NEW o \in Ops, DropConsumer(o)
    PROVE  IInv'
<1>1. Types'
  BY EndAssumption DEF IInv, Types, TypeOK, CallRecord, Places, Frame,
     Reply, Requests, Actions, Outcomes, States, DropConsumer, link
<1>2. ClaimInv'
  BY DEF IInv, ClaimInv, Types, DropConsumer, link
<1>3. GateInv'
  BY DEF IInv, GateInv, Types, TypeOK, DropConsumer, link
<1>4. CallInv'
  BY DEF IInv, CallInv, Waiting, Issuing, Types, TypeOK, ClaimInv,
     DropConsumer, link
<1>5. LeaseInv'
  BY DEF IInv, LeaseInv, Types, ClaimInv, CallInv, Waiting, Issuing,
     DropConsumer, link
<1>6. CanonInv'
  BY DEF IInv, CanonInv, Ready, Types, TypeOK, GateInv, CallInv, Waiting, Issuing,
     DropConsumer, link
<1>7. LinkInv'
  BY DEF IInv, LinkInv, Types, TypeOK, Done, CanonInv, DropConsumer, link
<1>8. OutcomeInv'
  BY DEF IInv, OutcomeInv, Types, TypeOK, CallInv, Waiting, Issuing, Done,
     DropConsumer, link
<1>9. FaultInv'
  BY DEF IInv, FaultInv, Types, TypeOK, CallInv, Waiting, Issuing,
     DropConsumer, link
<1>10. HeardInv'
  BY DEF IInv, HeardInv, Types, TypeOK, DropConsumer, link
<1> QED
  BY <1>1, <1>2, <1>3, <1>4, <1>5, <1>6, <1>7, <1>8, <1>9, <1>10 DEF IInv

-----------------------------------------------------------------------------
(* Calls.                                                                  *)

(* A call that returns leaves the claim to others. *)
LEMMA ReturnsStep ==
    ASSUME IInv, NEW x \in Callers, Returns(x)
    PROVE  IInv'
<1> DEFINE r == Idle
<1>1. r \in CallRecord /\ r.pc = "idle"
  BY IdleType
<1> HIDE DEF r
<1>2. /\ call' \in [Callers -> CallRecord] /\ call'[x] = r
      /\ \A d \in Callers : d # x => call'[d] = call[d]
  BY <1>1, CallAssigned DEF IInv, Types, r, Returns
<1>3. Types'
  <2>1. /\ gate' \in [state : States, pending : SUBSET Ops, poisoned : BOOLEAN]
        /\ entry' \in [listed : BOOLEAN, claimed : BOOLEAN,
                   participants : SUBSET Ops, waiters : SUBSET Callers]
        /\ op' \in [Ops -> {"idle", "pending", "ok", "failed", "refused"}]
        /\ \A o1 \in entry'.participants : op'[o1] \in {"pending", "ok", "failed"}
    BY ZenonT(60), EndAssumption DEF IInv, Types, TypeOK, Returns, Same, Only,
       Early,
       Closing, States, Outcomes
  <2>2. /\ lease' \in Actions \cup {"none"}
        /\ canon' \in [Actions -> 0..MaxRequests]
        /\ request' \in [Requests -> {"free", "pending", "ok", "error", "lost", "taken"}]
        /\ tc' \in {"open", "Committed", "Aborted"}
        /\ told' \in [Ops -> SUBSET Outcomes]
        /\ wire' \in Seq(Frame) /\ replies' \in Seq(Reply)
        /\ alive' \subseteq Ops /\ faulted' \in BOOLEAN
    BY EndAssumption DEF IInv, Types, TypeOK, Returns, Same, Only, Early,
       Closing, Actions, Requests, Outcomes, Frame, Reply
  <2>3. call' \in [Callers -> CallRecord]
    BY <1>2
  <2> QED
    BY <2>1, <2>2, <2>3 DEF Types, TypeOK, CallRecord, Places
<1>4. /\ gate'.pending = gate.pending /\ gate'.poisoned = gate.poisoned
      /\ \/ call[x].pc = "idle" /\ gate'.state = gate.state
         \/ Only(x) /\ {gate.state, gate'.state} \subseteq Early
  BY DEF IInv, Types, TypeOK, Returns, Closing, Early
<1>5. /\ entry'.participants = entry.participants /\ entry'.listed = entry.listed
      /\ \/ call[x].pc = "idle" /\ entry'.claimed = entry.claimed
         \/ Only(x) /\ entry'.claimed = FALSE
  BY DEF IInv, Types, TypeOK, Returns
<1>6. Same
  BY DEF Returns
<1>7. ClaimInv'
  BY <1>1, <1>2, <1>4, <1>5, <1>6 DEF IInv, ClaimInv, Same, Only, Early
<1>8. GateInv'
  BY <1>1, <1>2, <1>4, <1>5, <1>6 DEF IInv, GateInv, Types, TypeOK, Closing,
     Issued, Same, Only, Early
<1>9. CallInv'
  <2>1. ASSUME NEW c \in Callers, c # x, call[c].pc # "idle"
        PROVE  call'[c] = call[c] /\ gate'.state = gate.state
    BY <1>2, <1>4, <2>1 DEF Only
  <2>2. ASSUME NEW c \in Callers, call'[c].pc # "idle"
        PROVE  call[c].pc # "idle" /\ call'[c] = call[c] /\ gate'.state = gate.state
    BY <1>1, <1>2, <2>1, <2>2
  <2> QED
    BY <1>6, <2>2 DEF IInv, CallInv, Waiting, Issuing, Same
<1>10. LeaseInv'
  BY <1>1, <1>2, <1>4, <1>5, <1>6 DEF IInv, LeaseInv, Same, Only, Early
<1>11. CanonInv'
  BY <1>1, <1>2, <1>4, <1>5, <1>6 DEF IInv, CanonInv, Ready, Types, TypeOK,
     GateInv, Closing, Issued, Done, Actions, Same, Only, Early
<1>12. LinkInv'
  BY <1>1, <1>2, <1>4, <1>5, <1>6 DEF IInv, LinkInv, Types, Same, Only, Early
<1>13. OutcomeInv'
  BY <1>1, <1>2, <1>4, <1>5, <1>6 DEF IInv, OutcomeInv, Types, TypeOK,
     Closing, Issued, Done, Same, Only, Early
<1>14. FaultInv'
  BY ZenonT(60), <1>1, <1>2, <1>4, <1>5, <1>6 DEF IInv, FaultInv, Types, TypeOK,
     Closing, Issued, Done, Same, Only, Early
<1>15. HeardInv'
  BY <1>1, <1>2, <1>4, <1>5, <1>6 DEF IInv, HeardInv, Types, TypeOK,
     Reachable, Same, Only, Early
<1> QED
  BY <1>3, <1>7, <1>8, <1>9, <1>10, <1>11, <1>12, <1>13, <1>14, <1>15 DEF IInv

(* A call that parks has closed the gate. *)
LEMMA ParksStep ==
    ASSUME IInv, NEW x \in Callers, NEW k \in Actions, Parks(x, k)
    PROVE  IInv'
<1>1. PICK r \in CallRecord : /\ r.kind = k /\ r.pc \in {"prepared", "parked"}
                              /\ Waiting(r) /\ call' = [call EXCEPT ![x] = r]
  BY DEF Parks
<1>2. /\ call' \in [Callers -> CallRecord] /\ call'[x] = r
      /\ \A d \in Callers : d # x => call'[d] = call[d]
  BY <1>1, CallAssigned DEF IInv, Types
<1>3. Types'
  <2>1. /\ gate' \in [state : States, pending : SUBSET Ops, poisoned : BOOLEAN]
        /\ entry' \in [listed : BOOLEAN, claimed : BOOLEAN,
                   participants : SUBSET Ops, waiters : SUBSET Callers]
        /\ op' \in [Ops -> {"idle", "pending", "ok", "failed", "refused"}]
        /\ \A o1 \in entry'.participants : op'[o1] \in {"pending", "ok", "failed"}
    BY EndAssumption DEF IInv, Types, TypeOK, Parks, Same, Only, Early,
       Closing, Issued, Reachable, States, Outcomes
  <2>2. /\ lease' \in Actions \cup {"none"}
        /\ canon' \in [Actions -> 0..MaxRequests]
        /\ request' \in [Requests -> {"free", "pending", "ok", "error", "lost", "taken"}]
        /\ tc' \in {"open", "Committed", "Aborted"}
        /\ told' \in [Ops -> SUBSET Outcomes]
        /\ wire' \in Seq(Frame) /\ replies' \in Seq(Reply)
        /\ alive' \subseteq Ops /\ faulted' \in BOOLEAN
    BY EndAssumption DEF IInv, Types, TypeOK, Parks, Same, Only, Early,
       Closing, Issued, Reachable, Actions, Requests, Outcomes, Frame,
       Reply
  <2>3. call' \in [Callers -> CallRecord]
    BY <1>2
  <2> QED
    BY <2>1, <2>2, <2>3 DEF Types, TypeOK, CallRecord, Places
<1>4. ClaimInv'
  BY <1>1, <1>2 DEF IInv, ClaimInv, Parks, Same, Only, Early
<1>5. GateInv'
  BY <1>1, <1>2 DEF IInv, GateInv, Types, TypeOK, Closing, Issued, Parks,
     Same, Only, Early
<1>6. CallInv'
  BY <1>1, <1>2 DEF IInv, CallInv, Waiting, Issuing, Types, TypeOK, ClaimInv,
     Closing, Issued,
     Done, Parks, Same, Only, Early
<1>7. LeaseInv'
  BY <1>1, <1>2 DEF IInv, LeaseInv, Parks, Same, Only, Early
<1>8. CanonInv'
  BY <1>1, <1>2 DEF IInv, CanonInv, Ready, Types, TypeOK, GateInv, Closing,
     Issued, Done, Actions, Parks, Same, Only, Early
<1>9. LinkInv'
  BY <1>1, <1>2 DEF IInv, LinkInv, Types, Parks, Same, Only, Early
<1>10. OutcomeInv'
  BY <1>1, <1>2 DEF IInv, OutcomeInv, Types, TypeOK, Closing, Issued, Done,
     Parks, Same, Only, Early
<1>11. FaultInv'
  BY <1>1, <1>2 DEF IInv, FaultInv, Types, TypeOK, Closing, Issued, Done,
     Parks, Same, Only, Early
<1>12. HeardInv'
  BY <1>1, <1>2 DEF IInv, HeardInv, Types, TypeOK, Reachable, Parks, Same,
     Only, Early
<1> QED
  BY <1>3, <1>4, <1>5, <1>6, <1>7, <1>8, <1>9, <1>10, <1>11, <1>12 DEF IInv

(* A call that issues its decision found nothing under way. *)
LEMMA IssuesStep ==
    ASSUME IInv, NEW x \in Callers, NEW k \in Actions, Issues(x, k)
    PROVE  IInv'
<1>1. PICK r \in CallRecord : /\ r.kind = k /\ r.pc \in {"prepared", "issuing"}
                              /\ Issuing(r) /\ call' = [call EXCEPT ![x] = r]
  BY DEF Issues
<1>2. /\ call' \in [Callers -> CallRecord] /\ call'[x] = r
      /\ \A d \in Callers : d # x => call'[d] = call[d]
  BY <1>1, CallAssigned DEF IInv, Types
<1>3. Types'
  <2>1. /\ gate' \in [state : States, pending : SUBSET Ops, poisoned : BOOLEAN]
        /\ entry' \in [listed : BOOLEAN, claimed : BOOLEAN,
                   participants : SUBSET Ops, waiters : SUBSET Callers]
        /\ op' \in [Ops -> {"idle", "pending", "ok", "failed", "refused"}]
        /\ \A o1 \in entry'.participants : op'[o1] \in {"pending", "ok", "failed"}
    <3>1. PICK P \in {entry.participants, Reachable} :
            entry' = [entry EXCEPT !.claimed = TRUE, !.participants = P]
      BY DEF Issues
    <3>2. P \subseteq entry.participants
      BY DEF Reachable
    <3>3. /\ entry' \in [listed : BOOLEAN, claimed : BOOLEAN,
                     participants : SUBSET Ops, waiters : SUBSET Callers]
          /\ entry'.participants = P
      BY <3>1, <3>2 DEF IInv, Types, TypeOK
    <3>4. gate' \in [state : States, pending : SUBSET Ops, poisoned : BOOLEAN]
      BY DEF IInv, Types, TypeOK, Issues, Issued, States
    <3> QED
      BY <3>2, <3>3, <3>4 DEF IInv, Types, TypeOK, Issues, Same
  <2>2. /\ lease' \in Actions \cup {"none"}
        /\ canon' \in [Actions -> 0..MaxRequests]
        /\ request' \in [Requests -> {"free", "pending", "ok", "error", "lost", "taken"}]
        /\ tc' \in {"open", "Committed", "Aborted"}
        /\ told' \in [Ops -> SUBSET Outcomes]
        /\ wire' \in Seq(Frame) /\ replies' \in Seq(Reply)
        /\ alive' \subseteq Ops /\ faulted' \in BOOLEAN
    BY EndAssumption DEF IInv, Types, TypeOK, Issues, Same, Only, Early,
       Closing, Issued, Reachable, Actions, Requests, Outcomes, Frame,
       Reply
  <2>3. call' \in [Callers -> CallRecord]
    BY <1>2
  <2> QED
    BY <2>1, <2>2, <2>3 DEF Types, TypeOK, CallRecord, Places
<1>4. ClaimInv'
  BY <1>1, <1>2 DEF IInv, ClaimInv, Issues, Same, Only, Early
<1>5. GateInv'
  BY <1>1, <1>2 DEF IInv, GateInv, Types, TypeOK, Closing, Issued, Issues,
     Same, Only, Early
<1>6. CallInv'
  BY <1>1, <1>2 DEF IInv, CallInv, Waiting, Issuing, Types, TypeOK, ClaimInv,
     Closing, Issued,
     Done, Issues, Same, Only, Early
<1>7. LeaseInv'
  BY <1>1, <1>2 DEF IInv, LeaseInv, Issues, Same, Only, Early
<1>8. CanonInv'
  BY <1>1, <1>2 DEF IInv, CanonInv, Ready, Types, TypeOK, GateInv, Closing,
     Issued, Done, Actions, Issues, Same, Only, Early
<1>9. LinkInv'
  BY <1>1, <1>2 DEF IInv, LinkInv, Types, Issues, Same, Only, Early
<1>10. OutcomeInv'
  BY <1>1, <1>2 DEF IInv, OutcomeInv, Types, TypeOK, Closing, Issued, Done,
     Issues, Same, Only, Early
<1>11. FaultInv'
  BY <1>1, <1>2 DEF IInv, FaultInv, Types, TypeOK, Closing, Issued, Done,
     Issues, Same, Only, Early
<1>12. HeardInv'
  BY <1>1, <1>2 DEF IInv, HeardInv, Types, TypeOK, Reachable, Issues, Same,
     Only, Early
<1> QED
  BY <1>3, <1>4, <1>5, <1>6, <1>7, <1>8, <1>9, <1>10, <1>11, <1>12 DEF IInv

(* A call that tells a confirmed outcome again. *)
LEMMA RetellsStep ==
    ASSUME IInv, NEW x \in Callers, NEW k \in Actions, Retells(x, k)
    PROVE  IInv'
<1> DEFINE r == [Idle EXCEPT !.pc = "telling", !.kind = k,
                          !.untold = Reachable, !.outcome = Done(k)]
<1>1. /\ r \in CallRecord
      /\ r.pc = "telling" /\ r.kind = k /\ r.outcome = Done(k)
  <2>1. Reachable \in SUBSET Ops /\ Done(k) \in Outcomes
    BY DEF IInv, Types, TypeOK, Reachable, Outcomes, Done
  <2> QED
    BY <2>1, IdleType DEF CallRecord, Places
<1> HIDE DEF r
<1>2. /\ call' \in [Callers -> CallRecord] /\ call'[x] = r
      /\ \A d \in Callers : d # x => call'[d] = call[d]
  BY <1>1, CallAssigned DEF IInv, Types, r, Retells
<1>3. Types'
  <2>1. /\ gate' \in [state : States, pending : SUBSET Ops, poisoned : BOOLEAN]
        /\ entry' \in [listed : BOOLEAN, claimed : BOOLEAN,
                   participants : SUBSET Ops, waiters : SUBSET Callers]
        /\ op' \in [Ops -> {"idle", "pending", "ok", "failed", "refused"}]
        /\ \A o1 \in entry'.participants : op'[o1] \in {"pending", "ok", "failed"}
    BY EndAssumption DEF IInv, Types, TypeOK, Retells, Same, Only, Early,
       Closing, Issued, Reachable, States, Outcomes
  <2>2. /\ lease' \in Actions \cup {"none"}
        /\ canon' \in [Actions -> 0..MaxRequests]
        /\ request' \in [Requests -> {"free", "pending", "ok", "error", "lost", "taken"}]
        /\ tc' \in {"open", "Committed", "Aborted"}
        /\ told' \in [Ops -> SUBSET Outcomes]
        /\ wire' \in Seq(Frame) /\ replies' \in Seq(Reply)
        /\ alive' \subseteq Ops /\ faulted' \in BOOLEAN
    BY EndAssumption DEF IInv, Types, TypeOK, Retells, Same, Only, Early,
       Closing, Issued, Reachable, Actions, Requests, Outcomes, Frame,
       Reply
  <2>3. call' \in [Callers -> CallRecord]
    BY <1>2
  <2> QED
    BY <2>1, <2>2, <2>3 DEF Types, TypeOK, CallRecord, Places
<1>4. ClaimInv'
  BY <1>1, <1>2 DEF IInv, ClaimInv, Retells, Same, Only, Early
<1>5. GateInv'
  BY <1>1, <1>2 DEF IInv, GateInv, Types, TypeOK, Closing, Issued, Retells,
     Same, Only, Early
<1>6. CallInv'
  BY <1>1, <1>2 DEF IInv, CallInv, Waiting, Issuing, Types, TypeOK, ClaimInv,
     Closing, Issued,
     Done, Retells, Same, Only, Early
<1>7. LeaseInv'
  BY <1>1, <1>2 DEF IInv, LeaseInv, Retells, Same, Only, Early
<1>8. CanonInv'
  BY <1>1, <1>2 DEF IInv, CanonInv, Ready, Types, TypeOK, GateInv, Closing,
     Issued, Done, Actions, Retells, Same, Only, Early
<1>9. LinkInv'
  BY <1>1, <1>2 DEF IInv, LinkInv, Types, Retells, Same, Only, Early
<1>10. OutcomeInv'
  BY <1>1, <1>2 DEF IInv, OutcomeInv, Types, TypeOK, Closing, Issued, Done,
     Retells, Same, Only, Early
<1>11. FaultInv'
  BY <1>1, <1>2 DEF IInv, FaultInv, Types, TypeOK, Closing, Issued, Done,
     Retells, Same, Only, Early
<1>12. HeardInv'
  BY <1>1, <1>2 DEF IInv, HeardInv, Types, TypeOK, Reachable, Retells, Same,
     Only, Early
<1> QED
  BY <1>3, <1>4, <1>5, <1>6, <1>7, <1>8, <1>9, <1>10, <1>11, <1>12 DEF IInv

LEMMA MovesStep ==
    ASSUME IInv, NEW x \in Callers, Moves(x)
    PROVE  IInv'
BY ReturnsStep, ParksStep, IssuesStep, RetellsStep DEF Moves

LEMMA StartStep ==
    ASSUME IInv, NEW x \in Callers, NEW kind \in Actions, Start(x, kind)
    PROVE  IInv'
BY StartMoves, MovesStep

LEMMA PollWaitStep ==
    ASSUME IInv, NEW x \in Callers, PollWait(x)
    PROVE  IInv'
BY PollWaitMoves, MovesStep

(* EndTxn finds the lease free: it resumes a request or sends a new one. *)
Resumes(x, k) ==
    /\ call[x].pc = "issuing" /\ call[x].kind = k /\ canon[k] # 0
    /\ lease' = k
    /\ call' = [call EXCEPT ![x] = [call[x] EXCEPT !.pc = "ending", !.rid = canon[k]]]
    /\ UNCHANGED <<canon, request, wire, gate, replies, tc>>
    /\ UNCHANGED <<entry, op, alive, told, left, faulted>>

Sends(x, k, rid) ==
    /\ call[x].pc = "issuing" /\ call[x].kind = k /\ canon[k] = 0
    /\ rid \in Requests /\ request[rid] = "free"
    /\ lease' = k /\ canon' = [canon EXCEPT ![k] = rid]
    /\ call' = [call EXCEPT ![x] = [call[x] EXCEPT !.pc = "ending", !.rid = rid]]
    /\ request' = [request EXCEPT ![rid] = "pending"]
    /\ wire' = Append(wire, [rid |-> rid, action |-> k])
    /\ UNCHANGED <<gate, replies, tc>>
    /\ UNCHANGED <<entry, op, alive, told, left, faulted>>

LEMMA EndTxnCases ==
    ASSUME IInv, NEW x \in Callers, EndTxn(x)
    PROVE  \E k \in Actions : Resumes(x, k) \/ \E rid \in Requests : Sends(x, k, rid)
<1> DEFINE k == call[x].kind
<1> DEFINE free == {r \in Requests : request[r] = "free"}
<1>1. k \in Actions /\ call[x].pc = "issuing"
  BY DEF IInv, Types, CallRecord, EndTxn
<1>2. lease = "none"
  BY <1>1 DEF IInv, LeaseInv, ClaimInv
<1>3. free # {} /\ free \in SUBSET Nat
  BY <1>2 DEF EndTxn, Requests
<1>4. Min(free) \in Requests /\ request[Min(free)] = "free"
  BY <1>3, MinIsMember
<1>5. CASE canon[k] # 0
  <2>1. canon = [canon EXCEPT ![k] = canon[k]]
    BY <1>1 DEF IInv, Types, TypeOK
  <2>2. Resumes(x, k)
    BY <1>1, <1>2, <1>5, <2>1 DEF EndTxn, Resumes, Resume, Become
  <2> QED
    BY <1>1, <2>2
<1>6. CASE canon[k] = 0
  <2>1. Sends(x, k, Min(free))
    BY <1>1, <1>2, <1>4, <1>6 DEF EndTxn, Sends, Resume, Become
  <2> QED
    BY <1>1, <1>4, <2>1
<1> QED
  BY <1>5, <1>6

(* A call resumes the request that its decision has under way. *)
LEMMA ResumesStep ==
    ASSUME IInv, NEW x \in Callers, NEW k \in Actions, Resumes(x, k)
    PROVE  IInv'
<1> DEFINE r == [call[x] EXCEPT !.pc = "ending", !.rid = canon[k]]
<1>1. /\ r \in CallRecord
      /\ r.pc = "ending" /\ r.kind = k /\ r.rid = canon[k]
  BY ZenonT(60) DEF IInv, Types, TypeOK, CallRecord, Places, Resumes
<1> HIDE DEF r
<1>2. /\ call' \in [Callers -> CallRecord] /\ call'[x] = r
      /\ \A d \in Callers : d # x => call'[d] = call[d]
  BY <1>1, CallAssigned DEF IInv, Types, r, Resumes, Become
<1>3. Types'
  <2>1. /\ gate' \in [state : States, pending : SUBSET Ops, poisoned : BOOLEAN]
        /\ entry' \in [listed : BOOLEAN, claimed : BOOLEAN,
                   participants : SUBSET Ops, waiters : SUBSET Callers]
        /\ op' \in [Ops -> {"idle", "pending", "ok", "failed", "refused"}]
        /\ \A o1 \in entry'.participants : op'[o1] \in {"pending", "ok", "failed"}
    BY EndAssumption DEF IInv, Types, TypeOK, Resumes, States, Outcomes
  <2>2. /\ lease' \in Actions \cup {"none"}
        /\ canon' \in [Actions -> 0..MaxRequests]
        /\ request' \in [Requests -> {"free", "pending", "ok", "error", "lost", "taken"}]
        /\ tc' \in {"open", "Committed", "Aborted"}
        /\ told' \in [Ops -> SUBSET Outcomes]
        /\ wire' \in Seq(Frame) /\ replies' \in Seq(Reply)
        /\ alive' \subseteq Ops /\ faulted' \in BOOLEAN
    BY EndAssumption DEF IInv, Types, TypeOK, Resumes, Actions, Requests,
       Outcomes, Frame, Reply
  <2>3. call' \in [Callers -> CallRecord]
    BY <1>2
  <2> QED
    BY <2>1, <2>2, <2>3 DEF Types, TypeOK, CallRecord, Places
<1>4. ClaimInv'
  BY <1>1, <1>2 DEF IInv, ClaimInv, Resumes
<1>5. GateInv'
  BY <1>1, <1>2 DEF IInv, GateInv, Types, TypeOK, Resumes
<1>6. CallInv'
  BY <1>1, <1>2 DEF IInv, CallInv, Waiting, Issuing, Types, TypeOK, ClaimInv,
     Resumes
<1>7. LeaseInv'
  BY <1>1, <1>2 DEF IInv, LeaseInv, ClaimInv, CallInv, Waiting, Issuing, Resumes
<1>8. CanonInv'
  BY <1>1, <1>2 DEF IInv, CanonInv, Ready, Types, TypeOK, CallInv, Waiting,
     Issuing, Resumes
<1>9. LinkInv'
  BY <1>1, <1>2 DEF IInv, LinkInv, Types, Resumes
<1>10. OutcomeInv'
  BY <1>1, <1>2 DEF IInv, OutcomeInv, Types, TypeOK, CallInv, Waiting, Issuing,
     Resumes
<1>11. FaultInv'
  BY <1>1, <1>2 DEF IInv, FaultInv, Types, TypeOK, CallInv, Waiting, Issuing,
     Resumes
<1>12. HeardInv'
  BY <1>1, <1>2 DEF IInv, HeardInv, Types, TypeOK, Resumes
<1> QED
  BY <1>3, <1>4, <1>5, <1>6, <1>7, <1>8, <1>9, <1>10, <1>11, <1>12 DEF IInv

(* A call sends a request: none is under way. *)
LEMMA SendsStep ==
    ASSUME IInv, NEW x \in Callers, NEW k \in Actions, NEW rid \in Requests, Sends(x, k, rid)
    PROVE  IInv'
<1> DEFINE r == [call[x] EXCEPT !.pc = "ending", !.rid = rid]
<1>1. /\ r \in CallRecord
      /\ r.pc = "ending" /\ r.kind = k /\ r.rid = rid /\ rid # 0
  <2>1. rid \in 0..MaxRequests /\ rid # 0
    BY EndAssumption DEF Requests
  <2> QED
    BY <2>1 DEF IInv, Types, CallRecord, Places, Sends
<1> HIDE DEF r
<1>2. /\ call' \in [Callers -> CallRecord] /\ call'[x] = r
      /\ \A d \in Callers : d # x => call'[d] = call[d]
  BY <1>1, CallAssigned DEF IInv, Types, r, Sends, Become
<1>3. Types'
  <2>1. /\ gate' \in [state : States, pending : SUBSET Ops, poisoned : BOOLEAN]
        /\ entry' \in [listed : BOOLEAN, claimed : BOOLEAN,
                   participants : SUBSET Ops, waiters : SUBSET Callers]
        /\ op' \in [Ops -> {"idle", "pending", "ok", "failed", "refused"}]
        /\ \A o1 \in entry'.participants : op'[o1] \in {"pending", "ok", "failed"}
    BY EndAssumption DEF IInv, Types, TypeOK, Sends, States, Outcomes
  <2>2. /\ lease' \in Actions \cup {"none"}
        /\ canon' \in [Actions -> 0..MaxRequests]
        /\ request' \in [Requests -> {"free", "pending", "ok", "error", "lost", "taken"}]
        /\ tc' \in {"open", "Committed", "Aborted"}
        /\ told' \in [Ops -> SUBSET Outcomes]
        /\ wire' \in Seq(Frame) /\ replies' \in Seq(Reply)
        /\ alive' \subseteq Ops /\ faulted' \in BOOLEAN
    BY EndAssumption DEF IInv, Types, TypeOK, Sends, Actions, Requests,
       Outcomes, Frame, Reply
  <2>3. call' \in [Callers -> CallRecord]
    BY <1>2
  <2> QED
    BY <2>1, <2>2, <2>3 DEF Types, TypeOK, CallRecord, Places
<1>4. ClaimInv'
  BY <1>1, <1>2 DEF IInv, ClaimInv, Sends
<1>5. GateInv'
  BY <1>1, <1>2 DEF IInv, GateInv, Types, TypeOK, Sends
<1>6. CallInv'
  BY <1>1, <1>2 DEF IInv, CallInv, Waiting, Issuing, Types, TypeOK, ClaimInv,
     Sends
<1>7. LeaseInv'
  BY <1>1, <1>2 DEF IInv, LeaseInv, ClaimInv, CallInv, Waiting, Issuing, Sends
<1>8. CanonInv'
  BY <1>1, <1>2 DEF IInv, CanonInv, Ready, Types, TypeOK, CallInv, Waiting,
     Issuing, GateInv,
     Issued, Done, Actions, Sends
<1>9. LinkInv'
  <2>1. \A a \in Actions : canon[a] = 0
    BY DEF IInv, Types, CallInv, Waiting, Issuing, CanonInv, Sends, Issued,
       Done, Actions
  <2>2. wire = <<>> /\ replies = <<>>
    BY <2>1 DEF IInv, LinkInv
  <2>3. /\ canon'[k] = rid /\ request'[rid] = "pending" /\ rid # 0
        /\ wire' = <<[rid |-> rid, action |-> k]>> /\ replies' = <<>>
    BY <1>1, <2>2 DEF IInv, Types, TypeOK, Sends, Requests
  <2> QED
    BY <2>3 DEF LinkInv
<1>10. OutcomeInv'
  BY <1>1, <1>2 DEF IInv, OutcomeInv, Types, TypeOK, CallInv, Waiting, Issuing,
     Issued, Done,
     Actions, CanonInv, Sends
<1>11. FaultInv'
  BY <1>1, <1>2 DEF IInv, FaultInv, Types, TypeOK, CallInv, Waiting, Issuing,
     Sends
<1>12. HeardInv'
  BY <1>1, <1>2 DEF IInv, HeardInv, Types, TypeOK, Sends
<1> QED
  BY <1>3, <1>4, <1>5, <1>6, <1>7, <1>8, <1>9, <1>10, <1>11, <1>12 DEF IInv

LEMMA EndTxnStep ==
    ASSUME IInv, NEW x \in Callers, EndTxn(x)
    PROVE  IInv'
BY EndTxnCases, ResumesStep, SendsStep

(* TakeOutcome, with a confirmation and without. *)
Confirms(x, k, rid) ==
    /\ call[x].pc = "ending" /\ call[x].kind = k /\ call[x].rid = rid
    /\ request[rid] = "ok"
    /\ gate' = [gate EXCEPT !.state = Done(k)]
    /\ call' = [call EXCEPT ![x] = [call[x] EXCEPT !.pc = "telling", !.kind = k,
                                  !.outcome = Done(k), !.failed = FALSE]]
    /\ request' = [request EXCEPT ![rid] = "taken"]
    /\ canon' = [canon EXCEPT ![k] = 0] /\ lease' = "none"
    /\ UNCHANGED <<entry, op, alive, wire, replies, tc, told, left, faulted>>

Doubts(x, k, rid) ==
    /\ call[x].pc = "ending" /\ call[x].kind = k /\ call[x].rid = rid
    /\ request[rid] \in {"error", "lost"}
    /\ call' = [call EXCEPT ![x] = [call[x] EXCEPT !.pc = "telling", !.kind = k,
                                  !.outcome = "Unknown", !.failed = FALSE]]
    /\ request' = [request EXCEPT ![rid] = "taken"]
    /\ canon' = [canon EXCEPT ![k] = 0] /\ lease' = "none"
    /\ UNCHANGED <<gate, entry, op, alive, wire, replies, tc, told, left, faulted>>

LEMMA TakeOutcomeCases ==
    ASSUME IInv, NEW x \in Callers, TakeOutcome(x)
    PROVE  \E k \in Actions, rid \in Requests : Confirms(x, k, rid) \/ Doubts(x, k, rid)
<1> DEFINE k == call[x].kind
<1> DEFINE rid == call[x].rid
<1>1. /\ k \in Actions /\ call[x].pc = "ending" /\ gate.state = Issued(k)
      /\ gate.pending = {} /\ rid \in Requests
  BY EndAssumption DEF IInv, Types, CallRecord, CallInv, Waiting, Issuing,
     GateInv,
     TakeOutcome, Requests,
     Issued
<1>2. CASE request[rid] = "ok"
  <2>1. Result(x) = Done(k) /\ Done(k) # "Unknown" /\ gate.state # Done(k)
    BY <1>1, <1>2 DEF Result, Done, Issued
  <2>2. Finish(gate, Done(k)) = [gate EXCEPT !.state = Done(k)]
    BY <1>1 DEF Finish, Issued
  <2>3. Confirms(x, k, rid)
    BY <1>1, <1>2, <2>1, <2>2 DEF Confirms, TakeOutcome, Completing, Become
  <2> QED
    BY <1>1, <2>3
<1>3. CASE request[rid] # "ok"
  <2>1. Result(x) = "Unknown"
    BY <1>3 DEF Result
  <2>2. Doubts(x, k, rid)
    BY <1>1, <1>3, <2>1 DEF Doubts, TakeOutcome, Completing, Become
  <2> QED
    BY <1>1, <2>2
<1> QED
  BY <1>2, <1>3

(* A confirmed outcome is final. *)
LEMMA ConfirmsStep ==
    ASSUME IInv, NEW x \in Callers, NEW k \in Actions, NEW rid \in Requests, Confirms(x, k, rid)
    PROVE  IInv'
<1> DEFINE r == [call[x] EXCEPT !.pc = "telling", !.kind = k, !.outcome = Done(k),
                            !.failed = FALSE]
<1>1. /\ r \in CallRecord
      /\ r.pc = "telling" /\ r.outcome = Done(k)
  BY DEF IInv, Types, CallRecord, Places, Outcomes, Done
<1> HIDE DEF r
<1>2. /\ call' \in [Callers -> CallRecord] /\ call'[x] = r
      /\ \A d \in Callers : d # x => call'[d] = call[d]
  BY <1>1, CallAssigned DEF IInv, Types, r, Confirms, Become
<1>3. Types'
  <2>1. /\ entry' \in [listed : BOOLEAN, claimed : BOOLEAN,
                   participants : SUBSET Ops, waiters : SUBSET Callers]
        /\ op' \in [Ops -> {"idle", "pending", "ok", "failed", "refused"}]
        /\ \A o1 \in entry'.participants : op'[o1] \in {"pending", "ok", "failed"}
    BY EndAssumption DEF IInv, Types, TypeOK, Confirms
  <2>2. /\ lease' \in Actions \cup {"none"}
        /\ canon' \in [Actions -> 0..MaxRequests]
        /\ request' \in [Requests -> {"free", "pending", "ok", "error", "lost", "taken"}]
        /\ tc' \in {"open", "Committed", "Aborted"}
        /\ told' \in [Ops -> SUBSET Outcomes]
        /\ wire' \in Seq(Frame) /\ replies' \in Seq(Reply)
        /\ alive' \subseteq Ops /\ faulted' \in BOOLEAN
    BY EndAssumption DEF IInv, Types, TypeOK, Confirms, Actions, Requests,
       Outcomes, Frame, Reply
  <2>3. gate' \in [state : States, pending : SUBSET Ops, poisoned : BOOLEAN]
    BY DEF IInv, Types, TypeOK, States, Outcomes, Done, Confirms
  <2>4. call' \in [Callers -> CallRecord]
    BY <1>2
  <2> QED
    BY <2>1, <2>2, <2>3, <2>4 DEF Types, TypeOK, CallRecord, Places
<1>4. ClaimInv'
  BY <1>1, <1>2 DEF IInv, ClaimInv, Confirms
<1>5. GateInv'
  BY <1>1, <1>2 DEF IInv, GateInv, Types, TypeOK, CallInv, Waiting, Issuing,
     Issued, Done,
     CanonInv, Confirms
<1>6. CallInv'
  BY <1>1, <1>2 DEF IInv, CallInv, Waiting, Issuing, Types, TypeOK, ClaimInv,
     Done, Confirms
<1>7. LeaseInv'
  BY <1>1, <1>2 DEF IInv, LeaseInv, ClaimInv, CallInv, Waiting, Issuing, Confirms
<1>8. CanonInv'
  <2>1. canon[k] = rid /\ rid # 0 /\ request[rid] # "pending"
    BY DEF IInv, CallInv, Waiting, Issuing, Confirms
  <2>2. \A a \in Actions : canon'[a] = 0 /\ (a # k => canon[a] = 0)
    BY <2>1 DEF IInv, Types, TypeOK, CanonInv, Actions, Confirms
  <2>3. ASSUME NEW q \in Requests PROVE request'[q] # "pending"
    <3>1. q # 0 /\ (request[q] = "pending" => \E a \in Actions : canon[a] = q)
      BY DEF IInv, CanonInv, Requests
    <3>2. request[q] # "pending"
      BY <2>1, <2>2, <3>1
    <3> QED
      BY <3>2 DEF IInv, Types, TypeOK, Confirms
  <2>4. tc' = "Committed" => Ready'
    BY DEF IInv, Types, TypeOK, CanonInv, CallInv, Waiting, Issuing, GateInv,
       Ready, Issued,
       Done, Confirms
  <2> QED
    BY <2>2, <2>3, <2>4 DEF CanonInv, Actions
<1>9. LinkInv'
  <2>1. canon[k] = rid /\ rid # 0 /\ request[rid] # "pending"
    BY DEF IInv, CallInv, Waiting, Issuing, Confirms
  <2>2. \A a \in Actions : a # k => canon[a] = 0
    BY <2>1 DEF IInv, CanonInv, Actions
  <2>3. wire = <<>> /\ replies = <<>>
    BY <2>1, <2>2 DEF IInv, LinkInv
  <2> QED
    BY <2>3 DEF LinkInv, Confirms
<1>10. OutcomeInv'
  BY <1>1, <1>2 DEF IInv, OutcomeInv, Types, TypeOK, CallInv, Waiting, Issuing,
     Issued, Done,
     Actions, CanonInv, Confirms
<1>11. FaultInv'
  BY <1>1, <1>2 DEF IInv, FaultInv, Types, TypeOK, CallInv, Waiting, Issuing,
     Done, Confirms
<1>12. HeardInv'
  BY <1>1, <1>2 DEF IInv, HeardInv, Types, TypeOK, Confirms
<1> QED
  BY <1>3, <1>4, <1>5, <1>6, <1>7, <1>8, <1>9, <1>10, <1>11, <1>12 DEF IInv

(* An outcome that is unknown. *)
LEMMA DoubtsStep ==
    ASSUME IInv, NEW x \in Callers, NEW k \in Actions, NEW rid \in Requests, Doubts(x, k, rid)
    PROVE  IInv'
<1> DEFINE r == [call[x] EXCEPT !.pc = "telling", !.kind = k, !.outcome = "Unknown",
                            !.failed = FALSE]
<1>1. /\ r \in CallRecord
      /\ r.pc = "telling" /\ r.outcome = "Unknown"
  BY DEF IInv, Types, CallRecord, Places, Outcomes, Done
<1> HIDE DEF r
<1>2. /\ call' \in [Callers -> CallRecord] /\ call'[x] = r
      /\ \A d \in Callers : d # x => call'[d] = call[d]
  BY <1>1, CallAssigned DEF IInv, Types, r, Doubts, Become
<1>3. Types'
  <2>1. /\ entry' \in [listed : BOOLEAN, claimed : BOOLEAN,
                   participants : SUBSET Ops, waiters : SUBSET Callers]
        /\ op' \in [Ops -> {"idle", "pending", "ok", "failed", "refused"}]
        /\ \A o1 \in entry'.participants : op'[o1] \in {"pending", "ok", "failed"}
    BY EndAssumption DEF IInv, Types, TypeOK, Doubts
  <2>2. /\ lease' \in Actions \cup {"none"}
        /\ canon' \in [Actions -> 0..MaxRequests]
        /\ request' \in [Requests -> {"free", "pending", "ok", "error", "lost", "taken"}]
        /\ tc' \in {"open", "Committed", "Aborted"}
        /\ told' \in [Ops -> SUBSET Outcomes]
        /\ wire' \in Seq(Frame) /\ replies' \in Seq(Reply)
        /\ alive' \subseteq Ops /\ faulted' \in BOOLEAN
    BY EndAssumption DEF IInv, Types, TypeOK, Doubts, Actions, Requests,
       Outcomes, Frame, Reply
  <2>3. gate' \in [state : States, pending : SUBSET Ops, poisoned : BOOLEAN]
    BY DEF IInv, Types, TypeOK, States, Outcomes, Done, Doubts
  <2>4. call' \in [Callers -> CallRecord]
    BY <1>2
  <2> QED
    BY <2>1, <2>2, <2>3, <2>4 DEF Types, TypeOK, CallRecord, Places
<1>4. ClaimInv'
  BY <1>1, <1>2 DEF IInv, ClaimInv, Doubts
<1>5. GateInv'
  BY <1>1, <1>2 DEF IInv, GateInv, Types, TypeOK, CallInv, Waiting, Issuing,
     Issued, Done,
     CanonInv, Doubts
<1>6. CallInv'
  BY <1>1, <1>2 DEF IInv, CallInv, Waiting, Issuing, Types, TypeOK, ClaimInv,
     Done, Doubts
<1>7. LeaseInv'
  BY <1>1, <1>2 DEF IInv, LeaseInv, ClaimInv, CallInv, Waiting, Issuing, Doubts
<1>8. CanonInv'
  <2>1. canon[k] = rid /\ rid # 0 /\ request[rid] # "pending"
    BY DEF IInv, CallInv, Waiting, Issuing, Doubts
  <2>2. \A a \in Actions : canon'[a] = 0 /\ (a # k => canon[a] = 0)
    BY <2>1 DEF IInv, Types, TypeOK, CanonInv, Actions, Doubts
  <2>3. ASSUME NEW q \in Requests PROVE request'[q] # "pending"
    <3>1. q # 0 /\ (request[q] = "pending" => \E a \in Actions : canon[a] = q)
      BY DEF IInv, CanonInv, Requests
    <3>2. request[q] # "pending"
      BY <2>1, <2>2, <3>1
    <3> QED
      BY <3>2 DEF IInv, Types, TypeOK, Doubts
  <2>4. tc' = "Committed" => Ready'
    BY DEF IInv, Types, TypeOK, CanonInv, CallInv, Waiting, Issuing, GateInv,
       Ready, Issued,
       Done, Doubts
  <2> QED
    BY <2>2, <2>3, <2>4 DEF CanonInv, Actions
<1>9. LinkInv'
  <2>1. canon[k] = rid /\ rid # 0 /\ request[rid] # "pending"
    BY DEF IInv, CallInv, Waiting, Issuing, Doubts
  <2>2. \A a \in Actions : a # k => canon[a] = 0
    BY <2>1 DEF IInv, CanonInv, Actions
  <2>3. wire = <<>> /\ replies = <<>>
    BY <2>1, <2>2 DEF IInv, LinkInv
  <2> QED
    BY <2>3 DEF LinkInv, Doubts
<1>10. OutcomeInv'
  BY <1>1, <1>2 DEF IInv, OutcomeInv, Types, TypeOK, CallInv, Waiting, Issuing,
     Issued, Done,
     Actions, CanonInv, Doubts
<1>11. FaultInv'
  BY <1>1, <1>2 DEF IInv, FaultInv, Types, TypeOK, CallInv, Waiting, Issuing,
     Done, Doubts
<1>12. HeardInv'
  BY <1>1, <1>2 DEF IInv, HeardInv, Types, TypeOK, Doubts
<1> QED
  BY <1>3, <1>4, <1>5, <1>6, <1>7, <1>8, <1>9, <1>10, <1>11, <1>12 DEF IInv

LEMMA TakeOutcomeStep ==
    ASSUME IInv, NEW x \in Callers, TakeOutcome(x)
    PROVE  IInv'
BY TakeOutcomeCases, ConfirmsStep, DoubtsStep

-----------------------------------------------------------------------------
(* complete, and calls that are dropped.                                   *)

(* A consumer is given the outcome. *)
LEMMA TellStep ==
    ASSUME IInv, NEW x \in Callers, NEW heard \in BOOLEAN, Tell(x, heard)
    PROVE  IInv'
<1> DEFINE r == [call[x] EXCEPT !.untold = @ \ {Min(call[x].untold)},
                            !.failed = @ \/ ~heard]
<1>1. /\ r \in CallRecord
      /\ r.pc = "telling" /\ call[x].pc = "telling" /\ r.kind = call[x].kind
      /\ r.outcome = call[x].outcome
  BY DEF IInv, Types, CallRecord, Tell
<1> HIDE DEF r
<1>2. /\ call' \in [Callers -> CallRecord] /\ call'[x] = r
      /\ \A d \in Callers : d # x => call'[d] = call[d]
  BY <1>1, CallAssigned DEF IInv, Types, r, Tell, Become
<1>3. Types'
  <2>1. /\ gate' \in [state : States, pending : SUBSET Ops, poisoned : BOOLEAN]
        /\ entry' \in [listed : BOOLEAN, claimed : BOOLEAN,
                   participants : SUBSET Ops, waiters : SUBSET Callers]
        /\ op' \in [Ops -> {"idle", "pending", "ok", "failed", "refused"}]
        /\ \A o1 \in entry'.participants : op'[o1] \in {"pending", "ok", "failed"}
    BY EndAssumption DEF IInv, Types, TypeOK, Tell, Become, Forget, link,
       States, Outcomes
  <2>2. /\ lease' \in Actions \cup {"none"}
        /\ canon' \in [Actions -> 0..MaxRequests]
        /\ request' \in [Requests -> {"free", "pending", "ok", "error", "lost", "taken"}]
        /\ wire' \in Seq(Frame) /\ replies' \in Seq(Reply)
        /\ alive' \subseteq Ops /\ faulted' \in BOOLEAN
    BY EndAssumption DEF IInv, Types, TypeOK, Tell, Become, Forget, link,
       Actions, Requests, Frame, Reply
  <2>3. tc' \in {"open", "Committed", "Aborted"} /\ told' \in [Ops -> SUBSET Outcomes]
    <3>1. call[x].outcome \in Outcomes
      BY DEF IInv, Types, CallRecord
    <3>2. CASE heard
      BY <3>1, <3>2 DEF IInv, Types, TypeOK, Tell, link
    <3>3. CASE ~heard
      BY <3>3 DEF IInv, Types, TypeOK, Tell, link
    <3> QED
      BY <3>2, <3>3
  <2>4. call' \in [Callers -> CallRecord]
    BY <1>2
  <2> QED
    BY <2>1, <2>2, <2>3, <2>4 DEF Types, TypeOK, CallRecord, Places
<1>4. ClaimInv'
  BY <1>1, <1>2 DEF IInv, ClaimInv, Tell, Become, Forget, link
<1>5. GateInv'
  BY <1>1, <1>2 DEF IInv, GateInv, Types, TypeOK, Tell, Become, Forget, link
<1>6. CallInv'
  BY <1>1, <1>2 DEF IInv, CallInv, Waiting, Issuing, Types, TypeOK, ClaimInv,
     Tell, Become,
     Forget, link
<1>7. LeaseInv'
  BY <1>1, <1>2 DEF IInv, LeaseInv, ClaimInv, CallInv, Waiting, Issuing, Tell,
     Become, Forget,
     link
<1>8. CanonInv'
  BY <1>1, <1>2 DEF IInv, CanonInv, Ready, Types, TypeOK, CallInv, Waiting,
     Issuing, Tell,
     Become, Forget, link
<1>9. LinkInv'
  BY <1>1, <1>2 DEF IInv, LinkInv, Types, Tell, Become, Forget, link
<1>10. OutcomeInv'
  BY <1>1, <1>2 DEF IInv, OutcomeInv, Types, TypeOK, CallInv, Waiting, Issuing,
     Tell, Become,
     Forget, link
<1>11. FaultInv'
  BY <1>1, <1>2 DEF IInv, FaultInv, Types, TypeOK, CallInv, Waiting, Issuing,
     Tell, Become,
     Forget, link
<1>12. HeardInv'
  BY <1>1, <1>2 DEF IInv, HeardInv, Types, TypeOK, Tell, Become, Forget, link
<1> QED
  BY <1>3, <1>4, <1>5, <1>6, <1>7, <1>8, <1>9, <1>10, <1>11, <1>12 DEF IInv

(* A call ends and an unknown outcome is recorded. *)
LEMMA CompleteStep ==
    ASSUME IInv, NEW x \in Callers, Complete(x)
    PROVE  IInv'
<1> DEFINE r == Idle
<1>1. /\ r \in CallRecord
      /\ r.pc = "idle" /\ call[x].pc = "telling"
  BY IdleType DEF Complete
<1> HIDE DEF r
<1>2. /\ call' \in [Callers -> CallRecord] /\ call'[x] = r
      /\ \A d \in Callers : d # x => call'[d] = call[d]
  BY <1>1, CallAssigned DEF IInv, Types, r, Complete, Become
<1>3. Types'
  <2>1. /\ gate' \in [state : States, pending : SUBSET Ops, poisoned : BOOLEAN]
        /\ entry' \in [listed : BOOLEAN, claimed : BOOLEAN,
                   participants : SUBSET Ops, waiters : SUBSET Callers]
        /\ op' \in [Ops -> {"idle", "pending", "ok", "failed", "refused"}]
        /\ \A o1 \in entry'.participants : op'[o1] \in {"pending", "ok", "failed"}
    BY EndAssumption DEF IInv, Types, TypeOK, Complete, Become, Finish,
       link, States, Outcomes
  <2>2. /\ lease' \in Actions \cup {"none"}
        /\ canon' \in [Actions -> 0..MaxRequests]
        /\ request' \in [Requests -> {"free", "pending", "ok", "error", "lost", "taken"}]
        /\ tc' \in {"open", "Committed", "Aborted"}
        /\ told' \in [Ops -> SUBSET Outcomes]
        /\ wire' \in Seq(Frame) /\ replies' \in Seq(Reply)
        /\ alive' \subseteq Ops /\ faulted' \in BOOLEAN
    BY EndAssumption DEF IInv, Types, TypeOK, Complete, Become, Finish,
       link, Actions, Requests, Outcomes, Frame, Reply
  <2>3. call' \in [Callers -> CallRecord]
    BY <1>2
  <2> QED
    BY <2>1, <2>2, <2>3 DEF Types, TypeOK, CallRecord, Places
<1>4. ClaimInv'
  BY <1>1, <1>2 DEF IInv, ClaimInv, Complete, Become, Finish, link
<1>5. GateInv'
  BY <1>1, <1>2 DEF IInv, GateInv, Types, TypeOK, Complete, Become, Finish,
     link
<1>6. CallInv'
  BY <1>1, <1>2 DEF IInv, CallInv, Waiting, Issuing, Types, TypeOK, ClaimInv,
     GateInv,
     Complete, Become, Finish, link
<1>7. LeaseInv'
  BY <1>1, <1>2 DEF IInv, LeaseInv, ClaimInv, CallInv, Waiting, Issuing,
     Complete, Become,
     Finish, link
<1>8. CanonInv'
  BY <1>1, <1>2 DEF IInv, CanonInv, Ready, Types, TypeOK, CallInv, Waiting,
     Issuing, GateInv,
     Complete, Become, Finish, link
<1>9. LinkInv'
  BY <1>1, <1>2 DEF IInv, LinkInv, Types, Complete, Become, Finish, link
<1>10. OutcomeInv'
  BY <1>1, <1>2 DEF IInv, OutcomeInv, Types, TypeOK, CallInv, Waiting, Issuing,
     Complete,
     Become, Finish, link
<1>11. FaultInv'
  BY <1>1, <1>2 DEF IInv, FaultInv, Types, TypeOK, CallInv, Waiting, Issuing,
     Complete,
     Become, Finish, link
<1>12. HeardInv'
  BY <1>1, <1>2 DEF IInv, HeardInv, Types, TypeOK, Complete, Become, Finish,
     link
<1> QED
  BY <1>3, <1>4, <1>5, <1>6, <1>7, <1>8, <1>9, <1>10, <1>11, <1>12 DEF IInv

(* A waiting call is dropped. *)
LEMMA DropWaitStep ==
    ASSUME IInv, NEW x \in Callers, DropWait(x)
    PROVE  IInv'
<1> DEFINE r == Idle
<1>1. /\ r \in CallRecord
      /\ r.pc = "idle" /\ call[x].pc \in {"parked", "woken"}
  BY IdleType DEF DropWait
<1> HIDE DEF r
<1>2. /\ call' \in [Callers -> CallRecord] /\ call'[x] = r
      /\ \A d \in Callers : d # x => call'[d] = call[d]
  BY <1>1, CallAssigned DEF IInv, Types, r, DropWait, Become
<1>3. Types'
  <2>1. /\ gate' \in [state : States, pending : SUBSET Ops, poisoned : BOOLEAN]
        /\ entry' \in [listed : BOOLEAN, claimed : BOOLEAN,
                   participants : SUBSET Ops, waiters : SUBSET Callers]
        /\ op' \in [Ops -> {"idle", "pending", "ok", "failed", "refused"}]
        /\ \A o1 \in entry'.participants : op'[o1] \in {"pending", "ok", "failed"}
    BY EndAssumption DEF IInv, Types, TypeOK, DropWait, Become, link,
       States, Outcomes
  <2>2. /\ lease' \in Actions \cup {"none"}
        /\ canon' \in [Actions -> 0..MaxRequests]
        /\ request' \in [Requests -> {"free", "pending", "ok", "error", "lost", "taken"}]
        /\ tc' \in {"open", "Committed", "Aborted"}
        /\ told' \in [Ops -> SUBSET Outcomes]
        /\ wire' \in Seq(Frame) /\ replies' \in Seq(Reply)
        /\ alive' \subseteq Ops /\ faulted' \in BOOLEAN
    BY EndAssumption DEF IInv, Types, TypeOK, DropWait, Become, link,
       Actions, Requests, Outcomes, Frame, Reply
  <2>3. call' \in [Callers -> CallRecord]
    BY <1>2
  <2> QED
    BY <2>1, <2>2, <2>3 DEF Types, TypeOK, CallRecord, Places
<1>4. ClaimInv'
  BY <1>1, <1>2 DEF IInv, ClaimInv, DropWait, Become, link
<1>5. GateInv'
  BY <1>1, <1>2 DEF IInv, GateInv, Types, TypeOK, DropWait, Become, link
<1>6. CallInv'
  BY <1>1, <1>2 DEF IInv, CallInv, Waiting, Issuing, Types, TypeOK, ClaimInv,
     DropWait,
     Become, link
<1>7. LeaseInv'
  BY <1>1, <1>2 DEF IInv, LeaseInv, ClaimInv, CallInv, Waiting, Issuing,
     DropWait, Become, link
<1>8. CanonInv'
  BY <1>1, <1>2 DEF IInv, CanonInv, Ready, Types, TypeOK, CallInv, Waiting,
     Issuing, DropWait,
     Become, link
<1>9. LinkInv'
  BY <1>1, <1>2 DEF IInv, LinkInv, Types, DropWait, Become, link
<1>10. OutcomeInv'
  BY <1>1, <1>2 DEF IInv, OutcomeInv, Types, TypeOK, CallInv, Waiting, Issuing,
     DropWait,
     Become, link
<1>11. FaultInv'
  BY <1>1, <1>2 DEF IInv, FaultInv, Types, TypeOK, CallInv, Waiting, Issuing,
     DropWait,
     Become, link
<1>12. HeardInv'
  BY <1>1, <1>2 DEF IInv, HeardInv, Types, TypeOK, DropWait, Become, link
<1> QED
  BY <1>3, <1>4, <1>5, <1>6, <1>7, <1>8, <1>9, <1>10, <1>11, <1>12 DEF IInv

(* A call is dropped while it tells. *)
LEMMA DropCompleteStep ==
    ASSUME IInv, NEW x \in Callers, DropComplete(x)
    PROVE  IInv'
<1> DEFINE r == Idle
<1>1. /\ r \in CallRecord
      /\ r.pc = "idle" /\ call[x].pc = "telling"
  BY IdleType DEF DropComplete
<1> HIDE DEF r
<1>2. /\ call' \in [Callers -> CallRecord] /\ call'[x] = r
      /\ \A d \in Callers : d # x => call'[d] = call[d]
  BY <1>1, CallAssigned DEF IInv, Types, r, DropComplete, Become
<1>3. Types'
  <2>1. /\ gate' \in [state : States, pending : SUBSET Ops, poisoned : BOOLEAN]
        /\ entry' \in [listed : BOOLEAN, claimed : BOOLEAN,
                   participants : SUBSET Ops, waiters : SUBSET Callers]
        /\ op' \in [Ops -> {"idle", "pending", "ok", "failed", "refused"}]
        /\ \A o1 \in entry'.participants : op'[o1] \in {"pending", "ok", "failed"}
    BY EndAssumption DEF IInv, Types, TypeOK, DropComplete, Become, link,
       States, Outcomes
  <2>2. /\ lease' \in Actions \cup {"none"}
        /\ canon' \in [Actions -> 0..MaxRequests]
        /\ request' \in [Requests -> {"free", "pending", "ok", "error", "lost", "taken"}]
        /\ tc' \in {"open", "Committed", "Aborted"}
        /\ told' \in [Ops -> SUBSET Outcomes]
        /\ wire' \in Seq(Frame) /\ replies' \in Seq(Reply)
        /\ alive' \subseteq Ops /\ faulted' \in BOOLEAN
    BY EndAssumption DEF IInv, Types, TypeOK, DropComplete, Become, link,
       Actions, Requests, Outcomes, Frame, Reply
  <2>3. call' \in [Callers -> CallRecord]
    BY <1>2
  <2> QED
    BY <2>1, <2>2, <2>3 DEF Types, TypeOK, CallRecord, Places
<1>4. ClaimInv'
  BY <1>1, <1>2 DEF IInv, ClaimInv, DropComplete, Become, link
<1>5. GateInv'
  BY <1>1, <1>2 DEF IInv, GateInv, Types, TypeOK, DropComplete, Become, link
<1>6. CallInv'
  BY <1>1, <1>2 DEF IInv, CallInv, Waiting, Issuing, Types, TypeOK, ClaimInv,
     DropComplete,
     Become, link
<1>7. LeaseInv'
  BY <1>1, <1>2 DEF IInv, LeaseInv, ClaimInv, CallInv, Waiting, Issuing,
     DropComplete, Become,
     link
<1>8. CanonInv'
  BY <1>1, <1>2 DEF IInv, CanonInv, Ready, Types, TypeOK, CallInv, Waiting,
     Issuing,
     DropComplete, Become, link
<1>9. LinkInv'
  BY <1>1, <1>2 DEF IInv, LinkInv, Types, DropComplete, Become, link
<1>10. OutcomeInv'
  BY <1>1, <1>2 DEF IInv, OutcomeInv, Types, TypeOK, CallInv, Waiting, Issuing,
     DropComplete,
     Become, link
<1>11. FaultInv'
  BY <1>1, <1>2 DEF IInv, FaultInv, Types, TypeOK, CallInv, Waiting, Issuing,
     DropComplete,
     Become, link
<1>12. HeardInv'
  BY <1>1, <1>2 DEF IInv, HeardInv, Types, TypeOK, DropComplete, Become, link
<1> QED
  BY <1>3, <1>4, <1>5, <1>6, <1>7, <1>8, <1>9, <1>10, <1>11, <1>12 DEF IInv

(* The two drop handlers of a request. *)
Releases(x) ==
    /\ call[x].pc = "ending"
    /\ lease' = IF lease = call[x].kind THEN "none" ELSE lease
    /\ call' = [call EXCEPT ![x] = [call[x] EXCEPT !.pc = "dropped"]]
    /\ UNCHANGED <<local, canon, request, wire, replies, tc, faulted>>

GivesBack(x) ==
    /\ call[x].pc = "dropped"
    /\ entry' = [entry EXCEPT !.claimed = FALSE]
    /\ call' = [call EXCEPT ![x] = Idle]
    /\ UNCHANGED <<gate, op, alive, told, link, faulted>>

(* The lease goes first. *)
LEMMA ReleasesStep ==
    ASSUME IInv, NEW x \in Callers, Releases(x)
    PROVE  IInv'
<1> DEFINE r == [call[x] EXCEPT !.pc = "dropped"]
<1>1. /\ r \in CallRecord
      /\ r.pc = "dropped" /\ call[x].pc = "ending"
  BY DEF IInv, Types, CallRecord, Places, Releases
<1> HIDE DEF r
<1>2. /\ call' \in [Callers -> CallRecord] /\ call'[x] = r
      /\ \A d \in Callers : d # x => call'[d] = call[d]
  BY <1>1, CallAssigned DEF IInv, Types, r, Releases, Become
<1>3. Types'
  <2>1. /\ gate' \in [state : States, pending : SUBSET Ops, poisoned : BOOLEAN]
        /\ entry' \in [listed : BOOLEAN, claimed : BOOLEAN,
                   participants : SUBSET Ops, waiters : SUBSET Callers]
        /\ op' \in [Ops -> {"idle", "pending", "ok", "failed", "refused"}]
        /\ \A o1 \in entry'.participants : op'[o1] \in {"pending", "ok", "failed"}
    BY EndAssumption DEF IInv, Types, TypeOK, Releases, local, States,
       Outcomes
  <2>2. /\ lease' \in Actions \cup {"none"}
        /\ canon' \in [Actions -> 0..MaxRequests]
        /\ request' \in [Requests -> {"free", "pending", "ok", "error", "lost", "taken"}]
        /\ tc' \in {"open", "Committed", "Aborted"}
        /\ told' \in [Ops -> SUBSET Outcomes]
        /\ wire' \in Seq(Frame) /\ replies' \in Seq(Reply)
        /\ alive' \subseteq Ops /\ faulted' \in BOOLEAN
    BY EndAssumption DEF IInv, Types, TypeOK, Releases, local, Actions,
       Requests, Outcomes, Frame, Reply
  <2>3. call' \in [Callers -> CallRecord]
    BY <1>2
  <2> QED
    BY <2>1, <2>2, <2>3 DEF Types, TypeOK, CallRecord, Places
<1>4. ClaimInv'
  BY <1>1, <1>2 DEF IInv, ClaimInv, Releases, local
<1>5. GateInv'
  BY <1>1, <1>2 DEF IInv, GateInv, Types, TypeOK, Releases, local
<1>6. CallInv'
  BY <1>1, <1>2 DEF IInv, CallInv, Waiting, Issuing, Types, TypeOK, ClaimInv,
     Releases, local
<1>7. LeaseInv'
  BY <1>1, <1>2 DEF IInv, LeaseInv, ClaimInv, CallInv, Waiting, Issuing, Types,
     CallRecord,
     Releases, local
<1>8. CanonInv'
  BY <1>1, <1>2 DEF IInv, CanonInv, Ready, Types, TypeOK, CallInv, Waiting,
     Issuing, Releases,
     local
<1>9. LinkInv'
  BY <1>1, <1>2 DEF IInv, LinkInv, Types, Releases, local
<1>10. OutcomeInv'
  BY <1>1, <1>2 DEF IInv, OutcomeInv, Types, TypeOK, CallInv, Waiting, Issuing,
     Releases, local
<1>11. FaultInv'
  BY <1>1, <1>2 DEF IInv, FaultInv, Types, TypeOK, CallInv, Waiting, Issuing,
     Releases, local
<1>12. HeardInv'
  BY <1>1, <1>2 DEF IInv, HeardInv, Types, TypeOK, Releases, local
<1> QED
  BY <1>3, <1>4, <1>5, <1>6, <1>7, <1>8, <1>9, <1>10, <1>11, <1>12 DEF IInv

(* Then the claim. *)
LEMMA GivesBackStep ==
    ASSUME IInv, NEW x \in Callers, GivesBack(x)
    PROVE  IInv'
<1> DEFINE r == Idle
<1>1. /\ r \in CallRecord
      /\ r.pc = "idle" /\ call[x].pc = "dropped"
  BY IdleType DEF GivesBack
<1> HIDE DEF r
<1>2. /\ call' \in [Callers -> CallRecord] /\ call'[x] = r
      /\ \A d \in Callers : d # x => call'[d] = call[d]
  BY <1>1, CallAssigned DEF IInv, Types, r, GivesBack, Become
<1>3. Types'
  <2>1. /\ gate' \in [state : States, pending : SUBSET Ops, poisoned : BOOLEAN]
        /\ entry' \in [listed : BOOLEAN, claimed : BOOLEAN,
                   participants : SUBSET Ops, waiters : SUBSET Callers]
        /\ op' \in [Ops -> {"idle", "pending", "ok", "failed", "refused"}]
        /\ \A o1 \in entry'.participants : op'[o1] \in {"pending", "ok", "failed"}
    BY EndAssumption DEF IInv, Types, TypeOK, GivesBack, link, States,
       Outcomes
  <2>2. /\ lease' \in Actions \cup {"none"}
        /\ canon' \in [Actions -> 0..MaxRequests]
        /\ request' \in [Requests -> {"free", "pending", "ok", "error", "lost", "taken"}]
        /\ tc' \in {"open", "Committed", "Aborted"}
        /\ told' \in [Ops -> SUBSET Outcomes]
        /\ wire' \in Seq(Frame) /\ replies' \in Seq(Reply)
        /\ alive' \subseteq Ops /\ faulted' \in BOOLEAN
    BY EndAssumption DEF IInv, Types, TypeOK, GivesBack, link, Actions,
       Requests, Outcomes, Frame, Reply
  <2>3. call' \in [Callers -> CallRecord]
    BY <1>2
  <2> QED
    BY <2>1, <2>2, <2>3 DEF Types, TypeOK, CallRecord, Places
<1>4. ClaimInv'
  BY <1>1, <1>2 DEF IInv, ClaimInv, GivesBack, link
<1>5. GateInv'
  BY <1>1, <1>2 DEF IInv, GateInv, Types, TypeOK, GivesBack, link
<1>6. CallInv'
  BY <1>1, <1>2 DEF IInv, CallInv, Waiting, Issuing, Types, TypeOK, ClaimInv,
     GivesBack, link
<1>7. LeaseInv'
  BY <1>1, <1>2 DEF IInv, LeaseInv, ClaimInv, CallInv, Waiting, Issuing,
     GivesBack, link
<1>8. CanonInv'
  BY <1>1, <1>2 DEF IInv, CanonInv, Ready, Types, TypeOK, CallInv, Waiting,
     Issuing,
     GivesBack, link
<1>9. LinkInv'
  BY <1>1, <1>2 DEF IInv, LinkInv, Types, GivesBack, link
<1>10. OutcomeInv'
  BY <1>1, <1>2 DEF IInv, OutcomeInv, Types, TypeOK, CallInv, Waiting, Issuing,
     GivesBack, link
<1>11. FaultInv'
  BY <1>1, <1>2 DEF IInv, FaultInv, Types, TypeOK, CallInv, Waiting, Issuing,
     GivesBack, link
<1>12. HeardInv'
  BY <1>1, <1>2 DEF IInv, HeardInv, Types, TypeOK, GivesBack, link
<1> QED
  BY <1>3, <1>4, <1>5, <1>6, <1>7, <1>8, <1>9, <1>10, <1>11, <1>12 DEF IInv

LEMMA DropRequestStep ==
    ASSUME IInv, NEW x \in Callers, DropRequest(x)
    PROVE  IInv'
<1>1. Releases(x) \/ GivesBack(x)
  BY DEF DropRequest, Releases, GivesBack, Become
<1> QED
  BY <1>1, ReleasesStep, GivesBackStep

-----------------------------------------------------------------------------
(* The coordinator and the connection.                                     *)

(* The coordinator takes the one frame. *)
LEMMA TcTakesStep ==
    ASSUME IInv, TcTakes
    PROVE  IInv'
<1>1. PICK a \in Actions :
        /\ canon[a] # 0 /\ request[canon[a]] = "pending" /\ replies = <<>>
        /\ wire = <<[rid |-> canon[a], action |-> a]>>
  BY DEF IInv, LinkInv, TcTakes
<1>2. /\ wire' = <<>>
      /\ \/ /\ tc \in {"open", Done(a)} /\ tc' = Done(a) /\ faulted' = faulted
            /\ replies' = <<[rid |-> canon[a], ok |-> TRUE]>>
         \/ /\ tc \notin {"open", Done(a)} /\ tc' = tc /\ faulted'
            /\ replies' = <<[rid |-> canon[a], ok |-> FALSE]>>
  <2>1. /\ Head(wire) = [rid |-> canon[a], action |-> a] /\ Tail(wire) = <<>>
        /\ \A m : Append(replies, m) = <<m>>
    BY <1>1
  <2>2. Head(wire).rid = canon[a] /\ Head(wire).action = a
    BY <2>1
  <2>3. CASE tc \in {"open", Done(a)}
    BY <2>1, <2>2, <2>3 DEF IInv, Types, TcTakes
  <2>4. CASE tc \notin {"open", Done(a)}
    <3>1. (tc \in {"open", Done(Head(wire).action)}) = FALSE
      BY <2>2, <2>4
    <3> QED
      BY <2>1, <2>2, <2>4, <3>1 DEF TcTakes
  <2> QED
    BY <2>3, <2>4
<1>3. Types'
  <2>1. /\ gate' \in [state : States, pending : SUBSET Ops, poisoned : BOOLEAN]
        /\ entry' \in [listed : BOOLEAN, claimed : BOOLEAN,
                   participants : SUBSET Ops, waiters : SUBSET Callers]
        /\ op' \in [Ops -> {"idle", "pending", "ok", "failed", "refused"}]
        /\ \A o1 \in entry'.participants : op'[o1] \in {"pending", "ok", "failed"}
    BY EndAssumption DEF IInv, Types, TypeOK, TcTakes, local, States, Outcomes
  <2>2. /\ lease' \in Actions \cup {"none"}
        /\ canon' \in [Actions -> 0..MaxRequests]
        /\ request' \in [Requests -> {"free", "pending", "ok", "error", "lost", "taken"}]
    BY EndAssumption DEF IInv, Types, TypeOK, TcTakes, local, Actions,
       Requests
  <2>3. tc' \in {"open", "Committed", "Aborted"} /\ told' \in [Ops -> SUBSET Outcomes]
    BY <1>2 DEF IInv, Types, TypeOK, TcTakes, local, Done
  <2>4. wire' \in Seq(Frame) /\ replies' \in Seq(Reply)
    <3>1. canon[a] \in Requests
      BY EndAssumption, <1>1 DEF IInv, Types, TypeOK, Requests
    <3>2. \A b \in BOOLEAN : <<[rid |-> canon[a], ok |-> b]>> \in Seq(Reply)
      BY <3>1 DEF Reply
    <3>3. replies' \in Seq(Reply)
      BY <1>2, <3>2
    <3>4. wire' \in Seq(Frame)
      BY <1>2
    <3> QED
      BY <3>3, <3>4
  <2>5. alive' \subseteq Ops /\ faulted' \in BOOLEAN
    BY <1>2 DEF IInv, Types, TcTakes, local
  <2>6. call' \in [Callers -> CallRecord]
    BY EndAssumption DEF IInv, Types, TypeOK, TcTakes, local, CallRecord,
       Places, Actions, Outcomes
  <2> QED
    BY <2>1, <2>2, <2>3, <2>4, <2>5, <2>6 DEF Types, TypeOK, CallRecord,
       Places
<1>4. ClaimInv'
  BY <1>1, <1>2 DEF IInv, ClaimInv, TcTakes, local
<1>5. GateInv'
  BY <1>1, <1>2 DEF IInv, GateInv, Types, TypeOK, TcTakes, local
<1>6. CallInv'
  BY <1>1, <1>2 DEF IInv, CallInv, Waiting, Issuing, Types, TypeOK, TcTakes, local
<1>7. LeaseInv'
  BY <1>1, <1>2 DEF IInv, LeaseInv, TcTakes, local
<1>8. CanonInv'
  BY <1>1, <1>2 DEF IInv, CanonInv, Ready, Types, TypeOK, Done, TcTakes, local
<1>9. LinkInv'
  BY <1>1, <1>2 DEF IInv, LinkInv, Types, TcTakes, local
<1>10. OutcomeInv'
  BY <1>1, <1>2 DEF IInv, OutcomeInv, Types, TypeOK, Done, TcTakes, local
<1>11. FaultInv'
  BY <1>1, <1>2 DEF IInv, FaultInv, Types, TypeOK, TcTakes, local
<1>12. HeardInv'
  BY <1>1, <1>2 DEF IInv, HeardInv, Types, TypeOK, TcTakes, local
<1> QED
  BY <1>3, <1>4, <1>5, <1>6, <1>7, <1>8, <1>9, <1>10, <1>11, <1>12 DEF IInv

(* The coordinator aborts. *)
LEMMA TcTimesOutStep ==
    ASSUME IInv, TcTimesOut
    PROVE  IInv'
<1>3. Types'
  <2>1. /\ gate' \in [state : States, pending : SUBSET Ops, poisoned : BOOLEAN]
        /\ entry' \in [listed : BOOLEAN, claimed : BOOLEAN,
                   participants : SUBSET Ops, waiters : SUBSET Callers]
        /\ op' \in [Ops -> {"idle", "pending", "ok", "failed", "refused"}]
        /\ \A o1 \in entry'.participants : op'[o1] \in {"pending", "ok", "failed"}
    BY EndAssumption DEF IInv, Types, TypeOK, TcTimesOut, local, States,
       Outcomes
  <2>2. /\ lease' \in Actions \cup {"none"}
        /\ canon' \in [Actions -> 0..MaxRequests]
        /\ request' \in [Requests -> {"free", "pending", "ok", "error", "lost", "taken"}]
        /\ tc' \in {"open", "Committed", "Aborted"}
        /\ told' \in [Ops -> SUBSET Outcomes]
        /\ wire' \in Seq(Frame) /\ replies' \in Seq(Reply)
        /\ alive' \subseteq Ops /\ faulted' \in BOOLEAN
    BY EndAssumption DEF IInv, Types, TypeOK, TcTimesOut, local, Actions,
       Requests, Outcomes, Frame, Reply
  <2>3. call' \in [Callers -> CallRecord]
    BY EndAssumption DEF IInv, Types, TypeOK, TcTimesOut, local,
       CallRecord, Places, Actions, Outcomes
  <2> QED
    BY <2>1, <2>2, <2>3 DEF Types, TypeOK, CallRecord, Places
<1>4. ClaimInv'
  BY DEF IInv, ClaimInv, TcTimesOut, local
<1>5. GateInv'
  BY DEF IInv, GateInv, Types, TypeOK, TcTimesOut, local
<1>6. CallInv'
  BY DEF IInv, CallInv, Waiting, Issuing, Types, TypeOK, TcTimesOut, local
<1>7. LeaseInv'
  BY DEF IInv, LeaseInv, TcTimesOut, local
<1>8. CanonInv'
  BY DEF IInv, CanonInv, Ready, Types, TypeOK, TcTimesOut, local
<1>9. LinkInv'
  BY DEF IInv, LinkInv, Types, TypeOK, Done, Actions, TcTimesOut, local
<1>10. OutcomeInv'
  BY DEF IInv, OutcomeInv, Types, TypeOK, Done, TcTimesOut, local
<1>11. FaultInv'
  BY DEF IInv, FaultInv, Types, TypeOK, TcTimesOut, local
<1>12. HeardInv'
  BY DEF IInv, HeardInv, Types, TypeOK, TcTimesOut, local
<1> QED
  BY <1>3, <1>4, <1>5, <1>6, <1>7, <1>8, <1>9, <1>10, <1>11, <1>12 DEF IInv

(* The answer arrives. *)
LEMMA HandleEndTxnResponseStep ==
    ASSUME IInv, HandleEndTxnResponse
    PROVE  IInv'
<1>1. PICK a \in Actions, ok \in BOOLEAN :
        /\ canon[a] # 0 /\ request[canon[a]] = "pending" /\ wire = <<>>
        /\ replies = <<[rid |-> canon[a], ok |-> ok]>>
        /\ IF ok THEN tc = Done(a) ELSE faulted
  BY DEF IInv, LinkInv, HandleEndTxnResponse
<1>2. /\ replies' = <<>>
      /\ request' = [request EXCEPT ![canon[a]] = IF ok THEN "ok" ELSE "error"]
  <2>1. Head(replies) = [rid |-> canon[a], ok |-> ok] /\ Tail(replies) = <<>>
    BY <1>1
  <2>2. Head(replies).rid = canon[a] /\ Head(replies).ok = ok
    BY <2>1
  <2> QED
    BY <2>1, <2>2 DEF HandleEndTxnResponse
<1>3. Types'
  <2>1. /\ gate' \in [state : States, pending : SUBSET Ops, poisoned : BOOLEAN]
        /\ entry' \in [listed : BOOLEAN, claimed : BOOLEAN,
                   participants : SUBSET Ops, waiters : SUBSET Callers]
        /\ op' \in [Ops -> {"idle", "pending", "ok", "failed", "refused"}]
        /\ \A o1 \in entry'.participants : op'[o1] \in {"pending", "ok", "failed"}
    BY EndAssumption DEF IInv, Types, TypeOK, HandleEndTxnResponse, local,
       States, Outcomes
  <2>2. /\ lease' \in Actions \cup {"none"}
        /\ canon' \in [Actions -> 0..MaxRequests]
        /\ tc' \in {"open", "Committed", "Aborted"}
        /\ told' \in [Ops -> SUBSET Outcomes]
        /\ alive' \subseteq Ops /\ faulted' \in BOOLEAN
    BY EndAssumption DEF IInv, Types, TypeOK, HandleEndTxnResponse, local,
       Actions, Outcomes
  <2>3. request' \in [Requests -> {"free", "pending", "ok", "error", "lost", "taken"}]
    BY <1>1, <1>2 DEF IInv, Types, TypeOK, HandleEndTxnResponse
  <2>4. wire' \in Seq(Frame) /\ replies' \in Seq(Reply)
    BY <1>1, <1>2 DEF IInv, Types, HandleEndTxnResponse
  <2>5. call' \in [Callers -> CallRecord]
    BY EndAssumption DEF IInv, Types, TypeOK, HandleEndTxnResponse, local,
       CallRecord, Places, Actions, Outcomes
  <2> QED
    BY <2>1, <2>2, <2>3, <2>4, <2>5 DEF Types, TypeOK, CallRecord, Places
<1>4. ClaimInv'
  BY <1>1, <1>2 DEF IInv, ClaimInv, HandleEndTxnResponse, local
<1>5. GateInv'
  BY <1>1, <1>2 DEF IInv, GateInv, Types, TypeOK, HandleEndTxnResponse, local
<1>6. CallInv'
  BY <1>1, <1>2 DEF IInv, CallInv, Waiting, Issuing, Types, TypeOK,
     HandleEndTxnResponse, local
<1>7. LeaseInv'
  BY <1>1, <1>2 DEF IInv, LeaseInv, HandleEndTxnResponse, local
<1>8. CanonInv'
  BY <1>1, <1>2 DEF IInv, CanonInv, Ready, Types, TypeOK,
     HandleEndTxnResponse, local
<1>9. LinkInv'
  BY <1>1, <1>2 DEF IInv, LinkInv, Types, HandleEndTxnResponse, local
<1>10. OutcomeInv'
  BY <1>1, <1>2 DEF IInv, OutcomeInv, Types, TypeOK, Done, CanonInv,
     Actions, HandleEndTxnResponse, local
<1>11. FaultInv'
  BY <1>1, <1>2 DEF IInv, FaultInv, Types, TypeOK, HandleEndTxnResponse, local
<1>12. HeardInv'
  BY <1>1, <1>2 DEF IInv, HeardInv, Types, TypeOK, HandleEndTxnResponse, local
<1> QED
  BY <1>3, <1>4, <1>5, <1>6, <1>7, <1>8, <1>9, <1>10, <1>11, <1>12 DEF IInv

(* The session is lost. *)
LEMMA ResetStep ==
    ASSUME IInv, Reset
    PROVE  IInv'
<1>1. tc' = tc \/ \E a \in Actions : tc = "open" /\ canon[a] # 0 /\ tc' = Done(a)
                                      /\ request[canon[a]] = "pending"
  <2>1. ASSUME NEW i \in DOMAIN wire
        PROVE  \E a \in Actions : /\ canon[a] # 0 /\ wire[i].action = a
                                  /\ request[canon[a]] = "pending"
    BY DEF IInv, LinkInv
  <2> QED
    BY <2>1 DEF Reset
<1>3. Types'
  <2>1. /\ gate' \in [state : States, pending : SUBSET Ops, poisoned : BOOLEAN]
        /\ entry' \in [listed : BOOLEAN, claimed : BOOLEAN,
                   participants : SUBSET Ops, waiters : SUBSET Callers]
        /\ op' \in [Ops -> {"idle", "pending", "ok", "failed", "refused"}]
        /\ \A o1 \in entry'.participants : op'[o1] \in {"pending", "ok", "failed"}
    BY EndAssumption DEF IInv, Types, TypeOK, Reset, local, Done, States,
       Outcomes
  <2>2. /\ lease' \in Actions \cup {"none"}
        /\ canon' \in [Actions -> 0..MaxRequests]
        /\ request' \in [Requests -> {"free", "pending", "ok", "error", "lost", "taken"}]
        /\ wire' \in Seq(Frame) /\ replies' \in Seq(Reply)
        /\ alive' \subseteq Ops /\ faulted' \in BOOLEAN
    BY EndAssumption DEF IInv, Types, TypeOK, Reset, local, Done, Actions,
       Requests, Frame, Reply
  <2>3. tc' \in {"open", "Committed", "Aborted"} /\ told' \in [Ops -> SUBSET Outcomes]
    BY <1>1 DEF IInv, Types, TypeOK, Reset, local, Done
  <2>4. call' \in [Callers -> CallRecord]
    BY EndAssumption DEF IInv, Types, TypeOK, Reset, local, Done,
       CallRecord, Places, Actions, Outcomes
  <2> QED
    BY <2>1, <2>2, <2>3, <2>4 DEF Types, TypeOK, CallRecord, Places
<1>4. ClaimInv'
  BY <1>1 DEF IInv, ClaimInv, Reset, local, Done
<1>5. GateInv'
  BY <1>1 DEF IInv, GateInv, Types, TypeOK, Reset, local, Done
<1>6. CallInv'
  BY <1>1 DEF IInv, CallInv, Waiting, Issuing, Types, TypeOK, Reset, local, Done
<1>7. LeaseInv'
  BY <1>1 DEF IInv, LeaseInv, Reset, local, Done
<1>8. CanonInv'
  BY <1>1 DEF IInv, CanonInv, Ready, Types, TypeOK, Reset, local, Done
<1>9. LinkInv'
  BY <1>1 DEF IInv, LinkInv, Types, Reset, local, Done
<1>10. OutcomeInv'
  <2>1. ASSUME NEW a \in Actions, canon'[a] # 0, request'[canon'[a]] = "ok"
        PROVE  canon[a] # 0 /\ request[canon[a]] = "ok"
    <3>1. canon' = canon /\ canon[a] \in Requests
      BY EndAssumption, <2>1 DEF IInv, Types, TypeOK, Requests, Reset
    <3> QED
      BY <2>1, <3>1 DEF Reset
  <2>2. tc # "open" => tc' = tc
    BY <1>1
  <2>3. \A a \in Actions : Done(a) # "open"
    BY DEF Done
  <2> QED
    BY <2>1, <2>2, <2>3 DEF IInv, OutcomeInv, Reset, local
<1>11. FaultInv'
  BY <1>1 DEF IInv, FaultInv, Types, TypeOK, Reset, local, Done
<1>12. HeardInv'
  BY <1>1 DEF IInv, HeardInv, Types, TypeOK, Reset, local, Done
<1> QED
  BY <1>3, <1>4, <1>5, <1>6, <1>7, <1>8, <1>9, <1>10, <1>11, <1>12 DEF IInv

-----------------------------------------------------------------------------
(* The invariant and its consequences.                                     *)

LEMMA InitIInv == Init => IInv
<1> SUFFICES ASSUME Init PROVE IInv
  OBVIOUS
<1>1. Types
  <2>1. call \in [Callers -> CallRecord]
    BY IdleType DEF Init
  <2>2. \A c \in Callers : call[c].pc \in Places /\ call[c].untold \subseteq Ops
    BY <2>1 DEF CallRecord
  <2>3. /\ lease \in Actions \cup {"none"} /\ canon \in [Actions -> 0..MaxRequests]
        /\ wire \in Seq(Frame) /\ replies \in Seq(Reply)
    BY EndAssumption DEF Init
  <2> QED
    BY <2>1, <2>2, <2>3 DEF Init, Types, TypeOK, States, Places
<1>2. ClaimInv /\ CallInv /\ LeaseInv
  BY IdleType DEF Init, ClaimInv, CallInv, Waiting, Issuing, LeaseInv
<1>3. GateInv /\ CanonInv /\ LinkInv /\ OutcomeInv /\ HeardInv
  BY DEF Init, GateInv, CanonInv, Ready, LinkInv, OutcomeInv, HeardInv, Actions
<1>4. FaultInv
  BY IdleType DEF Init, FaultInv
<1> QED
  BY <1>1, <1>2, <1>3, <1>4 DEF IInv

LEMMA StutterIInv == IInv /\ UNCHANGED vars => IInv'
<1> SUFFICES ASSUME IInv, UNCHANGED vars PROVE IInv'
  OBVIOUS
<1>1. Types' /\ ClaimInv' /\ GateInv' /\ CallInv' /\ LeaseInv'
  BY DEF IInv, vars, Types, TypeOK, ClaimInv, GateInv, CallInv, Waiting,
     Issuing, LeaseInv
<1>2. CanonInv' /\ LinkInv' /\ OutcomeInv' /\ FaultInv' /\ HeardInv'
  BY DEF IInv, vars, CanonInv, Ready, LinkInv, OutcomeInv, FaultInv, HeardInv
<1> QED
  BY <1>1, <1>2 DEF IInv

LEMMA NextIInv == IInv /\ [Next]_vars => IInv'
<1> SUFFICES ASSUME IInv, [Next]_vars PROVE IInv'
  OBVIOUS
<1>1. CASE UNCHANGED vars
  BY <1>1, StutterIInv
<1>2. CASE Application
  BY <1>2, AdmitStep, DropConsumerStep, FinishAckStep, StartStep, DropWaitStep,
     DropRequestStep, DropCompleteStep DEF Application
<1>3. ASSUME NEW c \in Callers, Call(c) PROVE IInv'
  BY <1>3, PollWaitStep, EndTxnStep, TakeOutcomeStep, TellStep, CompleteStep
  DEF Call
<1>4. CASE Broker
  BY <1>4, TcTakesStep, TcTimesOutStep, HandleEndTxnResponseStep, ResetStep
  DEF Broker
<1> QED
  BY <1>1, <1>2, <1>3, <1>4 DEF Next

(* The strengthened invariant holds throughout every behaviour. *)
THEOREM InvariantHolds == Spec => []IInv
BY InitIInv, NextIInv, PTL DEF Spec

(* EndTxn(Commit) reaches the coordinator only when every admitted          *)
(* acknowledgement has succeeded: the gate's decision cannot be overtaken   *)
(* by a late admission, a failed ack or another call, for any number of     *)
(* callers and consumers.                                                   *)
THEOREM CommitTheorem == Spec => []CommitMeansAll
<1>1. IInv => CommitMeansAll
  BY DEF IInv, CanonInv, Ready, GateInv, CommitMeansAll
<1> QED
  BY InvariantHolds, <1>1, PTL

(* Never two claims, never two unanswered requests, never a commit and an   *)
(* abort: EndPreparation, EndTxnWaiterGuard and end_txn_requests together   *)
(* keep one decision per transaction however calls are dropped and retried. *)
THEOREM DecisionTheorem == Spec => []OneDecision
<1>1. IInv => OneDecision
  <2> SUFFICES ASSUME IInv PROVE OneDecision
    OBVIOUS
  <2> DEFINE running == {c \in Callers : call[c].pc # "idle"}
  <2>1. Cardinality(running) = IF entry.claimed THEN 1 ELSE 0
    <3>1. CASE entry.claimed
      <4>1. PICK c \in Callers : running = {c}
        BY <3>1 DEF IInv, ClaimInv
      <4> QED
        BY <3>1, <4>1, FS_Singleton
    <3>2. CASE ~entry.claimed
      <4>1. running = {}
        BY <3>2 DEF IInv, ClaimInv
      <4> QED
        BY <3>2, <4>1, FS_EmptySet
    <3> QED
      BY <3>1, <3>2
  <2>2. Cardinality(Unanswered) =< 1
    <3>1. Unanswered \subseteq {canon["Commit"], canon["Abort"]} \ {0}
      BY DEF IInv, CanonInv, Unanswered, Actions, Requests
    <3>2. \/ Unanswered = {} \/ Unanswered = {canon["Commit"]}
          \/ Unanswered = {canon["Abort"]}
      BY <3>1 DEF IInv, CanonInv
    <3>3. Cardinality(Unanswered) \in {0, 1}
      BY <3>2, FS_EmptySet, FS_Singleton
    <3> QED
      BY <3>3
  <2>3. ASSUME NEW i \in DOMAIN wire
        PROVE  gate.state \in {Issued(wire[i].action), Done(wire[i].action),
        "Unknown"}
    <3>1. PICK a \in Actions : canon[a] # 0 /\ wire[i].action = a
      BY DEF IInv, LinkInv
    <3> QED
      BY <3>1 DEF IInv, CanonInv
  <2> QED
    BY <2>1, <2>2, <2>3 DEF OneDecision
<1> QED
  BY InvariantHolds, <1>1, PTL

(* end_txn resolves to an unknown outcome only after a lost session or a    *)
(* refusal: a call that races with a dropped one finds the lease free.      *)
THEOREM FaultTheorem == Spec => []UnknownMeansFault
<1>1. IInv => UnknownMeansFault
  BY DEF IInv, FaultInv, UnknownMeansFault
<1> QED
  BY InvariantHolds, <1>1, PTL

(* complete tells consumers what the coordinator decided, and forgets the   *)
(* transaction only when all of them have heard.                            *)
THEOREM HeardTheorem == Spec => []EveryoneHears
<1>1. IInv => EveryoneHears
  BY DEF IInv, Types, OutcomeInv, HeardInv, EveryoneHears
<1> QED
  BY InvariantHolds, <1>1, PTL

=============================================================================
