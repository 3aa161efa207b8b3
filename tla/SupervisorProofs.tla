--------------------------- MODULE SupervisorProofs ---------------------------
(***************************************************************************)
(* Proofs about Supervisor: the attempt budget and the backoff schedule    *)
(* survive every socket that died young, for any configuration; and, when  *)
(* a connection carries at most one handle and drop_within is within       *)
(* drop_grace, every streak of thrashed sessions ends in a cooldown.       *)
(***************************************************************************)
EXTENDS Supervisor, SequenceTheorems, NaturalsInduction, WellFoundedInduction, TLAPS

Attach == [at : Nat, dropped : Nat \cup {Open}]
Greetings == {"unsent", "sent", "challenged", "connected"}
Living == {"driving", "dropped", "cooling", "resuming", "backing", "dialing"}

Types ==
    /\ pc \in Living \cup {"failing", "latching", "gone"}
    /\ rebuild \in BOOLEAN /\ greeting \in Greetings
    /\ attempts \in Nat /\ alive \in Nat /\ storm \in Nat
    /\ floor \in InitialBackoff..MaxBackoff
    /\ backoff \in [next : InitialBackoff..MaxBackoff, elapsed : Nat]

\* A redial is counted by the budget, which only a stable socket refills.
CountInv == storm <= attempts /\ storm <= MaxAttempts

\* The schedule keeps up with the redials; a backing one is not yet counted.
FloorInv ==
    /\ pc = "backing" => backoff.next >= Min({2 * floor, MaxBackoff})
    /\ pc \in Living \ {"backing"} => backoff.next >= floor

\* The socket that Resume will find stable was judged stable when it ended.
Calm == storm = 0 /\ floor = InitialBackoff
StableInv ==
    /\ ~rebuild => greeting = "connected"
    /\ pc \in {"dropped", "resuming"} /\ Stable => Calm
    /\ pc = "cooling" => Calm

IInv == Types /\ CountInv /\ FloorInv /\ StableInv

\* The detector's ring is sorted by age and only kept when it is switched on.
RingInv ==
    /\ ring \in Seq(Attach) /\ quick \in Seq(Nat) /\ attaching \in Nat
    /\ ring # <<>> => Detecting
    /\ attaching <= 1 /\ (rebuild => attaching = 0)
    /\ \A i, j \in 1..Len(ring) : i <= j => ring[i].at >= ring[j].at

Pending == ring # <<>> /\ ring[Len(ring)].dropped = Open

\* The attach of the running session is not in the streak yet.
Ahead == IF pc = "driving" /\ Pending THEN 1 ELSE 0

\* The streak is the end of the ring, each attach of it dropped; the drop of
\* the last one may have yet to be recorded.
MatchInv ==
    pc \in Living =>
        /\ Len(quick) <= Attaches
        /\ Len(quick) + Ahead <= Len(ring)
        /\ \A i \in 1..Len(quick) :
              LET entry == ring[Len(ring) - Ahead - Len(quick) + i]
              IN  /\ quick[i] = entry.at
                  /\ entry.dropped = Open => pc = "dropped" /\ i = Len(quick)

\* An open attach after a streak is the running session's, and its only one.
OwnInv ==
    pc = "driving" /\ quick # <<>> /\ Pending =>
        attaching = 0 /\ ~rebuild /\ ring[Len(ring)].at <= alive

\* A streak as long as the threshold is cooled at the drop that completes it.
Full == Len(quick) = Attaches /\ quick[1] <= Window
CoolInv ==
    /\ pc \in Living \ {"dropped"} => ~Full
    /\ pc = "dropped" /\ Full => Pending
    /\ pc = "dropped" /\ quick # <<>> /\ Pending => ring[Len(ring)].at <= DropWithin

CoolIInv == Types /\ RingInv /\ MatchInv /\ OwnInv /\ CoolInv
-----------------------------------------------------------------------------
(* The step relations the proofs tell apart.                               *)

counted == <<backoff, attempts, alive, scenario>>

\* The driver loop ends and the ghosts judge the session.
Leaves ==
    /\ pc = "driving" /\ pc' = "dropped" /\ Judge
    /\ greeting' \in Greetings /\ (greeting = "connected" => greeting' = "connected")
    /\ UNCHANGED <<rebuild, attaching, ring, counted>>

\* The driver goes on, the handles are replayed, or only a user moves.
Replays ==
    /\ pc = "driving" /\ greeting' = "connected"
    /\ rebuild /\ rebuild' = FALSE /\ attaching' = Handles
Serves ==
    /\ UNCHANGED <<pc, ring, counted, storm, floor, quick>>
    /\ \/ UNCHANGED <<greeting, rebuild, attaching>>
       \/ /\ greeting' \in Greetings /\ (greeting = "connected" => greeting' = "connected")
          /\ UNCHANGED <<rebuild, attaching>>
       \/ Replays

\* The broker has acknowledged an attach.
Attached ==
    /\ pc = "driving" /\ greeting = "connected" /\ greeting' = "connected"
    /\ attaching > 0
    /\ \/ rebuild' = rebuild /\ attaching' = attaching - 1
       \/ Replays
    /\ ring' = IF Detecting THEN PushAttach(ring) ELSE ring
    /\ UNCHANGED <<pc, counted, storm, floor, quick>>

\* The driver task is ending.
Finishes ==
    /\ pc \in {"failing", "latching"} /\ pc' \in {"latching", "gone"}
    /\ UNCHANGED <<greeting, rebuild, attaching, ring, counted, storm, floor, quick>>

(* What the code's actions do to the state the proofs are about: every     *)
(* step of the driver loop, the supervisor, the broker and the users is    *)
(* one of these.                                                           *)
LEMMA StepForms ==
    ASSUME Types, [Next]_vars
    PROVE  Leaves \/ Serves \/ Attached \/ Finishes \/ OuterTop \/ Resume
           \/ BackingDone \/ DialFails \/ DialConnects \/ Tick
<1> USE DEF Greetings, counted, session, policy, users, ghosts
<1>1. CASE UNCHANGED vars
  BY <1>1 DEF vars, Serves
<1>2. CASE LoopTop
  BY <1>2 DEF LoopTop, Leaves, Serves, LeaveLoop, Types
<1>3. ASSUME NEW next, NEW opens, AfterBytes(next, opens), pc = "driving",
             greeting' = "connected", opens = attaching,
             UNCHANGED <<ring, counted, storm, floor, quick>>
      PROVE  Serves
  BY <1>3 DEF AfterBytes, Serves, Replays, Types
<1>4. CASE HandleConnected
  BY <1>4, <1>3 DEF HandleConnected, Waiting, Uninvolved
<1>5. CASE AuthAnswered
  BY <1>5 DEF AuthAnswered, Serves, Uninvolved, Challenged, Types
<1>6. CASE AuthRefused
  BY <1>6 DEF AuthRefused, Leaves, Waiting, LeaveLoop, Challenged, Types
<1>7. CASE ReAttachOk
  <2>1. /\ pc = "driving" /\ greeting = "connected" /\ greeting' = "connected"
        /\ attaching > 0 /\ AfterBytes(state, attaching - 1)
        /\ ring' = IF Detecting THEN PushAttach(ring) ELSE ring
        /\ UNCHANGED <<backoff, attempts, alive, scenario, storm, floor, quick>>
    BY <1>7 DEF ReAttachOk, Waiting, Uninvolved
  <2>2. /\ pc' = pc
        /\ \/ rebuild' = rebuild /\ attaching' = attaching - 1
           \/ Replays
    BY <2>1 DEF AfterBytes, Replays, Types
  <2> QED
    BY <2>1, <2>2 DEF Attached
<1>8. CASE Disconnect
  BY <1>8 DEF Disconnect, Leaves, Waiting, LeaveLoop, Types
<1>9. CASE KeepaliveFails \/ TimerFires
  BY <1>9 DEF KeepaliveFails, TimerFires, Uninvolved, Serves
<1>10. CASE WriteDrains
  BY <1>10 DEF WriteDrains, Leaves, Serves, Waiting, LeaveLoop, Types
<1>11. CASE FailAllPending \/ MarkNoDriver
  BY <1>11 DEF FailAllPending, MarkNoDriver, Finishes
<1>12. CASE Close \/ JoinReturns
  BY <1>12 DEF Close, JoinReturns, Serves
<1>13. CASE StartLookup \/ RegisterLookup \/ AwaitReconnect \/ LookupExpires
  BY <1>13 DEF StartLookup, RegisterLookup, AwaitReconnect, LookupExpires,
       LookupAlone, Serves
<1>14. CASE Answer
  BY <1>14, <1>3 DEF Answer, Waiting
<1> QED
  BY <1>1, <1>2, <1>4, <1>5, <1>6, <1>7, <1>8, <1>9, <1>10, <1>11, <1>12, <1>13,
     <1>14 DEF Next

-----------------------------------------------------------------------------
(* The minimum and maximum of a two-element set, and the model's clock.    *)

LEMMA TwoBounds ==
    ASSUME NEW a \in Int, NEW b \in Int
    PROVE  /\ Min({a, b}) = IF a <= b THEN a ELSE b
           /\ Max({a, b}) = IF a <= b THEN b ELSE a
  BY DEF Min, Max

LEMMA CapFacts == AgeCap \in Nat /\ Window < AgeCap /\ DropWithin < AgeCap
<1> DEFINE S == {DropGrace, Window, DropWithin, OperationTimeout}
<1>1. \E x \in S : \A y \in S : x >= y
  BY SupervisorAssumption
<1>2. Max(S) \in S /\ \A y \in S : Max(S) >= y
  BY <1>1 DEF Max
<1> QED
  BY <1>2, SupervisorAssumption DEF AgeCap

(* A recorded instant grows older, never younger, and keeps its order with *)
(* the others.                                                             *)
LEMMA OlderFacts ==
    ASSUME NEW a \in Nat
    PROVE  /\ Older(a) \in Nat
           /\ \A b \in Nat : a <= b => Older(a) <= Older(b)
           /\ Older(a) <= Window => a <= Window
<1>1. \A x \in Nat : Older(x) = IF x + 1 <= AgeCap THEN x + 1 ELSE AgeCap
  <2> TAKE x \in Nat
  <2>1. Min({x + 1, AgeCap}) = IF x + 1 <= AgeCap THEN x + 1 ELSE AgeCap
    <3>1. x + 1 \in Int /\ AgeCap \in Int
      BY CapFacts
    <3> QED
      BY <3>1 DEF Min
  <2> QED
    BY <2>1 DEF Older, Open
<1> HIDE DEF Older
<1> QED
  BY <1>1, CapFacts, SupervisorAssumption

-----------------------------------------------------------------------------
(* The budget and the schedule.                                            *)

(* Backoff::next at least doubles what is below the maximum, and stays     *)
(* between the configured bounds.                                          *)
LEMMA DelayFacts ==
    ASSUME NEW b \in [next : InitialBackoff..MaxBackoff, elapsed : Nat],
           NEW d \in Delays(b)
    PROVE  /\ d.then \in [next : InitialBackoff..MaxBackoff, elapsed : Nat]
           /\ \A f \in InitialBackoff..MaxBackoff :
                 b.next >= f => d.then.next >= Min({2 * f, MaxBackoff})
<1> USE SupervisorAssumption
<1> DEFINE doubled == Min({2 * b.next, MaxBackoff})
           After(e) == IF b.elapsed + e > MandatoryStop
                      THEN [delay |-> MaxBackoff,
                            then |-> [next |-> MaxBackoff, elapsed |-> 0]]
                      ELSE [delay |-> e,
                            then |-> [next |-> doubled, elapsed |-> b.elapsed + e]]
<1>1. PICK jitter \in 0..(b.next \div 5) : d = After(b.next - jitter)
  BY DEF Delays
<1>2. b.next \in Nat /\ b.elapsed \in Nat /\ b.next \in InitialBackoff..MaxBackoff
  OBVIOUS
<1>3. b.next \div 5 <= b.next /\ b.next \div 5 \in Nat
  BY <1>2
<1>4. b.next - jitter \in Nat
  BY <1>2, <1>3
<1>5. doubled = IF 2 * b.next <= MaxBackoff THEN 2 * b.next ELSE MaxBackoff
  BY <1>2, TwoBounds
<1>6. doubled \in InitialBackoff..MaxBackoff
  BY <1>2, <1>5
<1>7. \/ d.then = [next |-> MaxBackoff, elapsed |-> 0]
      \/ d.then = [next |-> doubled, elapsed |-> b.elapsed + (b.next - jitter)]
  BY <1>1
<1>8. d.then \in [next : InitialBackoff..MaxBackoff, elapsed : Nat]
  BY <1>7, <1>6, <1>4, <1>2
<1> HIDE DEF doubled
<1>9. d.then.next = MaxBackoff \/ d.then.next = doubled
  BY <1>7
<1> USE DEF doubled
<1>10. ASSUME NEW f \in InitialBackoff..MaxBackoff, b.next >= f
       PROVE  d.then.next >= Min({2 * f, MaxBackoff})
  <2>1. Min({2 * f, MaxBackoff}) = IF 2 * f <= MaxBackoff THEN 2 * f ELSE MaxBackoff
    BY TwoBounds
  <2> QED
    BY <2>1, <1>9, <1>5, <1>10, <1>2
<1> QED
  BY <1>8, <1>10

LEMMA InitIInv == Init => IInv
<1> SUFFICES ASSUME Init PROVE IInv
  OBVIOUS
<1> USE SupervisorAssumption
<1>1. pc \in Living /\ rebuild \in BOOLEAN /\ greeting \in Greetings
  BY DEF Init, Living, Greetings
<1>2. backoff \in [next : InitialBackoff..MaxBackoff, elapsed : Nat]
  BY DEF Init
<1>3. Types
  BY <1>1, <1>2 DEF Init, Types
<1>4. CountInv /\ FloorInv /\ StableInv
  BY DEF Init, CountInv, FloorInv, StableInv, Living
<1> QED
  BY <1>3, <1>4 DEF IInv

LEMMA LeavesKeepsIInv ==
    ASSUME IInv, Leaves
    PROVE  IInv'
<1> USE SupervisorAssumption DEF IInv, Leaves, counted
<1> DEFINE lasted == greeting = "connected" /\ alive > DropGrace
<1>1. /\ storm' = IF lasted THEN 0 ELSE storm
      /\ floor' = IF lasted THEN InitialBackoff ELSE floor
  BY DEF Judge
<1>2. Types'
  BY <1>1 DEF Types, Living
<1>3. CountInv'
  BY <1>1 DEF CountInv, Types
<1>4. FloorInv'
  BY <1>1 DEF FloorInv, Types, Living
<1>5. Stable' => lasted
  BY DEF Stable, StableInv
<1>6. StableInv'
  BY <1>5, <1>1 DEF StableInv, Calm
<1> QED
  BY <1>2, <1>3, <1>4, <1>6

LEMMA ServesKeepsIInv ==
    ASSUME IInv, Serves \/ Attached \/ Finishes
    PROVE  IInv'
<1> USE DEF IInv, Serves, Attached, Finishes, Replays, counted
<1>1. Types'
  BY DEF Types, Living, Greetings
<1>2. CountInv' /\ FloorInv'
  BY DEF CountInv, FloorInv, Living
<1>3. /\ UNCHANGED <<alive, storm, floor>>
      /\ pc' = pc \/ pc' \in {"latching", "gone"}
      /\ pc' # "driving" => rebuild' = rebuild
  BY DEF Finishes
<1>4. StableInv'
  BY <1>3 DEF StableInv, Calm, Stable, Types
<1> QED
  BY <1>1, <1>2, <1>4

LEMMA SupervisesKeepsIInv ==
    ASSUME IInv, OuterTop \/ Resume \/ BackingDone \/ DialFails \/ DialConnects \/ Tick
    PROVE  IInv'
<1> USE SupervisorAssumption DEF IInv, session, policy, users, ghosts
<1>0. /\ floor \in Nat /\ floor >= InitialBackoff /\ floor <= MaxBackoff
      /\ backoff.next \in Nat
  BY DEF Types
<1>1. CASE OuterTop
  <2>1. /\ UNCHANGED <<backoff, attempts, alive, greeting, rebuild>>
        /\ pc = "dropped" /\ pc' \in {"failing", "cooling", "resuming"}
        /\ \/ UNCHANGED <<storm, floor>> /\ pc' # "cooling"
           \/ storm' = 0 /\ floor' = InitialBackoff
    BY <1>1 DEF OuterTop
  <2> QED
    BY <2>1, <1>0 DEF Types, CountInv, FloorInv, StableInv, Calm, Stable, Living
<1>2. CASE Resume
  <2> DEFINE b == IF Stable THEN [next |-> InitialBackoff, elapsed |-> 0] ELSE backoff
  <2>1. PICK d \in Delays(b) : pc' = "backing" /\ backoff' = d.then
    BY <1>2 DEF Resume, BackOff
  <2>2. b \in [next : InitialBackoff..MaxBackoff, elapsed : Nat]
    BY DEF Types
  <2>3. b.next >= floor
    BY <1>2 DEF Resume, StableInv, Calm, FloorInv, Living
  <2> HIDE DEF b
  <2>4. /\ backoff' \in [next : InitialBackoff..MaxBackoff, elapsed : Nat]
        /\ backoff'.next >= Min({2 * floor, MaxBackoff})
    BY <2>1, <2>2, <2>3, <1>0, DelayFacts DEF Types
  <2>5. /\ UNCHANGED <<alive, greeting, rebuild, storm, floor>>
        /\ attempts' = IF Stable THEN 0 ELSE attempts
        /\ Stable => storm = 0
    BY <1>2 DEF Resume, StableInv, Calm
  <2> QED
    BY <2>1, <2>4, <2>5 DEF Types, CountInv, FloorInv, StableInv, Living
<1>3. CASE BackingDone
  <2>1. /\ UNCHANGED <<backoff, alive, greeting, rebuild>>
        /\ pc = "backing" /\ pc' \in {"failing", "dialing"}
        /\ attempts' = attempts + 1
        /\ pc' = "dialing" => attempts + 1 <= MaxAttempts
        /\ storm' = IF pc' = "dialing" THEN storm + 1 ELSE storm
        /\ floor' = IF pc' = "dialing" THEN Min({2 * floor, MaxBackoff}) ELSE floor
    BY <1>3 DEF BackingDone, ShouldGiveUp, Types
  <2>2. Min({2 * floor, MaxBackoff}) \in InitialBackoff..MaxBackoff
    BY <1>0, TwoBounds
  <2>3. Types'
    BY <2>1, <2>2 DEF Types, Living
  <2>4. CountInv'
    BY <2>1 DEF Types, CountInv
  <2>5. FloorInv' /\ StableInv'
    BY <2>1 DEF FloorInv, StableInv, Living
  <2> QED
    BY <2>3, <2>4, <2>5
<1>4. CASE DialFails
  <2>1. PICK d \in Delays(backoff) : pc' = "backing" /\ backoff' = d.then
    BY <1>4 DEF DialFails, BackOff
  <2>2. backoff.next >= floor
    BY <1>4 DEF DialFails, FloorInv, Living
  <2>3. /\ backoff' \in [next : InitialBackoff..MaxBackoff, elapsed : Nat]
        /\ backoff'.next >= Min({2 * floor, MaxBackoff})
    BY <2>1, <2>2, <1>0, DelayFacts DEF Types
  <2>4. UNCHANGED <<attempts, alive, greeting, rebuild, storm, floor>>
    BY <1>4 DEF DialFails
  <2> QED
    BY <2>1, <2>3, <2>4 DEF Types, CountInv, FloorInv, StableInv, Living
<1>5. CASE DialConnects
  <2>1. /\ pc = "dialing" /\ pc' = "driving" /\ alive' = 0
        /\ greeting' = "unsent" /\ rebuild' = TRUE
        /\ UNCHANGED <<backoff, attempts, storm, floor>>
    BY <1>5 DEF DialConnects
  <2> QED
    BY <2>1 DEF Types, CountInv, FloorInv, StableInv, Living, Greetings
<1>6. CASE Tick
  <2>1. /\ UNCHANGED <<pc, backoff, attempts, greeting, rebuild, storm, floor>>
        /\ alive' = Older(alive) /\ pc \notin {"dropped", "resuming"}
    BY <1>6 DEF Tick, Waiting
  <2>2. alive' \in Nat
    BY <2>1, OlderFacts DEF Types
  <2> QED
    BY <2>1, <2>2 DEF Types, CountInv, FloorInv, StableInv, Calm
<1> QED
  BY <1>1, <1>2, <1>3, <1>4, <1>5, <1>6

(* The budget's and the schedule's invariant, for every configuration of   *)
(* the supervisor and of the detector and any number of handles.           *)
THEOREM InvariantHolds == Spec => []IInv
<1>1. IInv /\ [Next]_vars => IInv'
  BY StepForms, LeavesKeepsIInv, ServesKeepsIInv, SupervisesKeepsIInv DEF IInv
<1> QED
  BY InitIInv, <1>1, PTL DEF Spec

(* StormIsBounded: whatever the sockets do, the supervisor redials at most *)
(* max_attempts times after the last stable socket or cooldown, and each   *)
(* redial has doubled the delay before the next one, up to max_backoff.    *)
THEOREM BudgetTheorem == Spec => []StormIsBounded
<1>1. IInv => StormIsBounded
  BY DEF IInv, CountInv, FloorInv, StormIsBounded, Living
<1> QED
  BY InvariantHolds, <1>1, PTL

-----------------------------------------------------------------------------
(* The detector.                                                           *)

(* The constants' types, one by one.                                       *)
LEMMA ConstantFacts ==
    /\ Attaches \in Nat /\ Attaches >= 1 /\ Window \in Nat /\ Handles \in Nat
    /\ DropWithin \in Nat /\ DropGrace \in Nat
  BY SupervisorAssumption

(* Min picks a member of a set of instants.                                *)
LEMMA MinIsMember ==
    ASSUME NEW S \in SUBSET Nat, S # {}
    PROVE  Min(S) \in S
<1>1. OpToRel(<, Nat) = {ss \in Nat \X Nat : ss[1] < ss[2]}
  BY DEF OpToRel
<1>2. PICK x \in S : \A y \in S : ~ (<<y, x>> \in OpToRel(<, Nat))
  BY NatLessThanWellFounded, WFMin
<1>3. ASSUME NEW y \in S PROVE x =< y
  <2>1. <<y, x>> \in Nat \X Nat /\ <<y, x>>[1] = y /\ <<y, x>>[2] = x
    OBVIOUS
  <2>2. ~(y < x)
    BY <1>1, <1>2, <2>1
  <2> QED
    BY <2>2
<1> QED
  BY <1>3 DEF Min

(* What the type of the ring says of its entries.                          *)
LEMMA EntryFacts ==
    ASSUME NEW r \in Seq(Attach)
    PROVE  /\ Len(r) \in Nat /\ DOMAIN r = 1..Len(r) /\ (r # <<>> <=> Len(r) >= 1)
           /\ \A i \in 1..Len(r) :
                 /\ r[i] \in Attach /\ r[i].at \in Nat
                 /\ r[i].dropped \in Nat \cup {Open}
<1>1. Len(r) \in Nat /\ DOMAIN r = 1..Len(r) /\ \A i \in 1..Len(r) : r[i] \in Attach
  OBVIOUS
<1>2. r # <<>> <=> Len(r) >= 1
  OBVIOUS
<1>3. \A e \in Attach : e.at \in Nat /\ e.dropped \in Nat \cup {Open}
  BY DEF Attach
<1> QED
  BY <1>1, <1>2, <1>3

(* A bounded queue that forgets its oldest element: the shape both of the  *)
(* detector's ring and of the streak.                                      *)
Pushed(s, e, cap) ==
    LET grown == Append(s, e) IN IF Len(grown) > cap THEN Tail(grown) ELSE grown
Shifted(t, s, e, cap, k) ==
    /\ Len(t) = Len(s) + 1 - k
    /\ k = 1 => Len(s) + 1 > cap
    /\ k = 0 => Len(s) + 1 <= cap
    /\ \A i \in 1..Len(t) : i < Len(t) => t[i] = s[i + k]
    /\ t # <<>> => t[Len(t)] = e

LEMMA ShiftIn ==
    ASSUME NEW S, NEW s \in Seq(S), NEW e \in S, NEW cap \in Nat
    PROVE  /\ Pushed(s, e, cap) \in Seq(S)
           /\ \E k \in {0, 1} : Shifted(Pushed(s, e, cap), s, e, cap, k)
<1> DEFINE grown == Append(s, e)
           t == Pushed(s, e, cap)
<1>1. /\ grown \in Seq(S) /\ grown # <<>> /\ Len(grown) = Len(s) + 1
      /\ \A i \in 1..Len(s) : grown[i] = s[i]
      /\ grown[Len(s) + 1] = e
  BY AppendProperties
<1>0. t = IF Len(grown) > cap THEN Tail(grown) ELSE grown
  BY DEF Pushed
<1> HIDE DEF grown, t
<1>2. Len(s) \in Nat
  OBVIOUS
<1>3. CASE Len(grown) > cap
  <2>1. t = Tail(grown)
    BY <1>0, <1>3
  <2>2. /\ t \in Seq(S) /\ Len(t) = Len(s)
        /\ \A i \in 1..Len(t) : t[i] = grown[i + 1]
    BY <2>1, <1>1, <1>2, HeadTailProperties
  <2>3. \A i \in 1..Len(t) : i < Len(t) => t[i] = s[i + 1]
    BY <2>2, <1>1, <1>2
  <2>4. t # <<>> => t[Len(t)] = e
    BY <2>2, <1>1, <1>2
  <2>5. Shifted(t, s, e, cap, 1)
    BY <2>2, <2>3, <2>4, <1>1, <1>2, <1>3 DEF Shifted
  <2> QED
    BY <2>2, <2>5 DEF t
<1>4. CASE ~(Len(grown) > cap)
  <2>1. t = grown
    BY <1>0, <1>4
  <2>2. \A i \in 1..Len(t) : i < Len(t) => t[i] = s[i + 0]
    BY <2>1, <1>1, <1>2
  <2>3. Shifted(t, s, e, cap, 0)
    BY <2>1, <2>2, <1>1, <1>2, <1>4 DEF Shifted
  <2> QED
    BY <2>1, <2>3, <1>1 DEF t
<1> QED
  BY <1>3, <1>4

(* Stamping a drop keeps the ring, closes no attach but the newest open    *)
(* one, and closes the last one if that is open and young.                 *)
LEMMA StampFacts ==
    ASSUME NEW r \in Seq(Attach)
    PROVE  /\ StampDrop(r) \in Seq(Attach) /\ Len(StampDrop(r)) = Len(r)
           /\ \A i \in 1..Len(r) :
                 /\ StampDrop(r)[i].at = r[i].at
                 /\ r[i].dropped # Open => StampDrop(r)[i].dropped # Open
           /\ r # <<>> /\ r[Len(r)].dropped = Open /\ r[Len(r)].at <= DropWithin =>
                 Paired(r) /\ StampDrop(r)[Len(r)].dropped = 0
<1> DEFINE n == NewestOpen(r)
           u == [r EXCEPT ![n].dropped = 0]
<1>1. Len(r) \in Nat /\ DOMAIN r = 1..Len(r) /\ \A i \in 1..Len(r) : r[i] \in Attach
  OBVIOUS
<1>2. DOMAIN u = 1..Len(r)
  BY <1>1
<1>3. ASSUME NEW i \in 1..Len(r)
      PROVE  /\ u[i] \in Attach /\ u[i].at = r[i].at
             /\ i = n => u[i].dropped = 0
             /\ i # n => u[i] = r[i]
  <2>1. CASE i = n
    <3>1. u[i] = [r[i] EXCEPT !.dropped = 0]
      BY <2>1, <1>1
    <3> QED
      BY <3>1, <2>1, <1>1 DEF Attach
  <2>2. CASE i # n
    BY <2>2, <1>1
  <2> QED
    BY <2>1, <2>2
<1>4. u \in Seq(Attach) /\ Len(u) = Len(r)
  <2>1. u \in [1..Len(r) -> Attach]
    BY <1>2, <1>3
  <2> QED
    BY <2>1, <1>1
<1>5. StampDrop(r) = u \/ StampDrop(r) = r
  BY DEF StampDrop
<1>6. Paired(r) => StampDrop(r) = u
  BY DEF StampDrop
<1>7. ASSUME r # <<>>, r[Len(r)].dropped = Open, r[Len(r)].at <= DropWithin
      PROVE  n = Len(r) /\ Paired(r)
  <2> DEFINE opens == {0} \cup {i \in DOMAIN r : r[i].dropped = Open}
  <2>1. Len(r) \in opens /\ \A i \in opens : i \in Nat /\ Len(r) >= i
    BY <1>7, <1>1
  <2>2. Max(opens) = Len(r)
    <3> HIDE DEF opens
    <3> QED
      BY <2>1, <1>1 DEF Max
  <2>3. n = Len(r)
    BY <2>2 DEF NewestOpen
  <2> QED
    BY <2>3, <1>7, <1>1 DEF Paired
<1> HIDE DEF u, n
<1>8. \A i \in 1..Len(r) :
         /\ StampDrop(r)[i].at = r[i].at
         /\ r[i].dropped # Open => StampDrop(r)[i].dropped # Open
  BY <1>3, <1>5 DEF Open
<1>9. r # <<>> => Len(r) \in 1..Len(r)
  BY <1>1
<1> QED
  BY <1>3, <1>4, <1>5, <1>6, <1>7, <1>8, <1>9

(* A streak that fills the threshold within the window trips the detector  *)
(* once its last drop is recorded.                                         *)
LEMMA TripFacts ==
    ASSUME NEW r \in Seq(Attach), Attaches <= Len(r),
           \A i, j \in 1..Len(r) : i <= j => r[i].at >= r[j].at,
           \A i \in 1..Attaches : r[Len(r) - Attaches + i].dropped # Open,
           r[Len(r) - Attaches + 1].at <= Window
    PROVE  Trips(r)
<1> USE ConstantFacts
<1> DEFINE m == Len(r) - Attaches + 1
           tail == SubSeq(r, m, Len(r))
           ats == {tail[i].at : i \in DOMAIN tail}
           drops == {tail[i].dropped : i \in DOMAIN tail}
<1>1. /\ Len(r) \in Nat /\ m \in 1..Len(r) /\ Attaches \in Nat \ {0} /\ Window \in Nat
      /\ \A i \in 1..Len(r) : r[i] \in Attach
  OBVIOUS
<1>2. /\ DOMAIN tail = 1..Attaches
      /\ \A i \in 1..Attaches : tail[i] = r[Len(r) - Attaches + i]
  <2>1. /\ tail \in Seq(Attach)
        /\ Len(tail) = IF m <= Len(r) THEN Len(r) - m + 1 ELSE 0
        /\ \A i \in 1..(Len(r) - m + 1) : tail[i] = r[m + i - 1]
    BY <1>1, SubSeqProperties
  <2>2. Len(r) - m + 1 = Attaches /\ m <= Len(r)
    BY <1>1
  <2>3. \A i \in 1..Attaches : m + i - 1 = Len(r) - Attaches + i
    BY <1>1
  <2> HIDE DEF m, tail
  <2> QED
    BY <2>1, <2>2, <2>3, <1>1
<1>3. \A i \in 1..Attaches : Len(r) - Attaches + i \in 1..Len(r)
  BY <1>1
<1> HIDE DEF m, tail
<1>4. \A i \in 1..Attaches :
         /\ tail[i].at \in Nat /\ tail[i].at <= tail[1].at
         /\ tail[i].dropped \in Nat
  <2> TAKE i \in 1..Attaches
  <2>1. r[Len(r) - Attaches + i] \in Attach /\ r[Len(r) - Attaches + 1] \in Attach
    BY <1>1, <1>3
  <2>2. r[Len(r) - Attaches + 1].at >= r[Len(r) - Attaches + i].at
    BY <1>1, <1>3
  <2> QED
    BY SMTT(40), <2>1, <2>2, <1>1, <1>2 DEF Attach
<1>5. tail[1].at \in ats /\ tail[1].at <= Window
  <2>1. 1 \in 1..Attaches /\ 1 \in DOMAIN tail
    BY <1>1, <1>2
  <2>2. tail[1] = r[Len(r) - Attaches + 1]
    BY <2>1, <1>2
  <2> QED
    BY <2>1, <2>2
<1>6. Max(ats) = tail[1].at
  <2>1. \A x \in ats : x \in Nat /\ tail[1].at >= x
    BY <1>4, <1>2
  <2> HIDE DEF ats
  <2> QED
    BY <2>1, <1>5 DEF Max
<1>7. drops \in SUBSET Nat /\ drops # {}
  BY <1>2, <1>4, <1>1
<1>8. Min(drops) \in Nat
  BY <1>7, MinIsMember
<1>9. Max(ats) - Min(drops) <= Window
  BY <1>5, <1>6, <1>8, <1>4, <1>1
<1> QED
  BY <1>9, <1>2, <1>1 DEF Trips, m, tail

-----------------------------------------------------------------------------
(* The streak and the ring move together.  The hypotheses: at most one     *)
(* producer or consumer per connection, and drop_within within drop_grace, *)
(* as in the recommended configuration.                                    *)

LEMMA InitCool == Handles <= 1 /\ Init => CoolIInv
<1> SUFFICES ASSUME Handles <= 1, Init PROVE CoolIInv
  OBVIOUS
<1>1. Types
  BY InitIInv DEF IInv
<1>2. RingInv
  BY ConstantFacts DEF Init, RingInv
<1>3. MatchInv /\ OwnInv /\ CoolInv
  BY ConstantFacts DEF Init, MatchInv, OwnInv, CoolInv, Full, Ahead, Pending
<1> QED
  BY <1>1, <1>2, <1>3 DEF CoolIInv

LEMMA LeavesKeepsCool ==
    ASSUME CoolIInv, Types', Leaves
    PROVE  CoolIInv'
<1> USE ConstantFacts DEF CoolIInv, Leaves, counted
<1> DEFINE a == ring[Len(ring)].at
           attached == Pending /\ a <= alive
           thrashed == attached /\ a <= DropWithin
           t == Pushed(quick, a, Attaches)
<1>1. quick' = IF thrashed THEN t ELSE IF attached THEN <<>> ELSE quick
  BY DEF Judge, Last, Pending, Pushed
<1>2. /\ ring' = ring /\ Pending' = Pending /\ Ahead' = 0 /\ Len(ring) \in Nat
      /\ Ahead = IF Pending THEN 1 ELSE 0
      /\ Len(quick) \in Nat /\ Attaches \in Nat \ {0} /\ Window \in Nat
  BY DEF Pending, Ahead, RingInv
<1>3. CASE thrashed
  <2>1. a \in Nat /\ Len(ring) >= 1
    BY <1>3, EntryFacts DEF Pending, RingInv
  <2> HIDE DEF a
  <2>2. t \in Seq(Nat) /\ \E k \in {0, 1} : Shifted(t, quick, a, Attaches, k)
    BY <2>1, ShiftIn DEF RingInv
  <2> HIDE DEF t
  <2>3. PICK k \in {0, 1} :
          /\ Len(t) = Len(quick) + 1 - k
          /\ k = 1 => Len(quick) + 1 > Attaches
          /\ k = 0 => Len(quick) + 1 <= Attaches
          /\ \A i \in 1..Len(t) : i < Len(t) => t[i] = quick[i + k]
          /\ t # <<>> => t[Len(t)] = a
    BY <2>2 DEF Shifted
  <2>4. quick' = t
    BY <1>1, <1>3
  <2>5. /\ Len(quick) <= Attaches /\ Len(quick) + 1 <= Len(ring)
        /\ \A i \in 1..Len(quick) :
             /\ quick[i] = ring[Len(ring) - 1 - Len(quick) + i].at
             /\ ring[Len(ring) - 1 - Len(quick) + i].dropped # Open
    BY <1>2, <1>3 DEF MatchInv, Living
  <2>6. Len(t) \in 1..Attaches /\ Len(t) <= Len(ring)
    BY <2>3, <2>5, <1>2
  <2>7. ASSUME NEW i \in 1..Len(t)
        PROVE  /\ t[i] = ring[Len(ring) - Len(t) + i].at
               /\ ring[Len(ring) - Len(t) + i].dropped = Open => i = Len(t)
    <3>1. CASE i = Len(t)
      <4>1. Len(ring) - Len(t) + i = Len(ring) /\ t # <<>>
        BY <3>1, <2>6, <1>2
      <4> QED
        BY <4>1, <3>1, <2>3 DEF a
    <3>2. CASE i < Len(t)
      <4>1. /\ i + k \in 1..Len(quick)
            /\ Len(ring) - 1 - Len(quick) + (i + k) = Len(ring) - Len(t) + i
        BY <3>2, <2>3, <2>6, <1>2
      <4> QED
        BY <4>1, <3>2, <2>3, <2>5
    <3> QED
      BY <3>1, <3>2, <2>6
  <2>8. RingInv'
    BY <2>4, <2>2 DEF RingInv, Detecting
  <2>9. MatchInv'
    BY <2>4, <2>6, <2>7, <1>2 DEF MatchInv
  <2>10. OwnInv' /\ CoolInv'
    BY <1>2, <1>3 DEF OwnInv, CoolInv, Living, a
  <2> QED
    BY <2>8, <2>9, <2>10
<1>4. CASE ~thrashed /\ attached
  <2>1. quick' = <<>>
    BY <1>1, <1>4
  <2>2. RingInv'
    BY <2>1 DEF RingInv, Detecting
  <2>3. MatchInv' /\ OwnInv' /\ CoolInv'
    BY <2>1, <1>2 DEF MatchInv, OwnInv, CoolInv, Full, Living
  <2> QED
    BY <2>2, <2>3
<1>5. CASE ~attached
  <2>1. quick' = quick /\ (Pending => quick = <<>>)
    BY <1>1, <1>5 DEF OwnInv
  <2>2. RingInv'
    BY <2>1 DEF RingInv, Detecting
  <2>3. OwnInv'
    BY DEF OwnInv
  <2>4. Full' = Full /\ ~Full
    BY <2>1 DEF Full, CoolInv, Living
  <2>5. CoolInv'
    BY <2>1, <2>4, <1>2 DEF CoolInv, Living
  <2>6. MatchInv'
    <3>1. CASE quick = <<>>
      <4>1. Len(quick') = 0 /\ 1..Len(quick') = {}
        BY <3>1, <2>1
      <4> QED
        BY <4>1, <1>2 DEF MatchInv
    <3>2. CASE ~Pending
      <4>1. /\ Len(quick) <= Attaches /\ Len(quick) + 0 <= Len(ring)
            /\ \A i \in 1..Len(quick) :
                 /\ quick[i] = ring[Len(ring) - 0 - Len(quick) + i].at
                 /\ ring[Len(ring) - 0 - Len(quick) + i].dropped # Open
        BY <3>2, <1>2 DEF MatchInv, Living
      <4> QED
        BY <4>1, <1>2, <2>1 DEF MatchInv
    <3> QED
      BY <3>1, <3>2, <2>1
  <2> QED
    BY <2>2, <2>3, <2>5, <2>6
<1> QED
  BY <1>3, <1>4, <1>5

LEMMA ServesKeepsCool ==
    ASSUME CoolIInv, Types', Handles <= 1, Serves \/ Finishes
    PROVE  CoolIInv'
<1> USE ConstantFacts DEF CoolIInv, Serves, Finishes, Replays, counted
<1>1. /\ UNCHANGED <<ring, quick, alive, scenario>>
      /\ pc' = pc \/ pc' \in {"latching", "gone"}
      /\ \/ UNCHANGED <<attaching, rebuild>>
         \/ attaching' = Handles /\ rebuild' = FALSE /\ rebuild = TRUE
  BY DEF Types
<1>2. RingInv'
  BY <1>1 DEF RingInv, Detecting
<1>3. Pending' = Pending /\ Full' = Full /\ (pc' = pc => Ahead' = Ahead)
  BY <1>1 DEF Pending, Full, Ahead
<1>4. MatchInv' /\ CoolInv'
  BY <1>1, <1>3 DEF MatchInv, CoolInv, Living
<1>5. OwnInv'
  BY <1>1, <1>3 DEF OwnInv, Types
<1> QED
  BY <1>2, <1>4, <1>5

LEMMA AttachedKeepsCool ==
    ASSUME CoolIInv, Types', Attached
    PROVE  CoolIInv'
<1> USE ConstantFacts DEF CoolIInv, Attached, counted
<1>1. /\ attaching = 1 /\ ~rebuild /\ attaching' = 0 /\ ~rebuild'
      /\ pc = "driving" /\ pc' = "driving"
      /\ UNCHANGED <<quick, alive, scenario>> /\ alive \in Nat
      /\ Len(ring) \in Nat /\ Len(quick) \in Nat /\ Attaches \in Nat \ {0}
  BY DEF RingInv, Types, Replays
<1>2. Pending => quick = <<>>
  BY <1>1 DEF OwnInv
<1>3. CASE ~Detecting
  <2>1. ring' = ring /\ Pending' = Pending /\ Ahead' = Ahead /\ Full' = Full
    BY <1>3, <1>1 DEF Pending, Ahead, Full
  <2> QED
    BY <2>1, <1>1 DEF RingInv, MatchInv, OwnInv, CoolInv, Detecting, Living
<1>4. CASE Detecting
  <2> DEFINE e == [at |-> 0, dropped |-> Open]
             cap == Max({2 * Attaches, 2})
  <2>1. e \in Attach /\ e.at = 0 /\ e.dropped = Open
    BY DEF Attach
  <2>2. cap \in Nat /\ cap >= 2 * Attaches
    <3>1. 2 * Attaches \in Nat /\ 2 \in Nat
      OBVIOUS
    <3> QED
      BY <3>1 DEF Max
  <2>3. ring' = Pushed(ring, e, cap)
    BY <1>4 DEF PushAttach, Pushed
  <2> HIDE DEF e, cap
  <2>4. ring' \in Seq(Attach) /\ \E k \in {0, 1} : Shifted(ring', ring, e, cap, k)
    <3>1. ring \in Seq(Attach)
      BY DEF RingInv
    <3>2. \A x \in Attach, c \in Nat :
             /\ Pushed(ring, x, c) \in Seq(Attach)
             /\ \E k \in {0, 1} : Shifted(Pushed(ring, x, c), ring, x, c, k)
      BY <3>1, ShiftIn
    <3>3. e \in Attach /\ cap \in Nat
      BY <2>1, <2>2
    <3> QED
      BY <3>2, <3>3, <2>3
  <2>5. PICK k \in {0, 1} :
          /\ Len(ring') = Len(ring) + 1 - k
          /\ k = 1 => Len(ring) + 1 > cap
          /\ k = 0 => Len(ring) + 1 <= cap
          /\ \A i \in 1..Len(ring') : i < Len(ring') => ring'[i] = ring[i + k]
          /\ ring' # <<>> => ring'[Len(ring')] = e
    BY <2>4 DEF Shifted
  <2>6. /\ Len(ring') \in Nat /\ Len(ring') >= 1 /\ ring' # <<>>
        /\ k = 1 => Len(ring') >= 2 * Attaches
        /\ \A i \in 1..Len(ring') : i < Len(ring') => i + k \in 1..Len(ring)
    BY <2>2, <2>4, <2>5, <1>1
  <2>7. /\ ring'[Len(ring')].at = 0 /\ ring'[Len(ring')].dropped = Open
        /\ Pending' /\ Ahead' = 1
    BY <2>1, <2>5, <2>6, <1>1 DEF Pending, Ahead
  <2>8. ASSUME NEW i \in 1..Len(ring'), NEW j \in 1..Len(ring'), i <= j
        PROVE  ring'[i].at >= ring'[j].at
    <3>1. ring'[i] \in Attach /\ ring'[i].at \in Nat
      BY <2>4, EntryFacts
    <3>2. CASE j = Len(ring')
      BY <3>1, <3>2, <2>7
    <3>3. CASE j < Len(ring')
      <4>1. ring'[i] = ring[i + k] /\ ring'[j] = ring[j + k] /\ i + k <= j + k
        BY <3>3, <2>5, <2>8, <2>6
      <4>2. i + k \in 1..Len(ring) /\ j + k \in 1..Len(ring)
        BY <3>3, <2>8, <2>6
      <4> QED
        BY <4>1, <4>2 DEF RingInv
    <3> QED
      BY <3>2, <3>3, <2>6
  <2>9. RingInv'
    BY <2>4, <2>8, <1>1, <1>4 DEF RingInv, Detecting
  <2>10. Len(quick) <= Attaches /\ Len(quick) + 1 <= Len(ring')
    BY <1>1, <1>2, <2>5, <2>6 DEF MatchInv, Living, Ahead
  <2>11. ASSUME NEW i \in 1..Len(quick)
         PROVE  /\ quick[i] = ring'[Len(ring') - 1 - Len(quick) + i].at
                /\ ring'[Len(ring') - 1 - Len(quick) + i].dropped # Open
    <3> DEFINE j == Len(ring') - 1 - Len(quick) + i
    <3>1. ~Pending /\ Ahead = 0
      BY <1>2, <1>1 DEF Ahead
    <3>2. j \in 1..Len(ring') /\ j < Len(ring') /\ j + k = Len(ring) - Len(quick) + i
      <4>1. /\ Len(ring') = Len(ring) + 1 - k /\ k \in Nat
            /\ Len(ring) \in Nat /\ Len(quick) \in Nat /\ Len(ring') \in Nat
            /\ i \in Nat /\ 1 <= i /\ i <= Len(quick) /\ Len(quick) + 1 <= Len(ring')
        BY <2>5, <2>6, <2>10, <1>1
      <4> QED
        BY <4>1
    <3>3. ring'[j] = ring[Len(ring) - Len(quick) + i]
      BY <3>2, <2>5
    <3>4. /\ quick[i] = ring[Len(ring) - Len(quick) + i].at
          /\ ring[Len(ring) - Len(quick) + i].dropped # Open
      BY <3>1, <1>1 DEF MatchInv, Living
    <3> QED
      BY <3>3, <3>4
  <2>12. MatchInv'
    BY <2>10, <2>11, <2>7, <1>1 DEF MatchInv
  <2>13. OwnInv' /\ CoolInv'
    BY <2>7, <1>1 DEF OwnInv, CoolInv, Full, Living
  <2> QED
    BY <2>9, <2>12, <2>13
<1> QED
  BY <1>3, <1>4

LEMMA OuterKeepsCool ==
    ASSUME CoolIInv, Types', DropWithin <= DropGrace, OuterTop
    PROVE  CoolIInv'
<1> USE ConstantFacts DEF CoolIInv, session, users
<1> DEFINE recorded == Detecting /\ ring # <<>> /\ Last(ring).at <= DropGrace
           stamped  == IF recorded THEN StampDrop(ring) ELSE ring
           cooled   == recorded /\ Paired(ring) /\ Trips(stamped)
<1>1. /\ pc = "dropped" /\ UNCHANGED <<attaching, rebuild, scenario, alive>>
      /\ \/ pc' = "failing" /\ UNCHANGED <<ring, quick>>
         \/ /\ pc' \in {"cooling", "resuming"} /\ ring' = stamped
            /\ quick' = IF cooled THEN <<>> ELSE quick
  BY DEF OuterTop, policy
<1>2. CASE pc' = "failing"
  <2>1. UNCHANGED <<ring, quick>>
    BY <1>1, <1>2
  <2> QED
    BY <2>1, <1>1, <1>2 DEF RingInv, MatchInv, OwnInv, CoolInv, Detecting, Living
<1>3. CASE pc' # "failing"
  <2>1. /\ pc' \in {"cooling", "resuming"} /\ ring' = stamped
        /\ quick' = IF cooled THEN <<>> ELSE quick
    BY <1>1, <1>3
  <2>2. /\ ring \in Seq(Attach) /\ Len(ring) \in Nat /\ Len(quick) \in Nat
        /\ Attaches \in Nat \ {0} /\ Window \in Nat
        /\ \A i \in 1..Len(ring) : ring[i] \in Attach /\ ring[i].at \in Nat
    BY EntryFacts DEF RingInv
  <2>3. /\ stamped \in Seq(Attach) /\ Len(stamped) = Len(ring)
        /\ \A i \in 1..Len(ring) :
              /\ stamped[i].at = ring[i].at
              /\ ring[i].dropped # Open => stamped[i].dropped # Open
    BY <2>2, StampFacts
  <2>4. ASSUME Pending, ring[Len(ring)].at <= DropWithin
        PROVE  recorded /\ Paired(ring) /\ stamped[Len(ring)].dropped = 0
    <3>1. recorded
      BY <2>2, <2>4 DEF Pending, RingInv, Last
    <3> QED
      BY <3>1, <2>2, <2>4, StampFacts DEF Pending
  <2> HIDE DEF stamped, recorded
  <2>5. /\ Len(quick) <= Attaches /\ Len(quick) <= Len(ring)
        /\ \A i \in 1..Len(quick) :
             /\ quick[i] = ring[Len(ring) - Len(quick) + i].at
             /\ ring[Len(ring) - Len(quick) + i].dropped = Open => i = Len(quick)
    BY <1>1, <2>2 DEF MatchInv, Living, Ahead
  <2>6. ASSUME NEW i \in 1..Len(quick)
        PROVE  /\ Len(ring) - Len(quick) + i \in 1..Len(ring)
               /\ quick[i] = stamped[Len(ring) - Len(quick) + i].at
               /\ stamped[Len(ring) - Len(quick) + i].dropped # Open
    <3>1. Len(ring) - Len(quick) + i \in 1..Len(ring)
      BY <2>5, <2>2
    <3>2. CASE ring[Len(ring) - Len(quick) + i].dropped # Open
      BY <3>1, <3>2, <2>3, <2>5
    <3>3. CASE ring[Len(ring) - Len(quick) + i].dropped = Open
      <4>1. i = Len(quick) /\ Len(ring) - Len(quick) + i = Len(ring) /\ quick # <<>>
        <5>1. i = Len(quick) /\ quick # <<>>
          BY <3>3, <2>5, <2>2
        <5> QED
          BY <5>1, <2>2
      <4>2. Pending
        BY <4>1, <3>3, <3>1 DEF Pending
      <4>3. ring[Len(ring)].at <= DropWithin
        BY <4>1, <4>2, <1>1 DEF CoolInv
      <4> QED
        BY <4>1, <4>2, <4>3, <3>1, <2>3, <2>4, <2>5 DEF Open
    <3> QED
      BY <3>2, <3>3
  <2>7. Full => cooled
    <3> SUFFICES ASSUME Full PROVE cooled
      OBVIOUS
    <3>1. Len(quick) = Attaches /\ quick[1] <= Window /\ quick # <<>>
      BY <2>2 DEF Full
    <3>2. Pending /\ ring[Len(ring)].at <= DropWithin
      BY <3>1, <1>1 DEF CoolInv
    <3>3. \A i, j \in 1..Len(stamped) : i <= j => stamped[i].at >= stamped[j].at
      BY <2>3 DEF RingInv
    <3>4. /\ \A i \in 1..Attaches : stamped[Len(stamped) - Attaches + i].dropped # Open
          /\ stamped[Len(stamped) - Attaches + 1].at <= Window
          /\ Attaches <= Len(stamped)
      <4>1. Len(stamped) = Len(ring) /\ Len(quick) = Attaches /\ 1 \in 1..Attaches
        BY <3>1, <2>3
      <4>2. \A i \in 1..Attaches :
               /\ quick[i] = stamped[Len(stamped) - Attaches + i].at
               /\ stamped[Len(stamped) - Attaches + i].dropped # Open
        BY <4>1, <2>6
      <4> QED
        BY <4>1, <4>2, <3>1, <2>5
    <3>5. Trips(stamped)
      BY <3>3, <3>4, <2>3, TripFacts
    <3> QED
      BY <3>2, <3>5, <2>4
  <2>8. RingInv'
    <3>1. ring' \in Seq(Attach) /\ quick' \in Seq(Nat)
      BY <2>1, <2>3 DEF RingInv
    <3>2. ring' # <<>> => Detecting'
      BY <1>1, <2>1, <2>3, <2>2 DEF RingInv, Detecting
    <3>3. \A i, j \in 1..Len(ring') : i <= j => ring'[i].at >= ring'[j].at
      BY SMTT(40), <2>1, <2>3 DEF RingInv
    <3> QED
      BY <3>1, <3>2, <3>3, <1>1 DEF RingInv
  <2>9. Ahead' = 0
    BY <2>1 DEF Ahead
  <2> HIDE DEF cooled
  <2>10. CASE cooled
    <3>1. quick' = <<>>
      BY <2>1, <2>10
    <3>2. Len(ring') \in Nat
      BY <2>1, <2>2, <2>3
    <3> QED
      BY <3>1, <3>2, <2>1, <2>8, <2>9, <2>2 DEF MatchInv, OwnInv, CoolInv, Full
  <2>11. CASE ~cooled
    <3>1. quick' = quick /\ ~Full'
      BY <2>1, <2>7, <2>11 DEF Full
    <3>2. MatchInv'
      <4>1. Len(ring') = Len(ring) /\ ring' = stamped
        BY <2>1, <2>3
      <4>2. \A i \in 1..Len(quick) :
               /\ quick[i] = ring'[Len(ring') - 0 - Len(quick) + i].at
               /\ ring'[Len(ring') - 0 - Len(quick) + i].dropped # Open
        BY <4>1, <2>6, <2>2
      <4> QED
        BY <4>1, <4>2, <3>1, <2>5, <2>9, <2>2 DEF MatchInv
    <3>3. OwnInv' /\ CoolInv'
      BY <3>1, <2>1 DEF OwnInv, CoolInv
    <3> QED
      BY <3>2, <3>3, <2>8
  <2> QED
    BY <2>10, <2>11
<1> QED
  BY <1>2, <1>3

LEMMA RedialsKeepsCool ==
    ASSUME CoolIInv, Types', Resume \/ BackingDone \/ DialFails \/ DialConnects
    PROVE  CoolIInv'
<1> USE DEF CoolIInv, session, policy, users, ghosts
<1>1. /\ UNCHANGED <<ring, quick, scenario>>
      /\ pc \in Living \ {"driving", "dropped"}
      /\ \/ pc' \in {"backing", "failing", "dialing"} /\ UNCHANGED <<attaching, rebuild>>
         \/ pc' = "driving" /\ attaching' = 0 /\ rebuild' = TRUE
  BY DEF Resume, BackingDone, DialFails, DialConnects, BackOff, Living
<1>2. RingInv'
  BY <1>1 DEF RingInv, Detecting
<1>3. Pending' = Pending /\ Full' = Full /\ Ahead = 0
  BY <1>1 DEF Pending, Full, Ahead
<1>4. Pending => quick = <<>>
  <2> SUFFICES ASSUME Pending, quick # <<>> PROVE FALSE
    OBVIOUS
  <2>1. Len(quick) \in 1..Len(quick) /\ Len(ring) - 0 - Len(quick) + Len(quick) = Len(ring)
    BY DEF RingInv
  <2>2. ring[Len(ring)].dropped # Open
    BY <2>1, <1>1, <1>3 DEF MatchInv
  <2> QED
    BY <2>2 DEF Pending
<1>5. Len(ring) \in Nat /\ (Pending => Len(ring) >= 1)
  BY DEF RingInv, Pending
<1>6. MatchInv'
  <2>1. CASE Pending
    BY <2>1, <1>1, <1>3, <1>4, <1>5, ConstantFacts DEF MatchInv, Ahead, Living
  <2>2. CASE ~Pending
    BY <2>2, <1>1, <1>3 DEF MatchInv, Ahead, Living
  <2> QED
    BY <2>1, <2>2
<1>7. OwnInv' /\ CoolInv'
  BY <1>1, <1>3, <1>4 DEF OwnInv, CoolInv, Living
<1> QED
  BY <1>2, <1>6, <1>7

LEMMA TickKeepsCool ==
    ASSUME CoolIInv, Types', Tick
    PROVE  CoolIInv'
<1> USE ConstantFacts DEF CoolIInv, session, users
<1>1. /\ UNCHANGED <<pc, attaching, rebuild, scenario>>
      /\ pc \in {"driving", "dialing", "cooling", "backing"}
      /\ alive' = Older(alive)
      /\ ring' = [i \in DOMAIN ring |->
                   [at |-> Older(ring[i].at), dropped |-> Older(ring[i].dropped)]]
      /\ quick' = [i \in DOMAIN quick |-> Older(quick[i])]
  BY DEF Tick, Waiting
<1>2. /\ Len(ring) \in Nat /\ DOMAIN ring = 1..Len(ring)
      /\ Len(quick) \in Nat /\ DOMAIN quick = 1..Len(quick)
      /\ \A i \in 1..Len(quick) : quick[i] \in Nat
      /\ \A i \in 1..Len(ring) :
            ring[i].at \in Nat /\ ring[i].dropped \in Nat \cup {Open}
      /\ alive \in Nat
  <2>1. ring \in Seq(Attach) /\ quick \in Seq(Nat) /\ alive \in Nat
    BY DEF RingInv, Types
  <2> QED
    BY <2>1, EntryFacts
<1>3. \A d \in Nat \cup {Open} :
         Older(d) \in Nat \cup {Open} /\ (Older(d) = Open <=> d = Open)
  <2>1. Older(Open) = Open
    BY DEF Older
  <2>2. \A d \in Nat : Older(d) \in Nat
    BY OlderFacts
  <2> QED
    BY <2>1, <2>2 DEF Open
<1>4. \A i \in 1..Len(ring) :
         /\ ring'[i] = [at |-> Older(ring[i].at), dropped |-> Older(ring[i].dropped)]
         /\ ring'[i].at = Older(ring[i].at)
         /\ ring'[i].dropped = Older(ring[i].dropped)
         /\ ring'[i].dropped = Open <=> ring[i].dropped = Open
  BY <1>1, <1>2, <1>3
<1>5. ring' \in Seq(Attach) /\ Len(ring') = Len(ring)
  <2>1. \A i \in 1..Len(ring) : ring'[i] \in Attach
    <3> TAKE i \in 1..Len(ring)
    <3>1. Older(ring[i].at) \in Nat /\ Older(ring[i].dropped) \in Nat \cup {Open}
      BY <1>2, <1>3, OlderFacts
    <3>2. \A x \in Nat, y \in Nat \cup {Open} : [at |-> x, dropped |-> y] \in Attach
      BY DEF Attach
    <3> QED
      BY <3>1, <3>2, <1>4
  <2>2. ring' \in [1..Len(ring) -> Attach]
    BY <2>1, <1>1, <1>2
  <2> QED
    BY <2>2, <1>2
<1>6. /\ quick' \in Seq(Nat) /\ Len(quick') = Len(quick)
      /\ \A i \in 1..Len(quick) : quick'[i] = Older(quick[i])
  <2>1. quick' \in [1..Len(quick) -> Nat]
    BY <1>1, <1>2, OlderFacts
  <2> QED
    BY <2>1, <1>1, <1>2
<1>7. RingInv'
  <2>1. \A i, j \in 1..Len(ring') : i <= j => ring'[i].at >= ring'[j].at
    <3> TAKE i, j \in 1..Len(ring')
    <3> HAVE i <= j
    <3>1. /\ ring[j].at <= ring[i].at /\ ring[i].at \in Nat /\ ring[j].at \in Nat
          /\ ring'[i].at = Older(ring[i].at) /\ ring'[j].at = Older(ring[j].at)
      BY <1>2, <1>4, <1>5 DEF RingInv
    <3> QED
      BY <3>1, OlderFacts
  <2>2. ring' # <<>> => ring # <<>>
    BY <1>5, <1>2
  <2> QED
    BY <2>1, <2>2, <1>1, <1>5, <1>6 DEF RingInv, Detecting
<1>8. (ring' = <<>> <=> ring = <<>>) /\ (quick' = <<>> <=> quick = <<>>)
  BY <1>2, <1>5, <1>6 DEF RingInv
<1>9. /\ ring # <<>> => Len(ring) \in 1..Len(ring)
      /\ Pending' <=> Pending
  <2>1. ring # <<>> => Len(ring) \in 1..Len(ring)
    BY EntryFacts, <1>2 DEF RingInv
  <2> QED
    BY <2>1, <1>4, <1>5, <1>8 DEF Pending
<1>10. Ahead' = Ahead /\ Ahead \in {0, 1}
  BY <1>1, <1>9 DEF Ahead
<1> HIDE DEF Ahead, Older
<1>11. MatchInv'
  <2>1. /\ Len(quick) <= Attaches /\ Len(quick) + Ahead <= Len(ring)
        /\ \A i \in 1..Len(quick) :
             /\ quick[i] = ring[Len(ring) - Ahead - Len(quick) + i].at
             /\ ring[Len(ring) - Ahead - Len(quick) + i].dropped # Open
    BY <1>1 DEF MatchInv, Living
  <2>2. ASSUME NEW i \in 1..Len(quick)
        PROVE  /\ quick'[i] = ring'[Len(ring) - Ahead - Len(quick) + i].at
               /\ ring'[Len(ring) - Ahead - Len(quick) + i].dropped # Open
    <3>1. Len(ring) - Ahead - Len(quick) + i \in 1..Len(ring)
      BY <2>1, <1>2, <1>10
    <3> QED
      BY <3>1, <2>1, <1>4, <1>6
  <2> QED
    BY <2>1, <2>2, <1>5, <1>6, <1>10 DEF MatchInv
<1>12. OwnInv'
  <2> SUFFICES ASSUME pc = "driving", quick # <<>>, Pending
               PROVE  attaching = 0 /\ ~rebuild /\ ring'[Len(ring)].at <= Older(alive)
    BY <1>1, <1>5, <1>8, <1>9 DEF OwnInv
  <2>1. attaching = 0 /\ ~rebuild /\ ring[Len(ring)].at <= alive
    BY DEF OwnInv
  <2>2. Len(ring) \in 1..Len(ring)
    BY <1>9 DEF Pending
  <2> QED
    BY <2>1, <2>2, <1>2, <1>4, OlderFacts
<1>13. Full' => Full
  <2> SUFFICES ASSUME Full' PROVE Full
    OBVIOUS
  <2>1. Len(quick) = Attaches /\ Older(quick[1]) <= Window /\ quick[1] \in Nat
    BY <1>2, <1>6 DEF Full
  <2> QED
    BY <2>1, OlderFacts DEF Full
<1>14. CoolInv'
  BY <1>1, <1>13 DEF CoolInv, Living
<1> QED
  BY <1>7, <1>11, <1>12, <1>14

(* The detector's invariant, for any thresholds and any schedule.          *)
THEOREM CoolingHolds ==
    ASSUME Handles <= 1, DropWithin <= DropGrace
    PROVE  Spec => []CoolIInv
<1>1. Init => IInv /\ CoolIInv
  BY InitIInv, InitCool
<1>2. IInv /\ CoolIInv /\ [Next]_vars => (IInv /\ CoolIInv)'
  <2> SUFFICES ASSUME IInv, CoolIInv, [Next]_vars PROVE (IInv /\ CoolIInv)'
    OBVIOUS
  <2>1. \/ Leaves \/ Serves \/ Attached \/ Finishes \/ OuterTop \/ Resume
        \/ BackingDone \/ DialFails \/ DialConnects \/ Tick
    BY StepForms DEF IInv
  <2>2. IInv' /\ Types'
    BY <2>1, LeavesKeepsIInv, ServesKeepsIInv, SupervisesKeepsIInv DEF IInv
  <2>3. CoolIInv'
    BY <2>1, <2>2, LeavesKeepsCool, ServesKeepsCool, AttachedKeepsCool,
       OuterKeepsCool, RedialsKeepsCool, TickKeepsCool
  <2> QED
    BY <2>2, <2>3
<1> QED
  BY <1>1, <1>2, PTL DEF Spec

(* StormIsCooled: the supervisor never backs off or dials while the last   *)
(* Attaches sessions were all attached and dropped within the window: the  *)
(* cooldown has come first.                                                *)
THEOREM CooldownTheorem ==
    ASSUME Handles <= 1, DropWithin <= DropGrace
    PROVE  Spec => []StormIsCooled
<1>1. CoolIInv => StormIsCooled
  <2> SUFFICES ASSUME CoolIInv PROVE StormIsCooled
    OBVIOUS
  <2>1. Len(quick) = Attaches => quick # <<>> /\ Head(quick) = quick[1]
    BY ConstantFacts DEF CoolIInv, RingInv
  <2> QED
    BY <2>1 DEF CoolIInv, CoolInv, Full, StormIsCooled, Living
<1> QED
  BY <1>1, CoolingHolds, PTL
=============================================================================
