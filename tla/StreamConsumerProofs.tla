---------------------- MODULE StreamConsumerProofs ----------------------
(***************************************************************************)
(* Theorems about StreamConsumer.  Base collects the facts about every     *)
(* state that the other proofs start from; StepIs sorts the actions into a *)
(* few kinds of steps, so that each invariant is shown to be preserved by  *)
(* the kinds and not by the actions one by one.                            *)
(***************************************************************************)
EXTENDS StreamAggregateProofs

-----------------------------------------------------------------------------
(* The runtime: the facts about every state that the proofs start from.    *)

IsTask(t) ==
    t \in [by : {t.by}, seg : {t.seg}, gen : {t.gen}, tries : {t.tries},
           acts : {t.acts}, after : {t.after}]

(* An action names a child there is or was, and a close one that closes. *)
Actable(m, a) ==
    /\ a.seg \in Segments /\ a.gen \in Nat /\ a.gen < m.nextGen
    /\ a.op = "close" /\ Has(m, a.seg, a.gen) => m.children[a.seg].phase = "Closing"

Manned(m, T) == \A t \in T : IsTask(t) /\ \A a \in t.acts : Actable(m, a)

(* A child that has anything to do is registered. *)
Lodged(m, at, cl) ==
    /\ at \in [Segments -> Nat] /\ \A s \in Segments : at[s] < m.nextGen
    /\ cl = "Open" => \A s \in DOMAIN m.children :
                        Lives(m.children[s]) => at[s] = m.children[s].gen

Staged(p, cl, rc) ==
    /\ cl \in {"Open", "Closing", "Closed"}
    /\ cl # "Open" => p \in {"Closing", "Closed"}
    /\ cl = "Open" => p \in {"Open", "ResyncRequired"}
    /\ cl = "Open" /\ rc => p = "ResyncRequired"

Counters(lf, pub, ap) ==
    lf \in [Kinds -> Nat] /\ pub \in 1..Len(Plan) /\ ap \in 1..pub

Base ==
    /\ Ok(model) /\ Dry(model) /\ Manned(model, tasks)
    /\ Lodged(model, attached, closing)
    /\ Staged(model.phase, closing, reconnect)
    /\ Counters(left, published, applied) /\ IsSeq(queue) /\ IsSeq(parked)

-----------------------------------------------------------------------------
(* Tasks.                                                                  *)

LEMMA TaskIs ==
    ASSUME NEW by, NEW s, NEW g, NEW tries, NEW acts, NEW after
    PROVE  LET t == Task(by, s, g, tries, acts, after)
           IN  /\ IsTask(t) /\ t.by = by /\ t.seg = s /\ t.gen = g /\ t.tries = tries
               /\ t.acts = acts /\ t.after = after
  BY DEF Task, IsTask

LEMMA ByHandIs ==
    ASSUME NEW by, NEW acts
    PROVE  LET t == ByHand(by, acts)
           IN  /\ IsTask(t) /\ t.by = by /\ t.tries = {}
               /\ t.acts = acts /\ t.after = {}
  BY TaskIs DEF ByHand

LEMMA FreeIs ==
    ASSUME NEW acts
    PROVE  LET t == Free(acts)
           IN  /\ IsTask(t) /\ t.by = "spawned" /\ t.tries = {}
               /\ t.acts = acts /\ t.after = {}
  BY ByHandIs DEF Free

LEMMA HandoffIs ==
    ASSUME NEW acts
    PROVE  LET t == Handoff(acts)
           IN  /\ IsTask(t) /\ t.by = "handoff" /\ t.tries = {}
               /\ t.acts = acts /\ t.after = {}
  BY ByHandIs DEF Handoff

LEMMA SetActs ==
    ASSUME NEW t, IsTask(t), NEW X
    PROVE  LET u == [t EXCEPT !.acts = X]
           IN  /\ IsTask(u) /\ u.by = t.by /\ u.seg = t.seg /\ u.gen = t.gen
               /\ u.tries = t.tries /\ u.acts = X /\ u.after = t.after
<1> DEFINE u == [t EXCEPT !.acts = X]
<1>1. u = [t EXCEPT !.acts = X]
  OBVIOUS
<1> HIDE DEF u
<1>2. /\ u.by = t.by /\ u.seg = t.seg /\ u.gen = t.gen
      /\ u.tries = t.tries /\ u.acts = X /\ u.after = t.after
  BY <1>1 DEF IsTask
<1>3. IsTask(u)
  BY <1>1, <1>2 DEF IsTask
<1> QED
  BY <1>2, <1>3 DEF u

Offering(t, X, Y) == [t EXCEPT !.tries = X, !.after = Y]

LEMMA SetOffers ==
    ASSUME NEW t, IsTask(t), NEW X, NEW Y
    PROVE  LET u == Offering(t, X, Y)
           IN  /\ IsTask(u) /\ u.by = t.by /\ u.seg = t.seg /\ u.gen = t.gen
               /\ u.tries = X /\ u.acts = t.acts /\ u.after = Y
<1> DEFINE u == Offering(t, X, Y)
<1>1. u = [t EXCEPT !.tries = X, !.after = Y]
  BY DEF Offering
<1> HIDE DEF u
<1>2. /\ u.by = t.by /\ u.seg = t.seg /\ u.gen = t.gen
      /\ u.tries = X /\ u.acts = t.acts /\ u.after = Y
  BY <1>1 DEF IsTask
<1>3. IsTask(u)
  BY <1>1, <1>2 DEF IsTask
<1> QED
  BY <1>2, <1>3 DEF u

LEMMA AddIs ==
    ASSUME NEW T, NEW t
    PROVE  /\ T \subseteq Add(T, t) /\ Add(T, t) \subseteq T \cup {t}
           /\ t.acts # {} => t \in Add(T, t)
  BY DEF Add

LEMMA AddManned ==
    ASSUME NEW m, NEW T, Manned(m, T), NEW t, IsTask(t),
           \A a \in t.acts : Actable(m, a)
    PROVE  Manned(m, Add(T, t))
  BY AddIs DEF Manned

LEMMA LessManned ==
    ASSUME NEW m, NEW T, Manned(m, T), NEW t
    PROVE  Manned(m, T \ {t})
  BY DEF Manned

Later(m, n) ==
    /\ n.nextGen >= m.nextGen
    /\ \A s \in DOMAIN n.children :
         \/ /\ Has(m, s, n.children[s].gen)
            /\ m.children[s].phase = "Closing" => n.children[s].phase = "Closing"
         \/ n.children[s].gen >= m.nextGen

LEMMA AgesLater ==
    ASSUME NEW m, NEW n, Ages(m, n)
    PROVE  Later(m, n)
  BY DEF Ages, Aged, Later, Has

LEMMA ActableLater ==
    ASSUME NEW m, NEW n, Ok(m), Ok(n), Later(m, n), NEW a, Actable(m, a)
    PROVE  Actable(n, a)
<1>1. m.nextGen \in Nat /\ n.nextGen \in Nat /\ n.nextGen >= m.nextGen
  BY OkParts DEF Later
<1>2. a.seg \in Segments /\ a.gen \in Nat /\ a.gen < m.nextGen
  BY DEF Actable
<1>3. ASSUME a.op = "close", Has(n, a.seg, a.gen)
      PROVE  n.children[a.seg].phase = "Closing"
  BY <1>1, <1>2, <1>3 DEF Later, Has, Actable
<1> QED
  BY <1>1, <1>2, <1>3 DEF Actable

LEMMA MannedLater ==
    ASSUME NEW m, NEW n, Ok(m), Ok(n), Later(m, n), NEW T, Manned(m, T)
    PROVE  Manned(n, T)
  BY ActableLater DEF Manned

LEMMA EmittedActable ==
    ASSUME NEW m, NEW n, Ok(n), NEW a \in Emitted(m, n)
    PROVE  Actable(n, a)
<1>1. Announces(m, n, a)
  BY EmittedAnnounces
<1>2. /\ a.seg \in DOMAIN n.children /\ a.gen = n.children[a.seg].gen
      /\ a.op = "close" => n.children[a.seg].phase = "Closing"
  BY <1>1 DEF Announces
<1>3. Good(n.children[a.seg]) /\ Numbered(n) /\ DOMAIN n.children \subseteq Segments
  BY <1>2, OkParts
<1> QED
  BY <1>2, <1>3 DEF Actable, Good, IsChild, Numbered

(* A method's actions go to a new task, or to the one that called it. *)
LEMMA SpawnManned ==
    ASSUME NEW m, NEW n, Ok(m), Ok(n), Later(m, n), NEW T, Manned(m, T),
           NEW t, IsTask(t), t.acts \subseteq Emitted(m, n)
    PROVE  Manned(n, Add(T, t))
<1>1. Manned(n, T)
  BY MannedLater
<1>2. \A a \in t.acts : Actable(n, a)
  BY EmittedActable
<1> QED
  BY <1>1, <1>2, AddManned

LEMMA AdvanceManned ==
    ASSUME NEW n, Ok(model), Ok(n), Later(model, n), Manned(model, tasks),
           NEW t \in tasks, NEW a, NEW X, X \subseteq Emitted(model, n)
    PROVE  Manned(n, Advance(t, a, X))
<1> DEFINE u == [t EXCEPT !.acts = (t.acts \ {a}) \cup X]
<1>1. Manned(n, tasks) /\ IsTask(t)
  BY MannedLater DEF Manned
<1>2. IsTask(u) /\ u.acts = (t.acts \ {a}) \cup X
  BY <1>1, SetActs
<1>3. Advance(t, a, X) = Add(tasks \ {t}, u)
  BY DEF Advance
<1> HIDE DEF u
<1>4. \A b \in u.acts : Actable(n, b)
  BY <1>1, <1>2, EmittedActable DEF Manned
<1>5. Manned(n, Add(tasks \ {t}, u))
  BY <1>1, <1>2, <1>4, AddManned, LessManned
<1> QED
  BY <1>3, <1>5

LEMMA AgesLodged ==
    ASSUME NEW m, NEW n, Ok(m), Ok(n), Ages(m, n), NEW at, NEW cl, Lodged(m, at, cl)
    PROVE  Lodged(n, at, cl)
<1>1. m.nextGen \in Nat /\ n.nextGen \in Nat /\ n.nextGen >= m.nextGen
  BY OkParts DEF Ages
<1>2. at \in [Segments -> Nat] /\ \A s \in Segments : at[s] < n.nextGen
  <2>1. \A s \in Segments : at[s] \in Nat /\ at[s] < m.nextGen
    BY DEF Lodged
  <2> QED
    BY <1>1, <2>1 DEF Lodged
<1>3. ASSUME cl = "Open", NEW s \in DOMAIN n.children, Lives(n.children[s])
      PROVE  at[s] = n.children[s].gen
  BY <1>3 DEF Ages, Aged, Lodged, Lives
<1> QED
  BY <1>2, <1>3 DEF Lodged

LEMMA SpendIs ==
    ASSUME left \in [Kinds -> Nat], NEW k \in Kinds, Spend(k)
    PROVE  /\ left' \in [Kinds -> Nat] /\ \A x \in Kinds : left'[x] =< left[x]
           /\ left[k] > 0
  BY DEF Spend

-----------------------------------------------------------------------------
(* Most steps are steady: they run methods that carry the aggregate on.    *)

Dwindles == left' \in [Kinds -> Nat] /\ \A x \in Kinds : left'[x] =< left[x]

Steady ==
    /\ Carries(model, model') /\ Manned(model', tasks')
    /\ attached' = attached /\ closing' = closing
    /\ reconnect' = reconnect \/ model'.phase # "Open"
    /\ Dwindles /\ published' \in published..Len(Plan) /\ applied' \in applied..published'
    /\ IsSeq(queue') /\ IsSeq(parked')

LEMMA SteadyBase ==
    ASSUME Base, Steady
    PROVE  Base'
<1>1. /\ Ok(model) /\ Ok(model') /\ Ages(model, model') /\ Dry(model')
      /\ Onward(model.phase, model'.phase)
  BY DEF Base, Steady, Carries
<1>2. Lodged(model', attached, closing)
  BY <1>1, AgesLodged DEF Base
<1>3. Staged(model'.phase, closing, reconnect')
  BY <1>1 DEF Base, Steady, Staged, Onward
<1>4. Counters(left', published', applied')
  <2>1. /\ published \in 1..Len(Plan) /\ applied \in 1..published
        /\ published' \in published..Len(Plan) /\ applied' \in applied..published'
    BY DEF Base, Counters, Steady
  <2>2. Len(Plan) \in Nat
    BY RuntimeAssumption
  <2> QED
    BY <2>1, <2>2 DEF Steady, Dwindles, Counters
<1> QED
  BY <1>1, <1>2, <1>3, <1>4 DEF Base, Steady

(* The queue is left alone, or emptied by a fence. *)
QueueKept ==
    \/ queue' = queue /\ (model.phase = "Open" => model'.phase = "Open")
    \/ queue' = <<>> /\ model'.phase # "Open"

(* A steady step that is none of the acknowledgements' business. *)
Runs ==
    /\ Steady /\ QueueKept /\ OpsKept(model, model')
    /\ ackCalls' = ackCalls /\ parked' = parked

Undisturbed ==
    /\ attached' = attached /\ closing' = closing /\ reconnect' = reconnect
    /\ published' = published /\ applied' = applied /\ queue' = queue
    /\ ackCalls' = ackCalls /\ parked' = parked

LEMMA BaseParts ==
    ASSUME Base
    PROVE  /\ Ok(model) /\ Dry(model) /\ Manned(model, tasks)
           /\ left \in [Kinds -> Nat] /\ Len(Plan) \in Nat
           /\ published \in 1..Len(Plan) /\ applied \in 1..published
           /\ published \in published..Len(Plan) /\ applied \in applied..published
           /\ IsSeq(queue) /\ IsSeq(parked) /\ IsSeq(<<>>)
           /\ Carries(model, model) /\ Tends(model, model)
<1>1. /\ Ok(model) /\ Dry(model) /\ Manned(model, tasks)
      /\ left \in [Kinds -> Nat]
      /\ published \in 1..Len(Plan) /\ applied \in 1..published
      /\ IsSeq(queue) /\ IsSeq(parked)
  BY DEF Base, Counters
<1>2. Len(Plan) \in Nat
  BY RuntimeAssumption
<1>3. published \in published..Len(Plan) /\ applied \in applied..published
  BY <1>1, <1>2
<1>4. <<>> \in Seq({})
  OBVIOUS
<1>5. Tends(model, model)
  BY <1>1, TendsSame
<1> QED
  BY <1>1, <1>2, <1>3, <1>4, <1>5 DEF IsSeq, Tends

LEMMA UnspentDwindles ==
    ASSUME Base, UNCHANGED left
    PROVE  Dwindles
  BY BaseParts DEF Dwindles

LEMMA SpentDwindles ==
    ASSUME Base, NEW k \in Kinds, Spend(k)
    PROVE  Dwindles
  BY BaseParts, SpendIs DEF Dwindles

LEMMA TendsRuns ==
    ASSUME Base, Tends(model, model'), Manned(model', tasks'), Undisturbed, Dwindles
    PROVE  Runs
  BY BaseParts DEF Runs, Steady, QueueKept, Undisturbed, Tends

(* request_resync *)
LEMMA ResyncRuns ==
    ASSUME Base, NEW T, Manned(model, T), Resync(T)
    PROVE  /\ Carries(model, model') /\ Manned(model', tasks') /\ OpsKept(model, model')
           /\ QueueKept /\ IsSeq(queue')
           /\ reconnect' = reconnect \/ model'.phase # "Open"
           /\ closing = "Open" => /\ model' = RequireResync(model) /\ reconnect' = TRUE
                                  /\ queue' = <<>> /\ model'.phase # "Open"
<1>1. CASE closing # "Open"
  <2>1. model' = model /\ tasks' = T /\ queue' = queue /\ reconnect' = reconnect
    BY <1>1 DEF Resync
  <2> QED
    BY <1>1, <2>1, BaseParts DEF QueueKept, Tends
<1>2. CASE closing = "Open"
  <2> DEFINE n == RequireResync(model)
             t == Handoff(Emitted(model, n))
  <2>1. /\ model' = n /\ tasks' = Add(T, t) /\ queue' = <<>> /\ reconnect' = TRUE
    BY <1>2 DEF Resync
  <2>2. Carries(model, n) /\ OpsKept(model, n) /\ n.phase # "Open"
    BY BaseParts, ResyncCarries
  <2>3. IsTask(t) /\ t.acts = Emitted(model, n)
    BY HandoffIs
  <2> HIDE DEF n, t
  <2>4. Manned(n, Add(T, t))
    BY <2>2, <2>3, BaseParts, SpawnManned, AgesLater DEF Carries
  <2> QED
    BY <1>2, <2>1, <2>2, <2>4, BaseParts DEF QueueKept, n
<1> QED
  BY <1>1, <1>2

LEMMA ResyncRunsAll ==
    ASSUME Base, NEW T, Manned(model, T), Resync(T), Dwindles,
           UNCHANGED <<attached, ackCalls, parked, closing, published, applied>>
    PROVE  Runs
<1>1. /\ Carries(model, model') /\ Manned(model', tasks') /\ OpsKept(model, model')
      /\ QueueKept /\ IsSeq(queue')
      /\ reconnect' = reconnect \/ model'.phase # "Open"
  BY ResyncRuns
<1> QED
  BY <1>1, BaseParts DEF Runs, Steady

(* A method whose actions go to a task of their own. *)
LEMMA SpawnRuns ==
    ASSUME Base, Tends(model, model'), NEW t, IsTask(t),
           t.acts \subseteq Emitted(model, model'), tasks' = Add(tasks, t),
           Undisturbed, Dwindles
    PROVE  Runs
<1>1. Ok(model') /\ Later(model, model')
  BY AgesLater DEF Tends, Carries
<1>2. Manned(model', Add(tasks, t))
  BY <1>1, BaseParts, SpawnManned
<1> QED
  BY <1>2, TendsRuns

LEMMA AdvanceRuns ==
    ASSUME Base, Tends(model, model'), NEW t \in tasks, NEW a, NEW X,
           X \subseteq Emitted(model, model'), tasks' = Advance(t, a, X),
           Undisturbed, Dwindles
    PROVE  Runs
<1>1. Ok(model') /\ Later(model, model')
  BY AgesLater DEF Tends, Carries
<1>2. Manned(model', Advance(t, a, X))
  BY <1>1, BaseParts, AdvanceManned
<1> QED
  BY <1>2, TendsRuns

LEMMA PlanIs ==
    ASSUME NEW i \in 1..Len(Plan)
    PROVE  DOMAIN Plan[i].assigned \subseteq Segments
<1>1. i \in DOMAIN Plan
  BY RuntimeAssumption
<1> QED
  BY <1>1, RuntimeAssumption

-----------------------------------------------------------------------------
(* The control loop and the actions.                                       *)

LEMMA ControlUpdateRuns ==
    ASSUME Base, ControlUpdate
    PROVE  Runs
<1> DEFINE p == Plan[applied + 1]
           n == ApplyControlPlane(model, p.layout, p.assigned)
           t == Task("control", 0, 0, {}, Emitted(model, n), {})
<1>1. /\ applied < published /\ CanApply(model, p.layout, p.assigned)
      /\ applied' = applied + 1 /\ model' = n /\ tasks' = Add(tasks, t)
      /\ UNCHANGED <<client, app, reconnect, closing, published, broker, left>>
  BY DEF ControlUpdate
<1>2. applied + 1 \in 1..Len(Plan) /\ applied + 1 \in applied..published
  BY <1>1, BaseParts
<1>3. Tends(model, n) /\ n.phase = "Open"
  BY <1>1, <1>2, PlanIs, ApplyTends, BaseParts DEF CanApply
<1>4. IsTask(t) /\ t.acts = Emitted(model, n)
  BY TaskIs
<1> HIDE DEF n, t
<1>5. Manned(n, Add(tasks, t))
  BY <1>3, <1>4, BaseParts, SpawnManned, AgesLater DEF Tends, Carries
<1>6. Dwindles
  BY <1>1, UnspentDwindles
<1> QED
  BY <1>1, <1>2, <1>3, <1>5, <1>6, BaseParts
     DEF Runs, Steady, QueueKept, Tends, client, app

LEMMA ControlFailsRuns ==
    ASSUME Base, ControlFails
    PROVE  Runs
<1>1. Dwindles
  BY SpentDwindles DEF ControlFails, Kinds
<1> QED
  BY <1>1, BaseParts, ResyncRunsAll DEF ControlFails, client

LEMMA ExecOpenRuns ==
    ASSUME Base, NEW t \in tasks, NEW a, ExecOpen(t, a), UNCHANGED <<app, control, left>>
    PROVE  Runs
<1>1. model' = model /\ tasks' = Advance(t, a, {}) /\ Undisturbed
  BY DEF ExecOpen, app, control, Undisturbed
<1>2. Tends(model, model') /\ Dwindles
  BY <1>1, BaseParts, UnspentDwindles
<1> QED
  BY <1>1, <1>2, AdvanceRuns

LEMMA ExecGrantRuns ==
    ASSUME Base, NEW t \in tasks, NEW a, ExecGrant(t, a), UNCHANGED <<app, control, left>>
    PROVE  Runs
<1>1. model' = model /\ tasks' = Advance(t, a, {}) /\ Undisturbed
  BY DEF ExecGrant, app, control, Undisturbed
<1>2. Tends(model, model') /\ Dwindles
  BY <1>1, BaseParts, UnspentDwindles
<1> QED
  BY <1>1, <1>2, AdvanceRuns

(* The child of an action or an open task is closed, if it is still there. *)
Shut(m, s, g) == IF CanChildClosed(m, s, g) THEN ChildClosed(m, s) ELSE m

LEMMA ShutTends ==
    ASSUME NEW m, Ok(m), Dry(m), NEW s, NEW g
    PROVE  Tends(m, Shut(m, s, g))
<1>1. CASE CanChildClosed(m, s, g)
  BY <1>1, ChildClosedTends DEF Shut
<1>2. CASE ~CanChildClosed(m, s, g)
  BY <1>2, TendsSame DEF Shut
<1> QED
  BY <1>1, <1>2

LEMMA ExecCancelRuns ==
    ASSUME Base, NEW t \in tasks, NEW a, ExecCancel(t, a), UNCHANGED <<app, control, left>>
    PROVE  Runs
<1> DEFINE n == Shut(model, a.seg, a.gen)
<1>1. model' = n /\ tasks' = Advance(t, a, Emitted(model, n)) /\ Undisturbed
  BY Zenon DEF ExecCancel, app, control, Undisturbed, Shut
<1>2. Tends(model, n) /\ Dwindles
  BY BaseParts, UnspentDwindles, ShutTends
<1> HIDE DEF n
<1> QED
  BY <1>1, <1>2, AdvanceRuns

LEMMA ExecSeekRuns ==
    ASSUME Base, NEW t \in tasks, NEW a, ExecSeek(t, a), UNCHANGED <<app, control, left>>
    PROVE  Runs
<1> DEFINE n == SeekCompleted(model, a.seg)
<1>1. /\ model' = n /\ tasks' = Advance(t, a, Emitted(model, n)) /\ Undisturbed
      /\ CanSeekCompleted(model, a.seg, a.gen)
  BY DEF ExecSeek, app, control, Undisturbed
<1>2. Tends(model, n) /\ Dwindles
  BY <1>1, BaseParts, UnspentDwindles, SeekCompletedTends
<1> HIDE DEF n
<1> QED
  BY <1>1, <1>2, AdvanceRuns

LEMMA SeekFailsRuns ==
    ASSUME Base, SeekFails
    PROVE  Runs
<1>1. PICK t \in tasks : /\ Spend("faults") \/ UNCHANGED left
                         /\ Resync(tasks \ {t})
                         /\ UNCHANGED <<client, ackCalls, parked, closing, published, applied>>
  BY DEF SeekFails
<1>2. Dwindles
  BY <1>1, SpentDwindles, UnspentDwindles DEF Kinds
<1>3. Manned(model, tasks \ {t})
  BY BaseParts, LessManned
<1> QED
  BY <1>1, <1>2, <1>3, ResyncRunsAll DEF client

LEMMA TryCompleteRuns ==
    ASSUME Base, TryComplete
    PROVE  Runs
<1>0. PICK t \in tasks : \E c :
        LET n == IF CanComplete(model, c[1], c[2])
                 THEN CompleteSegment(model, c[1]) ELSE model
            u == [t EXCEPT !.tries = t.tries \ {c},
                           !.after = IF t.tries = {} THEN t.after \ {c}
                                     ELSE t.after]
        IN  /\ model' = n
            /\ tasks' = Add(Add(tasks \ {t}, u),
                           Task(t.by, t.seg, t.gen, {}, Emitted(model, n), {}))
            /\ UNCHANGED <<client, app, control, broker, left>>
  BY DEF TryComplete
<1>1. PICK c :
        LET n == IF CanComplete(model, c[1], c[2])
                 THEN CompleteSegment(model, c[1]) ELSE model
            u == [t EXCEPT !.tries = t.tries \ {c},
                           !.after = IF t.tries = {} THEN t.after \ {c}
                                     ELSE t.after]
        IN  /\ model' = n
            /\ tasks' = Add(Add(tasks \ {t}, u),
                           Task(t.by, t.seg, t.gen, {}, Emitted(model, n), {}))
            /\ UNCHANGED <<client, app, control, broker, left>>
  BY <1>0
<1> DEFINE n == IF CanComplete(model, c[1], c[2])
                THEN CompleteSegment(model, c[1]) ELSE model
           y == IF t.tries = {} THEN t.after \ {c} ELSE t.after
           u == [t EXCEPT !.tries = t.tries \ {c}, !.after = y]
           v == Task(t.by, t.seg, t.gen, {}, Emitted(model, n), {})
<1>2. /\ model' = n /\ tasks' = Add(Add(tasks \ {t}, u), v) /\ Undisturbed
      /\ UNCHANGED left
  BY <1>1 DEF client, app, control, Undisturbed
<1>3. Tends(model, n) /\ Dwindles
  BY <1>2, BaseParts, UnspentDwindles, CompleteTends
<1>4. IsTask(t) /\ \A a \in t.acts : Actable(model, a)
  BY BaseParts DEF Manned
<1>5. IsTask(u) /\ u.acts = t.acts
  <2> DEFINE x == t.tries \ {c}
  <2>1. u = Offering(t, x, y)
    BY DEF Offering
  <2> HIDE DEF u, x, y
  <2> QED
    BY <1>4, <2>1, SetOffers
<1>6. IsTask(v) /\ v.acts = Emitted(model, n)
  BY TaskIs
<1> HIDE DEF n, u, v
<1>7. Manned(model, Add(tasks \ {t}, u))
  BY <1>4, <1>5, AddManned, LessManned, BaseParts
<1>8. Manned(n, Add(Add(tasks \ {t}, u), v))
  BY <1>3, <1>6, <1>7, BaseParts, SpawnManned, AgesLater DEF Tends, Carries
<1> QED
  BY <1>2, <1>3, <1>8, TendsRuns

LEMMA SpawnActionsRuns ==
    ASSUME Base, SpawnActions
    PROVE  Runs
<1>1. PICK t \in tasks : /\ \/ tasks' = Add(tasks \ {t}, Free(t.acts))
                            \/ tasks' = tasks \ {t}
                         /\ UNCHANGED <<model, client, app, reconnect, closing,
                                        published, applied, left>>
  BY Zenon DEF SpawnActions
<1> DEFINE u == Free(t.acts)
<1>2. IsTask(u) /\ u.acts = t.acts
  BY FreeIs
<1>3. tasks' = Add(tasks \ {t}, u) \/ tasks' = tasks \ {t}
  BY <1>1
<1> HIDE DEF u
<1>4. \A a \in u.acts : Actable(model, a)
  BY <1>2, BaseParts DEF Manned
<1>5. Manned(model, tasks \ {t}) /\ Manned(model, Add(tasks \ {t}, u))
  BY <1>2, <1>4, AddManned, LessManned, BaseParts
<1>6. model' = model /\ Undisturbed /\ UNCHANGED left
  BY <1>1 DEF client, app, Undisturbed
<1> QED
  BY <1>3, <1>5, <1>6, BaseParts, UnspentDwindles, TendsRuns

LEMMA DropCloseRuns ==
    ASSUME Base, DropClose
    PROVE  Runs
<1>1. PICK t \in tasks : /\ Spend("drops") /\ tasks' = tasks \ {t}
                         /\ UNCHANGED <<model, attached, app, reconnect, closing,
                                        published, applied>>
  BY DEF DropClose
<1>2. Manned(model, tasks \ {t})
  BY LessManned, BaseParts
<1>3. model' = model /\ Undisturbed
  BY <1>1 DEF app, Undisturbed
<1>4. Dwindles
  BY <1>1, SpentDwindles DEF Kinds
<1> QED
  BY <1>1, <1>2, <1>3, <1>4, BaseParts, TendsRuns

-----------------------------------------------------------------------------
(* Open tasks, child loops, the application's other calls, the broker.     *)

LEMMA BrokerAttachRuns ==
    ASSUME Base, BrokerAttach
    PROVE  Runs
<1>1. model' = model /\ tasks' = tasks /\ Undisturbed /\ UNCHANGED left
  BY DEF BrokerAttach, app, control, Undisturbed
<1> QED
  BY <1>1, BaseParts, UnspentDwindles, TendsRuns

LEMMA CancelledOpenRuns ==
    ASSUME Base, NEW o, CancelledOpen(o), Undisturbed, UNCHANGED left
    PROVE  Runs
<1> DEFINE n == Shut(model, o.seg, o.gen)
           t == Free(Emitted(model, n))
<1>1. model' = n /\ tasks' = Add(tasks, t)
  BY Zenon DEF CancelledOpen, Shut
<1>2. Tends(model, n) /\ Dwindles
  BY BaseParts, UnspentDwindles, ShutTends
<1>3. IsTask(t) /\ t.acts = Emitted(model, n)
  BY FreeIs
<1> HIDE DEF n, t
<1> QED
  BY <1>1, <1>2, <1>3, SpawnRuns

OpenStep(o) ==
    LET n == ChildOpened(model, o.seg)
    IN  /\ OpenCurrent(o) /\ o.attached /\ model' = n
        /\ attached' = [attached EXCEPT ![o.seg] = o.gen]
        /\ tasks' = Add(tasks, Free(Emitted(model, n)))
        /\ UNCHANGED broker
        /\ opens' = opens \ {o}
        /\ UNCHANGED <<flowRes, arriving, app, control, left>>

LEMMA OpenReturnsIs ==
    ASSUME Base, OpenReturns
    PROVE  Runs \/ \E o \in opens : OpenStep(o)
<1>1. PICK o \in opens :
        /\ opens' = opens \ {o}
        /\ IF OpenCurrent(o)
           THEN LET n == ChildOpened(model, o.seg)
                IN  /\ o.attached
                    /\ model' = n
                    /\ attached' = [attached EXCEPT ![o.seg] = o.gen]
                    /\ tasks' = Add(tasks, Free(Emitted(model, n)))
                    /\ UNCHANGED broker
           ELSE /\ CancelledOpen(o)
                /\ broker' = IF o.attached
                             THEN AtBroker(o.seg, Detached(broker[o.seg]))
                             ELSE broker
                /\ UNCHANGED attached
        /\ UNCHANGED <<flowRes, arriving, app, control, left>>
  BY DEF OpenReturns
<1>2. CASE OpenCurrent(o)
  BY <1>1, <1>2 DEF OpenStep
<1>3. CASE ~OpenCurrent(o)
  <2>1. CancelledOpen(o) /\ Undisturbed /\ UNCHANGED left
    BY <1>1, <1>3 DEF Undisturbed, app, control
  <2> QED
    BY <2>1, CancelledOpenRuns
<1> QED
  BY <1>2, <1>3

LEMMA OpenBusyRuns ==
    ASSUME Base, OpenBusy
    PROVE  Runs
<1>1. PICK o \in opens :
        /\ OpenCurrent(o) /\ model' = ChildOpenBusy(model, o.seg)
        /\ UNCHANGED <<tasks, client, app, control, broker, left>>
  BY DEF OpenBusy
<1>2. model.phase = "Open"
  <2>1. o.seg \in DOMAIN model.children /\ model.children[o.seg].phase # "Closing"
    BY <1>1 DEF OpenCurrent, Has
  <2> QED
    BY <2>1, BaseParts, OkParts DEF Phased
<1>3. Tends(model, model') /\ Dwindles
  BY <1>1, <1>2, BusyTends, BaseParts, UnspentDwindles
<1>4. Manned(model', tasks')
  <2>1. Ok(model') /\ Later(model, model') /\ tasks' = tasks
    BY <1>1, <1>3, AgesLater DEF Tends, Carries
  <2> QED
    BY <2>1, BaseParts, MannedLater
<1> QED
  BY <1>1, <1>3, <1>4, TendsRuns DEF Undisturbed, client, app, control

LEMMA OpenFailsRuns ==
    ASSUME Base, OpenFails
    PROVE  Runs
<1>1. PICK o \in opens :
        /\ Spend("faults") /\ Resync(tasks)
        /\ UNCHANGED <<attached, ackCalls, parked, closing, published, applied>>
  BY DEF OpenFails
<1>2. Dwindles
  BY <1>1, SpentDwindles DEF Kinds
<1> QED
  BY <1>1, <1>2, BaseParts, ResyncRunsAll

LEMMA LoopReceiveRuns ==
    ASSUME Base, NEW s \in Segments, LoopReceive(s)
    PROVE  Runs
<1> DEFINE g == attached[s]
           f == Head(broker[s].wire)
           grant == [op |-> "grant", seg |-> s, gen |-> g,
                     inc |-> model.children[s].inc, epoch |-> model.epoch]
           t == Task("loop", s, g, {}, {grant}, {})
<1>0. /\ LoopFree(s)
      /\ UNCHANGED <<opens, attached, ackCalls, parked, closing, published, applied, left>>
      /\ \/ /\ CanBufferChunk(model, s, g) /\ model' = BufferChunk(model, s)
            /\ tasks' = Add(tasks, t) /\ UNCHANGED <<arriving, reconnect, queue>>
         \/ /\ Msg(s, f.id) \in Transformed => CanReserveWork(model, s, g)
            /\ model' = IF Msg(s, f.id) \in Transformed
                        THEN ReserveWork(model, s) ELSE model
            /\ UNCHANGED <<tasks, reconnect, queue>>
         \/ Resync(tasks) /\ UNCHANGED arriving
  BY DEF LoopReceive
<1>1. Dwindles
  BY <1>0, UnspentDwindles
<1>2. CASE /\ CanBufferChunk(model, s, g) /\ model' = BufferChunk(model, s)
           /\ tasks' = Add(tasks, t) /\ UNCHANGED <<arriving, reconnect, queue>>
  <2>1. Tends(model, model')
    BY <1>2, BufferChunkTends, BaseParts
  <2>2. IsTask(t) /\ t.acts = {grant} /\ grant.op = "grant" /\ grant.seg = s
        /\ grant.gen = g
    BY TaskIs
  <2>3. Ok(model') /\ Later(model, model')
    BY <2>1, AgesLater DEF Tends, Carries
  <2>4. g \in Nat /\ g < model.nextGen
    BY DEF Base, Lodged
  <2> HIDE DEF t, grant, g
  <2>5. Actable(model, grant)
    BY <2>2, <2>4 DEF Actable
  <2>6. \A a \in t.acts : Actable(model', a)
    BY <2>2, <2>3, <2>5, ActableLater, BaseParts
  <2>7. Manned(model', tasks')
    BY <1>2, <2>2, <2>3, <2>6, AddManned, MannedLater, BaseParts
  <2> QED
    BY <1>0, <1>1, <1>2, <2>1, <2>7, TendsRuns DEF Undisturbed
<1>3. CASE /\ Msg(s, f.id) \in Transformed => CanReserveWork(model, s, g)
           /\ model' = IF Msg(s, f.id) \in Transformed
                       THEN ReserveWork(model, s) ELSE model
           /\ UNCHANGED <<tasks, reconnect, queue>>
  <2>1. Tends(model, model')
    BY <1>3, ReserveWorkTends, BaseParts
  <2>2. Ok(model') /\ Later(model, model')
    BY <2>1, AgesLater DEF Tends, Carries
  <2>3. Manned(model', tasks')
    BY <1>3, <2>2, MannedLater, BaseParts
  <2> QED
    BY <1>0, <1>1, <1>3, <2>1, <2>3, TendsRuns DEF Undisturbed
<1>4. CASE Resync(tasks)
  BY <1>0, <1>1, <1>4, BaseParts, ResyncRunsAll
<1> QED
  BY <1>0, <1>2, <1>3, <1>4

LEMMA LoopTerminalRuns ==
    ASSUME Base, NEW s \in Segments, LoopTerminal(s)
    PROVE  Runs
<1> DEFINE g == attached[s]
           n == IF CanObserveTerminal(model, s, g) THEN ObserveTerminal(model, s)
                ELSE model
           t == Task("loop", s, g, {}, Emitted(model, n), {<<s, g>>})
<1>1. /\ model' = n /\ tasks' = Add(tasks, t) /\ Undisturbed /\ UNCHANGED left
  BY Zenon DEF LoopTerminal, client, app, Undisturbed
<1>2. Tends(model, n) /\ Dwindles
  BY <1>1, BaseParts, UnspentDwindles, TerminalTends
<1>3. IsTask(t) /\ t.acts = Emitted(model, n)
  BY TaskIs
<1> HIDE DEF n, t
<1> QED
  BY <1>1, <1>2, <1>3, SpawnRuns

LEMMA LoopFailsRuns ==
    ASSUME Base, NEW s, LoopFails(s)
    PROVE  Runs
<1>1. Dwindles
  BY SpentDwindles DEF LoopFails, Kinds
<1> QED
  BY <1>1, BaseParts, ResyncRunsAll DEF LoopFails, client

LEMMA NegativeAcknowledgeRuns ==
    ASSUME Base, NegativeAcknowledge
    PROVE  Runs
<1>1. PICK t \in held :
        LET n == ResolveLeases(model, {t.seq})
        IN  /\ Spend("nacks") /\ model' = n
            /\ tasks' = Add(tasks, Handoff(Emitted(model, n)))
            /\ UNCHANGED <<client, queue, ackCalls, parked, control>>
  BY DEF NegativeAcknowledge
<1> DEFINE n == ResolveLeases(model, {t.seq})
           u == Handoff(Emitted(model, n))
<1>2. Tends(model, n) /\ Dwindles
  BY <1>1, BaseParts, SpentDwindles, ResolveTends DEF Kinds
<1>3. IsTask(u) /\ u.acts = Emitted(model, n)
  BY HandoffIs
<1>4. model' = n /\ Undisturbed /\ tasks' = Add(tasks, u)
  BY <1>1 DEF Undisturbed, client, control
<1> HIDE DEF n, u
<1> QED
  BY <1>2, <1>3, <1>4, SpawnRuns

LEMMA SeekPositionsRuns ==
    ASSUME Base, SeekPositions
    PROVE  Runs
<1> DEFINE n == BeginSeek(model)
           t == ByHand("app", Emitted(model, n))
<1>1. /\ CanSeek(model) /\ Spend("seeks") /\ model' = n /\ tasks' = Add(tasks, t)
      /\ Undisturbed
  BY DEF SeekPositions, app, control, Undisturbed
<1>2. Tends(model, n) /\ Dwindles
  BY <1>1, BaseParts, SpentDwindles, BeginSeekTends DEF Kinds
<1>3. IsTask(t) /\ t.acts = Emitted(model, n)
  BY ByHandIs
<1> HIDE DEF n, t
<1> QED
  BY <1>1, <1>2, <1>3, SpawnRuns

LEMMA EnvironmentRuns ==
    ASSUME Base, Environment
    PROVE  Runs
<1>1. CASE Publish
  <2>1. /\ published < Len(Plan) /\ published' = published + 1 /\ applied' = applied
        /\ model' = model /\ tasks' = tasks /\ queue' = queue /\ parked' = parked
        /\ ackCalls' = ackCalls /\ attached' = attached /\ closing' = closing
        /\ reconnect' = reconnect /\ left' = left
    BY <1>1 DEF Publish, client, app
  <2>2. published' \in published..Len(Plan) /\ applied' \in applied..published'
    BY <2>1, BaseParts
  <2>3. Dwindles
    BY <2>1, UnspentDwindles
  <2> QED
    BY <2>1, <2>2, <2>3, BaseParts DEF Runs, Steady, QueueKept, Tends
<1>2. CASE \E s \in Segments : Dispatch(s) \/ EndOfTopic(s)
  <2>1. model' = model /\ tasks' = tasks /\ Undisturbed /\ UNCHANGED left
    BY <1>2 DEF Dispatch, EndOfTopic, client, app, control, Undisturbed
  <2> QED
    BY <2>1, BaseParts, UnspentDwindles, TendsRuns
<1> QED
  BY <1>1, <1>2 DEF Environment

-----------------------------------------------------------------------------
(* Acknowledgements.                                                       *)

NewCall(op, txn) ==
    [op |-> op, txn |-> txn, left |-> op.comps, done |-> {}, failed |-> FALSE]

(* No child changes its phase or its flow. *)
Unmoved(m, n) ==
    /\ DOMAIN n.children = DOMAIN m.children
    /\ \A s \in DOMAIN m.children :
         /\ n.children[s].gen = m.children[s].gen
         /\ n.children[s].phase = m.children[s].phase
         /\ n.children[s].flow = m.children[s].flow

(* An operation with a new number is admitted, and a call runs it. *)
Admits(op, txn) ==
    /\ op.id = model.nextOp /\ model'.nextOp = model.nextOp + 1
    /\ model.phase = "Open" /\ model'.phase = "Open"
    /\ op \notin model.ops /\ model'.ops = model.ops \cup {op}
    /\ ackCalls' = ackCalls \cup {NewCall(op, txn)} /\ parked' = parked
    /\ Unmoved(model, model')

LEMMA BeginIs ==
    ASSUME Base, model.phase = "Open", NEW comps, NEW leases, NEW txn,
           \A c \in comps : /\ Has(model, c.seg, c.gen)
                            /\ model.children[c.seg].phase \notin {"Opening", "Closing"},
           Begin(Admit(model, comps, leases, txn # "none"), txn), Dwindles
    PROVE  Steady /\ QueueKept /\ \E op : Admits(op, txn)
<1> DEFINE b  == (txn # "none")
           n  == Admit(model, comps, leases, b)
           op == AdmittedOp(model, comps, leases, b)
           o  == CHOOSE x \in n.ops : x.id = model.nextOp
<1>0. b \in BOOLEAN
  OBVIOUS
<1>1. /\ model' = n
      /\ ackCalls' = ackCalls \cup {[op |-> o, txn |-> txn, left |-> o.comps,
                                     done |-> {}, failed |-> FALSE]}
      /\ UNCHANGED <<tasks, client, queue, parked, control>>
  BY DEF Begin
<1>2. op.id = model.nextOp
  BY DEF AdmittedOp
<1> HIDE DEF b, op
<1>3. /\ n.ops = model.ops \cup {op} /\ op \notin model.ops
      /\ n.nextOp = model.nextOp + 1 /\ n.phase = model.phase
      /\ \A x \in n.ops : x.id = model.nextOp => x = op
      /\ DOMAIN n.children = DOMAIN model.children
      /\ \A s \in DOMAIN model.children : Twins(model.children[s], n.children[s])
  BY <1>0, AdmitGoes, BaseParts DEF op
<1>4. Carries(model, n)
  BY <1>0, AdmitCarries, BaseParts
<1> HIDE DEF n
<1>5. o = op
  <2>1. op \in n.ops
    BY <1>3
  <2>2. o \in n.ops /\ o.id = model.nextOp
    BY <1>2, <2>1
  <2> QED
    BY <1>3, <2>2
<1> HIDE DEF o
<1>6. Manned(model', tasks')
  BY <1>1, <1>4, AgesLater, MannedLater, BaseParts DEF Carries
<1>7. Steady /\ QueueKept
  BY <1>1, <1>3, <1>4, <1>6, BaseParts DEF Steady, QueueKept, client, control
<1>8. Admits(op, txn)
  <2>1. Unmoved(model, n)
    BY <1>3 DEF Unmoved, Twins
  <2> QED
    BY <1>1, <1>2, <1>3, <1>5, <2>1 DEF Admits, NewCall
<1> QED
  BY <1>7, <1>8

LEMMA ValidTokenIs ==
    ASSUME NEW m, Ok(m), NEW t, ValidToken(m, t)
    PROVE  /\ m.phase = "Open" /\ t.seg \in DOMAIN m.children
           /\ m.children[t.seg].gen = t.gen
           /\ m.children[t.seg].phase \notin {"Opening", "Closing"}
<1>1. /\ m.phase = "Open" /\ Has(m, t.seg, t.gen)
      /\ m.children[t.seg].phase # "Closing"
  BY DEF ValidToken
<1>2. PICK d \in m.live : d.seg = t.seg /\ d.gen = t.gen
  BY DEF ValidToken
<1>3. d \in Leases(m, t.seg)
  BY <1>1, <1>2 DEF Leases, Has
<1>4. IsFiniteSet(Leases(m, t.seg)) /\ Cardinality(Leases(m, t.seg)) \in Nat
  BY OkParts, LeasesFinite
<1>5. Cardinality(Leases(m, t.seg)) # 0
  BY <1>3, <1>4, FS_EmptySet
<1>6. m.children[t.seg].deliveries = Cardinality(Leases(m, t.seg))
  BY <1>1, OkParts DEF Leased, Has
<1>7. Good(m.children[t.seg])
  BY <1>1, OkParts DEF Has
<1> QED
  BY <1>1, <1>5, <1>6, <1>7 DEF Good, Shaped, Has

LEMMA ComponentIs ==
    ASSUME NEW m, NEW s, NEW ids, NEW cum, NEW upTo
    PROVE  LET c == Component(m, s, ids, cum, upTo)
           IN  c.seg = s /\ c.gen = m.children[s].gen
  BY DEF Component

LEMMA AdmitTokensIs ==
    ASSUME Base, NEW T, NEW txn, AdmitTokens(T, txn), Dwindles
    PROVE  T # {} => Steady /\ QueueKept /\ \E op : Admits(op, txn)
<1> SUFFICES ASSUME T # {}
             PROVE  Steady /\ QueueKept /\ \E op : Admits(op, txn)
  OBVIOUS
<1> DEFINE ids(s) == {t.id : t \in {x \in T : x.seg = s}}
           comps == {Component(model, s, ids(s), FALSE, 0) : s \in {t.seg : t \in T}}
           seqs == {t.seq : t \in T}
<1>1. /\ \A t \in T : ValidToken(model, t)
      /\ Begin(Admit(model, comps, seqs, txn # "none"), txn)
  BY DEF AdmitTokens
<1>2. \A t \in T : /\ model.phase = "Open" /\ t.seg \in DOMAIN model.children
                   /\ model.children[t.seg].phase \notin {"Opening", "Closing"}
  BY <1>1, ValidTokenIs, BaseParts
<1>3. ASSUME NEW c \in comps
      PROVE  /\ Has(model, c.seg, c.gen)
             /\ model.children[c.seg].phase \notin {"Opening", "Closing"}
  <2>1. PICK t \in T : \E i, cum, u : c = Component(model, t.seg, i, cum, u)
    BY Zenon
  <2> HIDE DEF comps, ids
  <2>2. c.seg = t.seg /\ c.gen = model.children[t.seg].gen
    BY <2>1, ComponentIs
  <2> QED
    BY <1>2, <2>2 DEF Has
<1> HIDE DEF comps, seqs
<1>4. model.phase = "Open"
  BY <1>2
<1> QED
  BY <1>1, <1>3, <1>4, BeginIs

LEMMA PositionIs ==
    ASSUME NEW m, NEW vec, Representable(m, vec), NEW c \in PositionComponents(m, vec)
    PROVE  /\ Has(m, c.seg, c.gen)
           /\ m.children[c.seg].phase \notin {"Opening", "Closing"}
<1>1. PICK s \in DOMAIN vec : \E i : c = Component(m, s, i, ~m.children[s].shared, vec[s])
  BY Zenon DEF PositionComponents
<1>2. c.seg = s /\ c.gen = m.children[s].gen
  BY <1>1, ComponentIs
<1> QED
  BY <1>2 DEF Representable, Has

LEMMA AdmitVectorIs ==
    ASSUME Base, NEW t, NEW txn, AdmitVector(t, txn), Dwindles
    PROVE  Steady /\ QueueKept /\ \E op : Admits(op, txn)
<1> DEFINE comps == PositionComponents(model, t.vec)
           seqs == CoveredBy(model, comps)
<1>1. /\ model.phase = "Open" /\ Representable(model, t.vec)
      /\ Begin(Admit(model, comps, seqs, txn # "none"), txn)
  BY DEF AdmitVector
<1>2. \A c \in comps : /\ Has(model, c.seg, c.gen)
                       /\ model.children[c.seg].phase \notin {"Opening", "Closing"}
  BY <1>1, PositionIs
<1> HIDE DEF comps, seqs
<1> QED
  BY <1>1, <1>2, BeginIs

(* The three ways an application acknowledges. *)
LEMMA AcknowledgesIs ==
    ASSUME Base, Acknowledge \/ AcknowledgeCumulative \/ AcknowledgeInTransaction
    PROVE  /\ Steady /\ QueueKept
           /\ \E op, txn : /\ Admits(op, txn)
                           /\ txn = "none" \/ left'.txnAcks < left.txnAcks
<1>1. CASE Acknowledge
  <2>1. PICK T \in SUBSET held : T # {} /\ AdmitTokens(T, "none") /\ UNCHANGED left
    BY <1>1 DEF Acknowledge
  <2> QED
    BY <2>1, UnspentDwindles, AdmitTokensIs
<1>2. CASE AcknowledgeCumulative
  <2>1. PICK t \in held : AdmitVector(t, "none")
    BY <1>2 DEF AcknowledgeCumulative
  <2>2. Dwindles
    BY <1>2, SpentDwindles DEF AcknowledgeCumulative, Kinds
  <2> QED
    BY <2>1, <2>2, AdmitVectorIs
<1>3. CASE AcknowledgeInTransaction
  <2>1. PICK x \in Txns, t \in held : /\ Spend("txnAcks")
                                      /\ AdmitTokens({t}, x) \/ AdmitVector(t, x)
    BY <1>3 DEF AcknowledgeInTransaction
  <2>2. Dwindles
    BY <2>1, SpentDwindles DEF Kinds
  <2>5. left'.txnAcks < left.txnAcks
    BY <2>1, BaseParts DEF Kinds, Spend
  <2>3. {t} # {}
    OBVIOUS
  <2>4. Steady /\ QueueKept /\ \E op : Admits(op, x)
    BY <2>1, <2>2, <2>3, AdmitTokensIs, AdmitVectorIs
  <2> QED
    BY <2>4, <2>5
<1> QED
  BY <1>1, <1>2, <1>3

(* Whatever is admitted can be settled. *)
LEMMA AdmittedSettles ==
    ASSUME NEW m, Ok(m), NEW op
    PROVE  CanSettle(m, op) <=> op \in m.ops
<1>1. ASSUME op \in m.ops PROVE CanSettle(m, op)
  <2>1. m.phase = "Open"
    BY <1>1, OkParts DEF Phased
  <2>2. \A c \in op.comps : Has(m, c.seg, c.gen)
    BY <1>1, OkParts DEF Counted
  <2> QED
    BY <1>1, <2>1, <2>2 DEF CanSettle
<1> QED
  BY <1>1 DEF CanSettle

(* A call ends and its operation with it. *)
Settles(c) ==
    /\ c \in ackCalls /\ ackCalls' = ackCalls \ {c} /\ parked' = parked
    /\ model'.nextOp = model.nextOp /\ model'.ops = model.ops \ {c.op}
    /\ model'.phase = model.phase

LEMMA SettleStepIs ==
    ASSUME Base, NEW c \in ackCalls, NEW S, NEW t, IsTask(t),
           t.acts \subseteq Emitted(model, Settle(model, c.op, S)),
           ackCalls' = ackCalls \ {c},
           IF CanSettle(model, c.op)
           THEN /\ model' = Settle(model, c.op, S)
                /\ tasks' = Add(tasks, t) \/ tasks' = tasks
           ELSE UNCHANGED <<model, tasks>>,
           UNCHANGED <<client, queue, parked, control>>, Dwindles
    PROVE  Steady /\ QueueKept /\ Settles(c)
<1> DEFINE n == Settle(model, c.op, S)
<1>1. CASE CanSettle(model, c.op)
  <2>1. /\ n.ops = model.ops \ {c.op} /\ n.nextOp = model.nextOp /\ n.phase = model.phase
    BY <1>1, SettleGoes, BaseParts
  <2>2. Carries(model, n)
    BY <1>1, SettleSettles, SettleCarries, BaseParts
  <2>3. model' = n /\ (tasks' = Add(tasks, t) \/ tasks' = tasks)
    BY <1>1
  <2> HIDE DEF n
  <2>4. Ok(n) /\ Later(model, n)
    BY <2>2, AgesLater DEF Carries
  <2>5. Manned(n, tasks) /\ Manned(n, Add(tasks, t))
    BY <2>4, MannedLater, SpawnManned, BaseParts DEF n
  <2> QED
    BY <2>1, <2>2, <2>3, <2>5, BaseParts
       DEF Steady, QueueKept, Settles, client, control
<1>2. CASE ~CanSettle(model, c.op)
  <2>1. c.op \notin model.ops
    BY <1>2, AdmittedSettles, BaseParts
  <2>2. model.ops \ {c.op} = model.ops /\ model' = model /\ tasks' = tasks
    BY <1>2, <2>1
  <2> QED
    BY <2>2, BaseParts DEF Steady, QueueKept, Settles, client, control
<1> QED
  BY <1>1, <1>2

LEMMA SettleAckIs ==
    ASSUME Base, SettleAck
    PROVE  Steady /\ QueueKept /\ \E c \in ackCalls : Settles(c)
<1>1. PICK c \in ackCalls :
        LET n == Settle(model, c.op, c.done)
            tries == {<<p.seg, p.gen>> : p \in c.op.comps}
        IN  /\ ackCalls' = ackCalls \ {c}
            /\ IF CanSettle(model, c.op)
               THEN /\ model' = n
                    /\ tasks' = Add(tasks, Task("app", 0, 0, tries,
                                                Emitted(model, n), {}))
               ELSE UNCHANGED <<model, tasks>>
            /\ UNCHANGED <<client, queue, parked, control, left>>
  BY DEF SettleAck
<1> DEFINE n == Settle(model, c.op, c.done)
           tries == {<<p.seg, p.gen>> : p \in c.op.comps}
           t == Task("app", 0, 0, tries, Emitted(model, n), {})
<1>2. IsTask(t) /\ t.acts = Emitted(model, n)
  BY TaskIs
<1>3. Dwindles
  BY <1>1, UnspentDwindles
<1>4. /\ ackCalls' = ackCalls \ {c}
      /\ IF CanSettle(model, c.op) THEN model' = n /\ tasks' = Add(tasks, t)
         ELSE UNCHANGED <<model, tasks>>
      /\ UNCHANGED <<client, queue, parked, control>>
  BY <1>1
<1> HIDE DEF t
<1> QED
  BY <1>2, <1>3, <1>4, SettleStepIs

LEMMA AbandonAckIs ==
    ASSUME Base, AbandonAck
    PROVE  Steady /\ QueueKept /\ \E c \in ackCalls : Settles(c)
<1>1. PICK c \in ackCalls, by \in {"app", "handoff"} :
        LET n == Settle(model, c.op, {})
        IN  /\ UNCHANGED left \/ Spend("drops")
            /\ ackCalls' = ackCalls \ {c}
            /\ IF CanSettle(model, c.op)
               THEN /\ model' = n
                    /\ tasks' = Add(tasks, ByHand(by, Emitted(model, n)))
               ELSE UNCHANGED <<model, tasks>>
            /\ UNCHANGED <<client, queue, parked, control>>
  BY DEF AbandonAck
<1> DEFINE n == Settle(model, c.op, {})
           t == ByHand(by, Emitted(model, n))
<1>2. IsTask(t) /\ t.acts = Emitted(model, n)
  BY ByHandIs
<1>3. Dwindles
  BY <1>1, UnspentDwindles, SpentDwindles DEF Kinds
<1>4. /\ ackCalls' = ackCalls \ {c}
      /\ IF CanSettle(model, c.op)
         THEN model' = n /\ tasks' = Add(tasks, t)
         ELSE UNCHANGED <<model, tasks>>
      /\ UNCHANGED <<client, queue, parked, control>>
  BY <1>1
<1> HIDE DEF t
<1> QED
  BY <1>2, <1>3, <1>4, SettleStepIs

(* A call makes progress, or hands its authority to its transaction. *)
Answered(c, L, X, f) == [c EXCEPT !.left = L, !.done = X, !.failed = f]

Answers ==
    \E c \in ackCalls : \E L, X, f :
       ackCalls' = (ackCalls \ {c}) \cup {Answered(c, L, X, f)}

LEMMA AckComponentIs ==
    ASSUME Base, AckComponent
    PROVE  Steady /\ QueueKept /\ model' = model /\ parked' = parked /\ Answers
<1>1. /\ UNCHANGED <<model, tasks, client, queue, parked, control>>
      /\ UNCHANGED left \/ Spend("faults")
  BY Zenon DEF AckComponent
<1>2. Dwindles
  BY <1>1, UnspentDwindles, SpentDwindles DEF Kinds
<1>3. Answers
  <2>0. PICK c \in ackCalls : \E p \in c.left :
          \/ ackCalls' = (ackCalls \ {c}) \cup
               {[c EXCEPT !.left = c.left \ {p}, !.done = c.done \cup {p.seg},
                          !.failed = c.failed \/ FALSE]}
          \/ ackCalls' = (ackCalls \ {c}) \cup
               {[c EXCEPT !.left = c.left \ {p}, !.done = c.done \cup {},
                          !.failed = c.failed \/ TRUE]}
    BY Zenon DEF AckComponent
  <2>1. PICK p \in c.left :
          \/ ackCalls' = (ackCalls \ {c}) \cup
               {[c EXCEPT !.left = c.left \ {p}, !.done = c.done \cup {p.seg},
                          !.failed = c.failed \/ FALSE]}
          \/ ackCalls' = (ackCalls \ {c}) \cup
               {[c EXCEPT !.left = c.left \ {p}, !.done = c.done \cup {},
                          !.failed = c.failed \/ TRUE]}
    BY Zenon, <2>0
  <2>2. CASE ackCalls' = (ackCalls \ {c}) \cup
               {[c EXCEPT !.left = c.left \ {p}, !.done = c.done \cup {p.seg},
                          !.failed = c.failed \/ FALSE]}
    <3>1. ackCalls' = (ackCalls \ {c}) \cup
                        {Answered(c, c.left \ {p}, c.done \cup {p.seg}, c.failed \/ FALSE)}
      BY Zenon, <2>2 DEF Answered
    <3> QED
      BY Zenon, <3>1 DEF Answers
  <2>3. CASE ackCalls' = (ackCalls \ {c}) \cup
               {[c EXCEPT !.left = c.left \ {p}, !.done = c.done \cup {},
                          !.failed = c.failed \/ TRUE]}
    <3>1. ackCalls' = (ackCalls \ {c}) \cup
                        {Answered(c, c.left \ {p}, c.done \cup {}, c.failed \/ TRUE)}
      BY Zenon, <2>3 DEF Answered
    <3> QED
      BY Zenon, <3>1 DEF Answers
  <2> QED
    BY <2>1, <2>2, <2>3
<1> QED
  BY <1>1, <1>2, <1>3, BaseParts DEF Steady, QueueKept, client, control

Parks ==
    \E c \in ackCalls :
        /\ c.txn # "none" /\ ackCalls' = ackCalls \ {c}
        /\ parked' = IF closing = "Open"
                     THEN Append(parked, [txn |-> c.txn, op |-> c.op])
                     ELSE parked

LEMMA IsSeqAppend ==
    ASSUME NEW q, IsSeq(q), NEW e
    PROVE  /\ IsSeq(Append(q, e)) /\ Len(Append(q, e)) = Len(q) + 1
           /\ \A i \in 1..Len(q) : Append(q, e)[i] = q[i]
           /\ Append(q, e)[Len(q) + 1] = e
<1>1. PICK S : q \in Seq(S)
  BY DEF IsSeq
<1>2. q \in Seq(S \cup {e}) /\ e \in S \cup {e}
  <2>1. q \in [1..Len(q) -> S] /\ Len(q) \in Nat
    BY <1>1
  <2>2. q \in [1..Len(q) -> S \cup {e}]
    BY <2>1
  <2> QED
    BY <2>1, <2>2, SeqDef
<1>3. Append(q, e) \in Seq(S \cup {e})
  BY <1>2
<1> QED
  BY <1>2, <1>3 DEF IsSeq

LEMMA ParkTxnAckIs ==
    ASSUME Base, ParkTxnAck
    PROVE  Steady /\ QueueKept /\ model' = model /\ Parks
<1>1. /\ UNCHANGED <<model, tasks, client, queue, control, left>> /\ Parks
  BY DEF ParkTxnAck, Parks
<1>2. IsSeq(parked')
  BY <1>1, IsSeqAppend, BaseParts DEF Parks
<1>3. Dwindles
  BY <1>1, UnspentDwindles
<1> QED
  BY <1>1, <1>2, <1>3, BaseParts DEF Steady, QueueKept, client, control

-----------------------------------------------------------------------------
(* The steps that are not steady.                                          *)

(* A step that keeps the queue, the stock and the operations in step. *)
Shifts ==
    /\ Base' /\ QueueKept /\ Keeps(model, model') /\ OpsKept(model, model')
    /\ Dwindles /\ ackCalls' = ackCalls
    /\ model'.phase = "Open" => model.phase = "Open"
    /\ parked' = parked \/ (parked' = <<>> /\ model'.phase # "Open")

LEMMA RunsShifts ==
    ASSUME Base, Runs
    PROVE  Shifts
<1>1. Base'
  BY SteadyBase DEF Runs
<1>2. Keeps(model, model') /\ (model'.phase = "Open" => model.phase = "Open")
  BY DEF Runs, Steady, Carries, Onward
<1> QED
  BY <1>1, <1>2 DEF Runs, Shifts, Steady

LEMMA DriftsAged ==
    ASSUME NEW m, NEW n, NEW X, Drifts(m, n, X), NEW s \in DOMAIN n.children, s \notin X
    PROVE  Aged(m, n, s)
<1>1. CASE s \in DOMAIN m.children
  <2>1. Moves(m.children[s], n.children[s])
    BY <1>1 DEF Drifts
  <2> QED
    BY <1>1, <2>1, MovesLives DEF Aged, Moves
<1>2. CASE s \notin DOMAIN m.children
  <2>1. /\ Fresh(n.children[s]) /\ n.children[s].gen >= m.nextGen
        /\ n.children[s].inc = n.inc
    BY <1>2 DEF Drifts
  <2> QED
    BY <2>1 DEF Aged, Fresh, Lives
<1> QED
  BY <1>1, <1>2

LEMMA OpenStepShifts ==
    ASSUME Base, NEW o \in opens, OpenStep(o)
    PROVE  Shifts
<1> DEFINE s == o.seg
           n == ChildOpened(model, s)
           t == Free(Emitted(model, n))
<1>1. /\ s \in DOMAIN model.children /\ model.children[s].gen = o.gen
      /\ model.children[s].phase = "Opening" /\ closing = "Open"
  BY DEF OpenStep, OpenCurrent, Has
<1>2. /\ model' = n /\ tasks' = Add(tasks, t)
      /\ attached' = [attached EXCEPT ![s] = o.gen]
      /\ UNCHANGED <<queue, ackCalls, parked, reconnect, closing, published, applied, left>>
  BY DEF OpenStep, app, control
<1>3. IsTask(t) /\ t.acts = Emitted(model, n)
  BY FreeIs
<1>4. /\ Goes(model, n, {s}) /\ n.phase = "Open" /\ s \in DOMAIN n.children
      /\ Waiting(model.children[s], n.children[s]) /\ n.nextGen = model.nextGen
      /\ n.ops = model.ops /\ n.nextOp = model.nextOp
  BY <1>1, ChildOpenedGoes, BaseParts
<1>5. model.phase = "Open"
  BY <1>1, BaseParts, OkParts DEF Phased
<1> HIDE DEF n, t, s
<1>6. Ok(n) /\ Drifts(model, n, {s})
  BY <1>4, EvolvesDrifts DEF Goes
<1>7. Stock(n, s) = Stock(model, s) /\ n.children[s].phase # "Closing"
  BY <1>1, <1>4 DEF Stock, Waiting
<1>8. Dry(n) /\ Keeps(model, n)
  BY <1>4, <1>5, <1>6, <1>7, DriftsStock, BaseParts DEF Dry, Keeps
<1>9. \A x \in DOMAIN n.children : x # s => Aged(model, n, x)
  BY <1>6, DriftsAged
<1>10. Later(model, n)
  BY <1>1, <1>4, <1>6, <1>9 DEF Aged, Later, Has, Waiting, Drifts
<1>11. Manned(n, Add(tasks, t))
  BY <1>3, <1>6, <1>10, SpawnManned, BaseParts
<1>12. Lodged(n, attached', "Open")
  <2>1. o.gen \in Nat /\ o.gen < n.nextGen /\ s \in Segments
    BY <1>1, <1>4, BaseParts, OkParts DEF Numbered, Good, IsChild
  <2>2. /\ attached \in [Segments -> Nat]
        /\ \A x \in Segments : attached[x] < n.nextGen
        /\ \A x \in DOMAIN model.children :
             Lives(model.children[x]) => attached[x] = model.children[x].gen
    BY <1>1, <1>4 DEF Base, Lodged
  <2>3. attached' \in [Segments -> Nat] /\ \A x \in Segments : attached'[x] < n.nextGen
    BY <1>2, <2>1, <2>2
  <2>4. ASSUME NEW x \in DOMAIN n.children, Lives(n.children[x])
        PROVE  attached'[x] = n.children[x].gen
    <3>0. x \in Segments
      BY <1>6, OkParts
    <3>1. CASE x = s
      BY <1>1, <1>2, <1>4, <2>1, <2>2, <3>1 DEF Waiting
    <3>2. CASE x # s
      <4>1. /\ x \in DOMAIN model.children /\ n.children[x].gen = model.children[x].gen
            /\ Lives(model.children[x])
        BY <1>9, <2>4, <3>2 DEF Aged, Lives
      <4> QED
        BY <1>2, <2>2, <3>0, <3>2, <4>1
    <3> QED
      BY <3>1, <3>2
  <2> QED
    BY <2>3, <2>4 DEF Lodged
<1>13. Base'
  <2>1. Staged("Open", closing, reconnect)
    BY <1>5 DEF Base
  <2> QED
    BY <1>1, <1>2, <1>4, <1>6, <1>8, <1>11, <1>12, <2>1 DEF Base
<1>14. Dwindles
  BY <1>2, UnspentDwindles
<1> QED
  BY <1>2, <1>4, <1>5, <1>8, <1>13, <1>14 DEF Shifts, QueueKept, OpsKept

(* Once its child is closed, a segment has no living child to register. *)
LEMMA ShutUnlodges ==
    ASSUME Base, NEW a, Actable(model, a), a.op = "close", attached[a.seg] = a.gen,
           closing = "Open"
    PROVE  LET n == Shut(model, a.seg, a.gen)
           IN  a.seg \in DOMAIN n.children => ~Lives(n.children[a.seg])
<1> DEFINE s == a.seg
           n == Shut(model, s, a.gen)
<1>1. CASE CanChildClosed(model, s, a.gen)
  <2>1. n = ChildClosed(model, s)
    BY <1>1 DEF Shut
  <2> QED
    BY <1>1, <2>1, ChildClosedTends, BaseParts
<1>2. CASE ~CanChildClosed(model, s, a.gen)
  <2>1. n = model
    BY <1>2 DEF Shut
  <2>2. ASSUME s \in DOMAIN model.children, Lives(model.children[s]) PROVE FALSE
    <3>1. Has(model, s, a.gen)
      BY <2>2 DEF Base, Lodged, Has
    <3>2. model.children[s].phase = "Closing"
      BY <3>1 DEF Actable
    <3>3. model.phase # "Closed"
      BY <2>2, BaseParts, OkParts DEF Phased
    <3> QED
      BY <1>2, <3>1, <3>2, <3>3 DEF CanChildClosed
  <2> QED
    BY <2>1, <2>2
<1> QED
  BY <1>1, <1>2

LEMMA Unlodged ==
    ASSUME NEW n, NEW at, NEW cl, Lodged(n, at, cl), NEW s, n.nextGen \in Nat, Numbered(n),
           cl = "Open" => (s \in DOMAIN n.children => ~Lives(n.children[s]))
    PROVE  Lodged(n, [at EXCEPT ![s] = 0], cl)
<1> DEFINE b == [at EXCEPT ![s] = 0]
<1>1. at \in [Segments -> Nat] /\ n.nextGen >= 1
  BY DEF Lodged, Numbered
<1>2. b \in [Segments -> Nat] /\ \A x \in Segments : x # s => b[x] = at[x]
  BY <1>1
<1>3. \A x \in Segments : b[x] < n.nextGen
  BY <1>1 DEF Lodged
<1>4. ASSUME cl = "Open", NEW x \in DOMAIN n.children, Lives(n.children[x])
      PROVE  b[x] = n.children[x].gen
  <2>1. x # s /\ at[x] = n.children[x].gen
    BY <1>4 DEF Lodged
  <2> QED
    BY <1>1, <2>1
<1> HIDE DEF b
<1>5. Lodged(n, b, cl)
  BY <1>2, <1>3, <1>4 DEF Lodged
<1> QED
  BY <1>5 DEF b

(* A close was executed: its child is gone and no longer registered. *)
Parts(t, a) ==
    /\ a.op = "close" /\ model' = Shut(model, a.seg, a.gen)
    /\ tasks' = Advance(t, a, Emitted(model, model'))
    /\ attached' = IF attached[a.seg] = a.gen
                   THEN [attached EXCEPT ![a.seg] = 0] ELSE attached
    /\ UNCHANGED <<queue, ackCalls, parked, reconnect, closing, published, applied>>

LEMMA PartsShifts ==
    ASSUME Base, NEW t \in tasks, NEW a \in t.acts, Parts(t, a), Dwindles
    PROVE  Shifts
<1> DEFINE n == Shut(model, a.seg, a.gen)
<1>1. /\ a.op = "close" /\ model' = n /\ tasks' = Advance(t, a, Emitted(model, n))
      /\ attached' = IF attached[a.seg] = a.gen
                     THEN [attached EXCEPT ![a.seg] = 0] ELSE attached
      /\ UNCHANGED <<queue, ackCalls, parked, reconnect, closing, published, applied>>
  BY Zenon DEF Parts
<1>2. Tends(model, n)
  BY ShutTends, BaseParts
<1>3. attached[a.seg] = a.gen /\ closing = "Open" =>
         (a.seg \in DOMAIN n.children => ~Lives(n.children[a.seg]))
  BY <1>1, ShutUnlodges, BaseParts DEF Manned
<1> HIDE DEF n
<1>4. Ok(n) /\ Ages(model, n) /\ Later(model, n) /\ Onward(model.phase, n.phase) /\ Dry(n)
  BY <1>2, AgesLater DEF Tends, Carries
<1>5. Manned(n, Advance(t, a, Emitted(model, n)))
  BY <1>4, AdvanceManned, BaseParts
<1>6. Lodged(n, attached, closing)
  BY <1>4, AgesLodged, BaseParts DEF Base
<1>7. Lodged(n, attached', closing)
  <2>1. CASE attached[a.seg] = a.gen
    BY <1>1, <1>3, <1>4, <1>6, <2>1, Unlodged, OkParts
  <2>2. CASE attached[a.seg] # a.gen
    BY <1>1, <1>6, <2>2
  <2> QED
    BY <2>1, <2>2
<1>8. Staged(n.phase, closing, reconnect)
  BY <1>4 DEF Base, Staged, Onward
<1>9. Counters(left', published', applied')
  BY <1>1, BaseParts DEF Counters, Dwindles
<1>10. Base'
  BY <1>1, <1>4, <1>5, <1>7, <1>8, <1>9 DEF Base
<1> QED
  BY <1>1, <1>2, <1>10 DEF Shifts, QueueKept, Tends, Carries, Onward

LEMMA ExecCloseShifts ==
    ASSUME Base, NEW t \in tasks, NEW a \in t.acts, ExecClose(t, a),
           UNCHANGED <<app, control, left>>
    PROVE  Shifts
<1>1. Parts(t, a) /\ UNCHANGED left
  BY Zenon DEF ExecClose, Shut, app, control, Parts
<1> QED
  BY <1>1, UnspentDwindles, PartsShifts

(* A close failed in a background task, which asks for a resynchronisation. *)
Fails(t, a) ==
    LET n == ChildClosed(model, a.seg)
        f == RequireResync(n)
    IN  /\ model' = f
        /\ tasks' = Add(Advance(t, a, Emitted(model, n)), Handoff(Emitted(n, f)))
        /\ reconnect' = TRUE /\ queue' = <<>>

LEMMA CloseFailsIs ==
    ASSUME CloseFails
    PROVE  \E t \in tasks : \E a \in t.acts :
             /\ a.op = "close" /\ attached[a.seg] = a.gen
             /\ closing = "Open" /\ CanChildClosed(model, a.seg, a.gen)
             /\ Spend("faults") /\ attached' = [attached EXCEPT ![a.seg] = 0]
             /\ broker' = Unsubscribed(a.seg, a.gen)
             /\ UNCHANGED <<opens, ackCalls, parked, closing, published, applied, dropped>>
             /\ Parts(t, a) \/ Fails(t, a)
<1>1. PICK t \in tasks : \E a \in Ready(t) :
        /\ a.op = "close" /\ attached[a.seg] = a.gen
        /\ closing = "Open" /\ CanChildClosed(model, a.seg, a.gen)
        /\ Spend("faults") /\ attached' = [attached EXCEPT ![a.seg] = 0]
        /\ broker' = Unsubscribed(a.seg, a.gen)
        /\ UNCHANGED <<opens, ackCalls, parked, closing, published, applied, lost>>
        /\ \/ Fails(t, a)
           \/ /\ model' = ChildClosed(model, a.seg)
              /\ tasks' = Advance(t, a, Emitted(model, ChildClosed(model, a.seg)))
              /\ UNCHANGED <<reconnect, queue>>
  BY Zenon DEF CloseFails, Fails
<1>2. PICK a \in Ready(t) :
        /\ a.op = "close" /\ attached[a.seg] = a.gen
        /\ closing = "Open" /\ CanChildClosed(model, a.seg, a.gen)
        /\ Spend("faults") /\ attached' = [attached EXCEPT ![a.seg] = 0]
        /\ broker' = Unsubscribed(a.seg, a.gen)
        /\ UNCHANGED <<opens, ackCalls, parked, closing, published, applied, lost>>
        /\ \/ Fails(t, a)
           \/ /\ model' = ChildClosed(model, a.seg)
              /\ tasks' = Advance(t, a, Emitted(model, ChildClosed(model, a.seg)))
              /\ UNCHANGED <<reconnect, queue>>
  BY Zenon, <1>1
<1>3. a \in t.acts /\ UNCHANGED dropped
  BY <1>2 DEF Ready, lost
<1>4. Shut(model, a.seg, a.gen) = ChildClosed(model, a.seg)
  BY <1>2 DEF Shut
<1>5. Parts(t, a) \/ Fails(t, a)
  BY <1>2, <1>4 DEF Parts
<1> QED
  BY <1>2, <1>3, <1>5

LEMMA FailsShifts ==
    ASSUME Base, NEW t \in tasks, NEW a \in t.acts, Fails(t, a),
           a.op = "close", attached[a.seg] = a.gen, closing = "Open",
           CanChildClosed(model, a.seg, a.gen), Spend("faults"),
           attached' = [attached EXCEPT ![a.seg] = 0],
           UNCHANGED <<ackCalls, parked, closing, published, applied>>
    PROVE  Shifts
<1>2. reconnect' = TRUE /\ queue' = <<>>
  BY DEF Fails
<1> DEFINE n == ChildClosed(model, a.seg)
           f == RequireResync(n)
           u == Handoff(Emitted(n, f))
<1>3. Tends(model, n) /\ (a.seg \in DOMAIN n.children => ~Lives(n.children[a.seg]))
  BY <1>2, ChildClosedTends, BaseParts
<1>4. model' = f /\ tasks' = Add(Advance(t, a, Emitted(model, n)), u)
  BY DEF Fails
<1>5. IsTask(u) /\ u.acts = Emitted(n, f)
  BY HandoffIs
<1> HIDE DEF n
<1>6. Ok(n) /\ Dry(n) /\ Ages(model, n) /\ Later(model, n) /\ Onward(model.phase, n.phase)
  BY <1>3, AgesLater DEF Tends, Carries
<1>7. Carries(n, f) /\ OpsKept(n, f) /\ f.phase # "Open"
  BY <1>6, ResyncCarries
<1> HIDE DEF f, u
<1>8. Ok(f) /\ Dry(f) /\ Ages(n, f) /\ Later(n, f) /\ Onward(n.phase, f.phase)
  BY <1>7, AgesLater DEF Carries
<1>9. Manned(f, tasks')
  <2>1. Manned(n, Advance(t, a, Emitted(model, n)))
    BY <1>6, AdvanceManned, BaseParts
  <2> QED
    BY <1>4, <1>5, <1>6, <1>8, <2>1, SpawnManned
<1>10. Lodged(f, attached', closing)
  <2>1. Lodged(n, attached, closing)
    BY <1>6, AgesLodged, BaseParts DEF Base
  <2>2. Lodged(n, [attached EXCEPT ![a.seg] = 0], closing)
    BY <1>3, <1>6, <2>1, Unlodged, OkParts
  <2> QED
    BY <1>2, <1>6, <1>8, <2>2, AgesLodged
<1>11. Staged(f.phase, closing, reconnect')
  BY <1>2, <1>6, <1>7, <1>8 DEF Base, Staged, Onward
<1>12. Dwindles
  BY <1>2, SpentDwindles DEF Kinds
<1>13. Counters(left', published', applied')
  BY <1>2, <1>12, BaseParts DEF Counters, Dwindles
<1>14. Base'
  BY <1>2, <1>4, <1>8, <1>9, <1>10, <1>11, <1>13, BaseParts DEF Base
<1>15. OpsKept(model, f) /\ Keeps(model, f)
  BY <1>3, <1>7 DEF OpsKept, Keeps, Tends
<1> QED
  BY <1>2, <1>4, <1>7, <1>12, <1>14, <1>15 DEF Shifts, QueueKept

LEMMA CloseFailsShifts ==
    ASSUME Base, CloseFails
    PROVE  Shifts
<1>3. PICK t \in tasks : \E a \in t.acts :
        /\ a.op = "close" /\ attached[a.seg] = a.gen
        /\ closing = "Open" /\ CanChildClosed(model, a.seg, a.gen)
        /\ Spend("faults") /\ attached' = [attached EXCEPT ![a.seg] = 0]
        /\ UNCHANGED <<ackCalls, parked, closing, published, applied>>
        /\ Parts(t, a) \/ Fails(t, a)
  BY Zenon, CloseFailsIs
<1>1. PICK a \in t.acts :
        /\ a.op = "close" /\ attached[a.seg] = a.gen
        /\ closing = "Open" /\ CanChildClosed(model, a.seg, a.gen)
        /\ Spend("faults") /\ attached' = [attached EXCEPT ![a.seg] = 0]
        /\ UNCHANGED <<ackCalls, parked, closing, published, applied>>
        /\ Parts(t, a) \/ Fails(t, a)
  BY Zenon, <1>3
<1>0. Dwindles
  BY <1>1, SpentDwindles DEF Kinds
<1>2. CASE Fails(t, a)
  BY <1>1, <1>2, FailsShifts
<1> QED
  BY <1>0, <1>1, <1>2, PartsShifts

LEMMA CloseCallShifts ==
    ASSUME Base, CloseCall
    PROVE  Shifts
<1> DEFINE n == Close(model)
           cuts == {a \in Emitted(model, n) : a.op = "cancel"}
           ends == {[op |-> "close", seg |-> s, gen |-> attached[s], inc |-> 0,
                     epoch |-> 0] : s \in {s \in Segments : attached[s] # 0}}
           t == Task("closer", 0, 0, {}, cuts \cup ends, {})
<1>1. /\ closing = "Open" /\ Spend("closes") /\ model' = n /\ tasks' = Add(tasks, t)
      /\ closing' = "Closing" /\ queue' = <<>> /\ parked' = <<>>
      /\ attached' = [s \in Segments |-> 0]
      /\ UNCHANGED <<ackCalls, reconnect, published, applied>>
  BY DEF CloseCall
<1>2. IsTask(t) /\ t.acts = cuts \cup ends
  BY TaskIs
<1>3. /\ Goes(model, n, {}) /\ n.phase \in {"Closing", "Closed"}
      /\ n.nextGen = model.nextGen /\ n.ops = {} /\ n.nextOp = model.nextOp
      /\ \A s \in DOMAIN n.children : n.children[s].phase = "Closing"
  BY CloseGoes, BaseParts
<1> HIDE DEF n, t
<1>4. Ok(n) /\ Drifts(model, n, {})
  BY <1>3, EvolvesDrifts DEF Goes
<1>5. Later(model, n)
  BY <1>4, DriftsAge, AgesLater
<1>6. \A a \in cuts : Actable(n, a)
  BY <1>4, EmittedActable
<1>7. ASSUME NEW a \in ends PROVE Actable(n, a)
  <2>1. PICK s \in Segments : a.seg = s /\ a.gen = attached[s]
    BY <1>7
  <2>2. attached[s] \in Nat /\ attached[s] < n.nextGen
    BY <1>3 DEF Base, Lodged
  <2> QED
    BY <1>3, <2>1, <2>2 DEF Actable, Has
<1> HIDE DEF cuts, ends
<1>8. Manned(n, Add(tasks, t))
  BY <1>2, <1>4, <1>5, <1>6, <1>7, AddManned, MannedLater, BaseParts
<1>9. Lodged(n, attached', "Closing")
  <2>1. n.nextGen \in Nat /\ n.nextGen >= 1
    BY <1>4, OkParts DEF Numbered
  <2> QED
    BY <1>1, <2>1 DEF Lodged
<1>10. Dwindles
  BY <1>1, SpentDwindles DEF Kinds
<1>11. Counters(left', published', applied')
  BY <1>1, <1>10, BaseParts DEF Counters, Dwindles
<1>12. Dry(n) /\ Keeps(model, n) /\ OpsKept(model, n) /\ n.phase # "Open"
  BY <1>3 DEF Dry, Keeps, OpsKept
<1>13. Staged(n.phase, "Closing", reconnect')
  BY <1>3 DEF Staged
<1>14. Base'
  BY <1>1, <1>4, <1>8, <1>9, <1>11, <1>12, <1>13, BaseParts DEF Base
<1> QED
  BY <1>1, <1>10, <1>12, <1>14 DEF Shifts, QueueKept

LEMMA FinishCloseShifts ==
    ASSUME Base, FinishClose
    PROVE  Shifts
<1>1. /\ closing = "Closing" /\ closing' = "Closed"
      /\ UNCHANGED <<model, tasks, client, app, reconnect, published, applied, left>>
  BY DEF FinishClose
<1>2. Lodged(model, attached, "Closed") /\ Staged(model.phase, "Closed", reconnect)
  BY <1>1 DEF Base, Lodged, Staged
<1>3. Dwindles
  BY <1>1, UnspentDwindles
<1>4. Base'
  BY <1>1, <1>2 DEF Base, client, app
<1> QED
  BY <1>1, <1>3, <1>4, BaseParts DEF Shifts, QueueKept, Tends, Carries, app

(* Rejoining: nothing was registered, so nothing was retained. *)
Rejoins ==
    /\ Base' /\ Dwindles /\ left.reconnects > 0
    /\ model.phase # "Open" /\ model'.phase = "Open"
    /\ model'.ops = {} /\ model'.nextOp = model.nextOp
    /\ \A s \in Segments : Stock(model', s) = 0
    /\ UNCHANGED <<queue, ackCalls, parked>>

LEMMA ReconnectRejoins ==
    ASSUME Base, ReconnectControlPlane
    PROVE  Rejoins
<1> DEFINE p == Plan[published]
           n == ApplyReconnectBaseline(model, p.layout, p.assigned)
           t == Task("control", 0, 0, {}, Emitted(model, n), {})
<1>1. /\ closing = "Open" /\ reconnect /\ \A s \in Segments : attached[s] = 0
      /\ Spend("reconnects") /\ model' = n /\ tasks' = Add(tasks, t)
      /\ reconnect' = FALSE /\ applied' = published
      /\ UNCHANGED <<client, queue, ackCalls, parked, closing, published>>
  BY DEF ReconnectControlPlane, ControlIdle
<1>2. IsTask(t) /\ t.acts = Emitted(model, n)
  BY TaskIs
<1>3. model.phase = "ResyncRequired"
  BY <1>1 DEF Base, Staged
<1>4. /\ Ok(n) /\ Evolves(model, n, {}) /\ n.phase = "Open" /\ n.ops = {}
      /\ n.nextOp = model.nextOp
  BY <1>3, RejoinGoes, PlanIs, BaseParts
<1> HIDE DEF n, t
<1>5. Drifts(model, n, {}) /\ Ages(model, n) /\ Later(model, n)
  BY <1>4, EvolvesDrifts, DriftsAge, AgesLater
<1>6. \A s \in DOMAIN model.children : model.children[s].gen >= 1
  BY BaseParts, OkParts DEF Numbered
<1>7. \A s \in DOMAIN model.children : model.children[s].retained = 0
  <2>1. ASSUME NEW s \in DOMAIN model.children PROVE model.children[s].retained = 0
    <3>1. s \in Segments /\ model.children[s].gen \in Nat /\ model.children[s].retained \in Nat
      BY BaseParts, OkParts DEF Good, IsChild
    <3>2. ~Lives(model.children[s])
      BY <1>1, <1>6, <3>1 DEF Base, Lodged
    <3> QED
      BY <3>1, <3>2 DEF Lives
  <2> QED
    BY <2>1
<1>8. \A s \in DOMAIN n.children : n.children[s].retained = 0
  BY <1>5, <1>7 DEF Drifts, Moves, Fresh
<1>9. Dry(n) /\ \A s \in Segments : Stock(n, s) = 0
  BY <1>8 DEF Dry, Stock
<1>10. Manned(n, Add(tasks, t))
  BY <1>2, <1>4, <1>5, SpawnManned, BaseParts
<1>11. Lodged(n, attached, closing)
  BY <1>4, <1>5, AgesLodged, BaseParts DEF Base
<1>12. Dwindles /\ left.reconnects > 0
  BY <1>1, SpentDwindles DEF Kinds, Spend
<1>13. Counters(left', published', applied')
  BY <1>1, <1>12, BaseParts DEF Counters, Dwindles
<1>14. Staged(n.phase, closing, reconnect')
  BY <1>1, <1>4 DEF Base, Staged
<1>15. Base'
  BY <1>1, <1>4, <1>9, <1>10, <1>11, <1>13, <1>14 DEF Base, client
<1> QED
  BY <1>1, <1>3, <1>4, <1>9, <1>12, <1>15 DEF Rejoins

(* An arrival lands in the queue. *)
Lands ==
    /\ Base' /\ Dwindles /\ OpsKept(model, model')
    /\ model.phase = "Open" /\ model'.phase = "Open"
    /\ UNCHANGED <<ackCalls, parked>>
    /\ \E e, s : /\ e.token = <<>> /\ e.seg = s /\ s \in Segments
                 /\ queue' = Append(queue, e)
                 /\ Stock(model', s) = Stock(model, s) + 1
                 /\ \A x \in Segments : x # s => Stock(model', x) = Stock(model, x)

(* It was acknowledged already, and is discarded. *)
Discards ==
    /\ Base' /\ Dwindles /\ OpsKept(model, model') /\ Masked # {}
    /\ model.phase = "Open" /\ model'.phase = "Open"
    /\ UNCHANGED <<ackCalls, parked>>

LEMMA FinalizeLands ==
    ASSUME Base, Finalize
    PROVE  /\ Shifts \/ Lands \/ Discards
           /\ Ages(model, model')
<1>1. PICK a \in arriving :
        LET n == IF Msg(a.seg, a.id) \in Masked THEN Discarded(model, a.seg)
                 ELSE Arrived(model, a.seg)
            r == ArbitrateFlow(n)
        IN  /\ IF Receiving(model, a.seg, a.gen)
               THEN /\ model' = r
                    /\ queue' = IF Msg(a.seg, a.id) \in Masked THEN queue
                                ELSE Append(queue,
                                       [seg |-> a.seg, gen |-> a.gen,
                                        id |-> a.id, token |-> <<>>])
                    /\ tasks' = Add(tasks, Task("loop", a.seg, a.gen, {},
                                                Emitted(n, r), {}))
                    /\ UNCHANGED reconnect
               ELSE Resync(tasks)
            /\ UNCHANGED <<attached, ackCalls, parked, closing, published, applied, left>>
  BY DEF Finalize
<1>2. Dwindles
  BY <1>1, UnspentDwindles
<1>3. CASE ~Receiving(model, a.seg, a.gen)
  <2>1. Runs
    BY <1>1, <1>2, <1>3, ResyncRunsAll, BaseParts
  <2> QED
    BY <2>1, RunsShifts DEF Runs, Steady, Carries
<1>4. CASE Receiving(model, a.seg, a.gen)
  <2> DEFINE s == a.seg
             masked == Msg(a.seg, a.id) \in Masked
             n == IF masked THEN Discarded(model, a.seg) ELSE Arrived(model, a.seg)
             r == ArbitrateFlow(n)
             e == [seg |-> a.seg, gen |-> a.gen, id |-> a.id, token |-> <<>>]
             t == Task("loop", a.seg, a.gen, {}, Emitted(n, r), {})
  <2>1. /\ model' = r /\ queue' = IF masked THEN queue ELSE Append(queue, e)
        /\ tasks' = Add(tasks, t)
        /\ UNCHANGED <<attached, ackCalls, parked, reconnect, closing, published, applied, left>>
    BY <1>1, <1>4
  <2>2. IsTask(t) /\ t.acts = Emitted(n, r)
    BY TaskIs
  <2>3. e.token = <<>> /\ e.seg = s
    OBVIOUS
  <2>4. /\ s \in DOMAIN model.children /\ model.phase = "Open"
        /\ model.children[s].phase \in {"Flowing", "Draining"}
    BY <1>4 DEF Receiving, Has
  <2>5. /\ Goes(model, n, {s}) /\ OneChange(model, n, s, n.children[s])
        /\ Landed(model.children[s], n.children[s], IF masked THEN 0 ELSE 1)
    BY <1>4, ArrivedGoes, DiscardedGoes, BaseParts
  <2> HIDE DEF n, t, e, masked, s
  <2>6. Ok(n) /\ Drifts(model, n, {s}) /\ n.phase = "Open" /\ s \in DOMAIN n.children
        /\ n.ops = model.ops /\ n.nextOp = model.nextOp
    BY <2>4, <2>5, EvolvesDrifts DEF Goes, OneChange
  <2>7. n.children[s].phase \in {"OpenBlocked", "Draining"} /\ Aged(model, n, s)
    BY <2>4, <2>5 DEF Landed, AfterArrival, Aged, Lives
  <2>8. Dry(n) /\ \A x \in Segments : x # s => Stock(n, x) = Stock(model, x)
    BY <2>4, <2>6, <2>7, DriftsStock, BaseParts DEF Dry
  <2>9. Ages(model, n)
    BY <2>6, <2>7, DriftsAge
  <2>10. Tends(n, r)
    BY <2>6, <2>8, ArbitrateRests, RestingTends
  <2> HIDE DEF r
  <2>11. /\ Ok(r) /\ Ages(n, r) /\ Dry(r) /\ r.phase = "Open" /\ Keeps(n, r)
         /\ r.ops = model.ops /\ r.nextOp = model.nextOp
    BY <2>6, <2>10 DEF Tends, Carries, OpsKept
  <2>12. Ages(model, r)
    <3>1. ASSUME NEW x \in DOMAIN n.children
          PROVE  /\ Has(model, x, n.children[x].gen)
                 /\ n.children[x].phase = "Seeking" => model.children[x].phase = "Seeking"
      BY <2>4, <2>5, <2>7 DEF OneChange, Has, Landed
    <3> QED
      BY <2>6, <2>9, <2>11, <3>1, AgesCompose, BaseParts
  <2>13. Manned(r, Add(tasks, t))
    <3>1. Manned(r, tasks)
      BY <2>11, <2>12, AgesLater, MannedLater, BaseParts
    <3>2. \A b \in t.acts : Actable(r, b)
      BY <2>2, <2>11, EmittedActable
    <3> QED
      BY <2>2, <3>1, <3>2, AddManned
  <2>14. Lodged(r, attached, closing)
    BY <2>11, <2>12, AgesLodged, BaseParts DEF Base
  <2>15. IsSeq(queue')
    BY <2>1, IsSeqAppend, BaseParts
  <2>16. Base'
    BY <2>1, <2>4, <2>11, <2>13, <2>14, <2>15, BaseParts DEF Base
  <2>17. CASE masked
    <3>1. Masked # {}
      BY <2>17 DEF masked
    <3>2. OpsKept(model, r)
      BY <2>11 DEF OpsKept
    <3> QED
      BY <1>2, <2>1, <2>4, <2>11, <2>12, <2>16, <3>1, <3>2 DEF Discards
  <2>18. CASE ~masked
    <3>1. s \in Segments
      BY <2>4, BaseParts, OkParts
    <3>2. Stock(n, s) = Stock(model, s) + 1
      BY <2>4, <2>5, <2>6, <2>18 DEF Landed, Stock
    <3>3. \A x \in Segments : Stock(r, x) = Stock(n, x)
      BY <2>11 DEF Keeps
    <3>4. OpsKept(model, r)
      BY <2>11 DEF OpsKept
    <3>5. /\ Stock(model', s) = Stock(model, s) + 1
          /\ \A x \in Segments : x # s => Stock(model', x) = Stock(model, x)
      BY <2>1, <2>8, <3>1, <3>2, <3>3
    <3>6. queue' = Append(queue, e)
      BY <2>1, <2>18
    <3> QED
      BY <1>2, <2>1, <2>3, <2>4, <2>11, <2>12, <2>16, <3>1, <3>4, <3>5, <3>6 DEF Lands
  <2> QED
    BY <2>1, <2>12, <2>17, <2>18
<1> QED
  BY <1>3, <1>4

-----------------------------------------------------------------------------
(* Receive.                                                                *)

LEMMA IsSeqPart ==
    ASSUME NEW q, IsSeq(q), NEW k \in 0..Len(q)
    PROVE  LET r == SubSeq(q, k + 1, Len(q))
           IN  /\ IsSeq(r) /\ Len(r) = Len(q) - k
               /\ \A i \in 1..(Len(q) - k) : r[i] = q[k + i]
<1>1. PICK S : q \in Seq(S)
  BY DEF IsSeq
<1>2. Len(q) \in Nat /\ k \in Nat /\ k + 1 \in 1..(Len(q) + 1)
      /\ Len(q) \in k..Len(q)
  BY <1>1
<1> DEFINE r == SubSeq(q, k + 1, Len(q))
<1>3. r \in Seq(S) /\ Len(r) = Len(q) - k
      /\ \A i \in 1..(Len(q) - k) : r[i] = q[(k + 1) + i - 1]
  <2>1. \A i \in (k + 1)..Len(q) : q[i] \in S
    BY <1>1, <1>2
  <2>2. r = [i \in 1..(Len(q) - (k + 1) + 1) |-> q[i + (k + 1) - 1]]
    BY <1>1, <1>2
  <2>3. Len(q) - (k + 1) + 1 = Len(q) - k /\ Len(q) - k \in Nat
    BY <1>2
  <2>4. \A i \in 1..(Len(q) - k) :
          /\ i + (k + 1) - 1 = k + i /\ (k + 1) + i - 1 = k + i
          /\ k + i \in (k + 1)..Len(q)
    BY <1>2
  <2>5. r = [i \in 1..(Len(q) - k) |-> q[k + i]]
    BY <2>2, <2>3, <2>4
  <2> HIDE DEF r
  <2>6. r \in [1..(Len(q) - k) -> S]
    BY <2>1, <2>4, <2>5
  <2>7. r \in Seq(S) /\ Len(r) = Len(q) - k
    <3> DEFINE N == Len(q) - k
    <3>1. N \in Nat /\ r \in [1..N -> S]
      BY <2>3, <2>6
    <3> HIDE DEF N
    <3>2. r \in Seq(S)
      BY <3>1, SeqDef
    <3>3. Len(r) = N
      BY <3>1, <3>2, LenProperties
    <3> QED
      BY <3>2, <3>3 DEF N
  <2> QED
    BY <2>4, <2>5, <2>7
<1>4. \A i \in 1..(Len(q) - k) : (k + 1) + i - 1 = k + i
  BY <1>2
<1> QED
  BY <1>3, <1>4 DEF IsSeq

(* The first k deliveries are handed over. *)
Receives ==
    /\ Base' /\ Dwindles /\ OpsKept(model, model') /\ model'.phase = model.phase
    /\ Ages(model, model') /\ Unmoved(model, model')
    /\ UNCHANGED <<ackCalls, parked>>
    /\ \E k \in 1..Len(queue) :
         /\ queue' = SubSeq(queue, k + 1, Len(queue))
         /\ \A s \in Segments :
              Stock(model', s) = Stock(model, s) - Cardinality(FreshIn(k, s))

LEMMA ReceiveIs ==
    ASSUME Base, Receive
    PROVE  Receives
<1>1. PICK k \in 1..Len(queue) :
        /\ Issued(k).ok /\ model' = Issued(k).m
        /\ queue' = SubSeq(queue, k + 1, Len(queue))
        /\ UNCHANGED <<tasks, client, ackCalls, parked, control, left>>
  BY DEF Receive
<1> DEFINE n == Issued(k).m
<1>0. Len(queue) \in Nat /\ k \in Nat /\ k \in 0..Len(queue)
  BY BaseParts, IsSeqLen
<1>2. ReservedTo(k, n)
  BY <1>0, <1>1, IssuedGoes, BaseParts
<1> HIDE DEF n
<1>3. /\ Ok(n) /\ Ok(model) /\ Served(model, n) /\ Dry(model)
  BY <1>2, BaseParts DEF ReservedTo
<1>4. ASSUME NEW s \in DOMAIN model.children
      PROVE  /\ SameButRetained(model.children[s], n.children[s])
             /\ n.children[s].retained \in Nat /\ model.children[s].retained \in Nat
             /\ n.children[s].retained
                  = model.children[s].retained - Cardinality(FreshIn(k, s))
             /\ n.children[s].retained =< model.children[s].retained
  <2>1. s \in DOMAIN n.children /\ SameButRetained(model.children[s], n.children[s])
    BY <1>3 DEF Served
  <2>2. n.children[s].retained \in Nat /\ model.children[s].retained \in Nat
    BY <1>3, <2>1, OkParts DEF Good, IsChild
  <2>3. Cardinality(FreshIn(k, s)) \in Nat
    BY <1>0, FreshInNext
  <2>4. n.children[s].retained
          = model.children[s].retained - Cardinality(FreshIn(k, s))
    BY <1>2 DEF ReservedTo
  <2> QED
    BY <2>1, <2>2, <2>3, <2>4
<1>5. Ages(model, n)
  <2>1. n.nextGen >= model.nextGen
    BY <1>3, OkParts DEF Served
  <2>2. ASSUME NEW s \in DOMAIN n.children PROVE Aged(model, n, s)
    <3>1. s \in DOMAIN model.children
      BY <1>3 DEF Served
    <3> QED
      BY <1>4, <3>1 DEF Aged, Lives, SameButRetained
  <2> QED
    BY <2>1, <2>2 DEF Ages
<1>6. Dry(n)
  <2>1. n.phase = model.phase /\ DOMAIN n.children = DOMAIN model.children
    BY <1>3 DEF Served
  <2> QED
    BY <1>3, <1>4, <2>1 DEF Dry, SameButRetained
<1>7. Manned(n, tasks) /\ Lodged(n, attached, closing)
  BY <1>3, <1>5, AgesLater, MannedLater, AgesLodged, BaseParts DEF Base
<1>8. n.phase = model.phase /\ n.ops = model.ops /\ n.nextOp = model.nextOp
  BY <1>3 DEF Served
<1>9. IsSeq(queue')
  BY <1>0, <1>1, IsSeqPart, BaseParts
<1>10. Base'
  BY <1>1, <1>3, <1>6, <1>7, <1>8, <1>9 DEF Base, client, control, n
<1>11. ASSUME NEW s \in Segments
       PROVE  Stock(n, s) = Stock(model, s) - Cardinality(FreshIn(k, s))
  <2>1. DOMAIN n.children = DOMAIN model.children
    BY <1>3 DEF Served
  <2>2. CASE s \in DOMAIN model.children
    BY <1>4, <2>1, <2>2 DEF Stock
  <2>3. CASE s \notin DOMAIN model.children
    <3>1. FreshIn(k, s) = {}
      BY <1>2, <2>3 DEF ReservedTo, FreshIn
    <3>2. Cardinality(FreshIn(k, s)) = 0
      BY <3>1, FS_EmptySet
    <3> QED
      BY <2>1, <2>3, <3>2 DEF Stock
  <2> QED
    BY <2>2, <2>3
<1>12. Dwindles /\ OpsKept(model, n)
  BY <1>1, <1>8, UnspentDwindles DEF OpsKept
<1>13. model' = n
  BY <1>1 DEF n
<1>14. Unmoved(model, n)
  BY <1>3 DEF Served, SameButRetained, Unmoved
<1> QED
  BY <1>1, <1>5, <1>8, <1>10, <1>11, <1>12, <1>13, <1>14 DEF Receives

-----------------------------------------------------------------------------
(* RestoreDelivery.                                                        *)

LEMMA LeastIn ==
    ASSUME NEW N \in Nat, NEW S \in SUBSET (1..N), S # {}
    PROVE  Min(S) \in S
<1> DEFINE M == {N - x : x \in S}
<1>1. M \in SUBSET (0..N) /\ M # {}
  <2>1. \A x \in S : N - x \in 0..N
    OBVIOUS
  <2> QED
    BY <2>1
<1>2. PICK z \in M : \A y \in M : y =< z
  <2> HIDE DEF M
  <2> QED
    BY <1>1, Greatest
<1>3. PICK x \in S : z = N - x
  BY <1>2
<1>4. \A y \in S : x =< y
  <2> SUFFICES ASSUME NEW y \in S PROVE x =< y
    OBVIOUS
  <2>1. N - y \in M /\ x \in 1..N /\ y \in 1..N
    OBVIOUS
  <2>2. N - y =< N - x
    BY <1>2, <1>3, <2>1
  <2> QED
    BY <2>1, <2>2
<1> QED
  BY <1>3, <1>4, Zenon DEF Min

Inserted(q, r, i, e) ==
    /\ i \in 1..(Len(q) + 1) /\ IsSeq(r) /\ Len(r) = Len(q) + 1
    /\ \A j \in 1..(i - 1) : r[j] = q[j]
    /\ r[i] = e
    /\ \A j \in i..Len(q) : r[j + 1] = q[j]

LEMMA InsertIs ==
    ASSUME NEW q, IsSeq(q), NEW i \in 1..(Len(q) + 1), NEW e
    PROVE  Inserted(q, InsertAt(q, i, e), i, e)
<1> DEFINE a == SubSeq(q, 1, i - 1)
           b == SubSeq(q, i, Len(q))
           c == a \o <<e>>
           r == c \o b
           L == Len(q)
<1>0. PICK S : q \in Seq(S)
  BY DEF IsSeq
<1>1. L \in Nat /\ i \in Nat /\ i >= 1 /\ i =< L + 1 /\ \A j \in 1..L : q[j] \in S
  BY <1>0
<1> DEFINE U == S \cup {e}
<1>2. a \in Seq(U) /\ Len(a) = i - 1 /\ \A j \in 1..(i - 1) : a[j] = q[j]
  <2>1. \A j \in 1..(i - 1) : q[j] \in U
    BY <1>1
  <2>2. 1 \in Int /\ i - 1 \in Int
    BY <1>1
  <2>3. /\ a \in Seq(U) /\ Len(a) = IF 1 =< i - 1 THEN (i - 1) - 1 + 1 ELSE 0
        /\ \A j \in 1..((i - 1) - 1 + 1) : a[j] = q[1 + j - 1]
    BY <2>1, <2>2, SubSeqProperties
  <2> HIDE DEF a
  <2> QED
    BY <1>1, <2>3
<1>3. b \in Seq(U) /\ Len(b) = L - i + 1 /\ \A j \in 1..(L - i + 1) : b[j] = q[i + j - 1]
  <2>1. \A j \in i..L : q[j] \in U
    BY <1>1
  <2>2. L \in Int /\ i \in Int
    BY <1>1
  <2>3. /\ b \in Seq(U) /\ Len(b) = IF i =< L THEN L - i + 1 ELSE 0
        /\ \A j \in 1..(L - i + 1) : b[j] = q[i + j - 1]
    BY <2>1, <2>2, SubSeqProperties
  <2> HIDE DEF b, L
  <2> QED
    BY <1>1, <2>3
<1> HIDE DEF a, b, L
<1>4. <<e>> \in Seq(U) /\ Len(<<e>>) = 1 /\ <<e>>[1] = e
  OBVIOUS
<1>5. c \in Seq(U) /\ Len(c) = i /\ c[i] = e /\ \A j \in 1..(i - 1) : c[j] = q[j]
  <2>1. /\ c \in Seq(U) /\ Len(c) = Len(a) + Len(<<e>>)
        /\ \A j \in 1..(Len(a) + Len(<<e>>)) :
             c[j] = IF j =< Len(a) THEN a[j] ELSE <<e>>[j - Len(a)]
    BY <1>2, <1>4, ConcatProperties
  <2> HIDE DEF c
  <2>2. Len(c) = i /\ i \in 1..i /\ ~(i =< i - 1) /\ i - (i - 1) = 1
    BY <1>1, <1>2, <1>4, <2>1
  <2>3. Len(a) + Len(<<e>>) = i
    BY <1>1, <1>2, <1>4
  <2>4. \A j \in 1..i : c[j] = IF j =< i - 1 THEN a[j] ELSE <<e>>[j - (i - 1)]
    BY <1>2, <2>1, <2>3
  <2>5. c[i] = e
    BY <1>4, <2>2, <2>4
  <2>6. \A j \in 1..(i - 1) : j \in 1..i /\ j =< i - 1
    BY <1>1
  <2> QED
    BY <1>2, <2>1, <2>2, <2>4, <2>5, <2>6
<1> HIDE DEF c
<1>6. /\ r \in Seq(U) /\ Len(r) = Len(c) + Len(b)
      /\ \A j \in 1..(Len(c) + Len(b)) :
           r[j] = IF j =< Len(c) THEN c[j] ELSE b[j - Len(c)]
  BY ZenonT(60), <1>3, <1>5, ConcatProperties
<1> HIDE DEF r
<1>7. Len(c) + Len(b) = L + 1 /\ L + 1 \in Nat
  BY <1>1, <1>3, <1>5
<1>8. Len(r) = L + 1 /\ \A j \in 1..(L + 1) : r[j] = IF j =< i THEN c[j] ELSE b[j - i]
  BY <1>5, <1>6, <1>7
<1>9. r[i] = e /\ \A j \in 1..(i - 1) : r[j] = q[j]
  <2>1. i \in 1..(L + 1) /\ i =< i /\ \A j \in 1..(i - 1) : j \in 1..(L + 1) /\ j =< i
    BY <1>1
  <2> QED
    BY <1>5, <1>8, <2>1
<1>10. ASSUME NEW j \in i..L PROVE r[j + 1] = q[j]
  <2>1. /\ j + 1 \in 1..(L + 1) /\ ~(j + 1 =< i) /\ (j + 1) - i \in 1..(L - i + 1)
        /\ i + ((j + 1) - i) - 1 = j
    BY <1>1
  <2> DEFINE k == (j + 1) - i
  <2>2. r[j + 1] = b[k]
    BY <1>8, <2>1
  <2>3. b[k] = q[i + k - 1]
    BY <1>3, <2>1
  <2> QED
    BY <2>1, <2>2, <2>3
<1>11. InsertAt(q, i, e) = r
  BY Zenon DEF InsertAt, r, c, a, b, L
<1>12. IsSeq(r)
  BY <1>6 DEF IsSeq
<1> QED
  BY <1>8, <1>9, <1>10, <1>11, <1>12 DEF Inserted, L

(* A delivery goes back into the queue with its token. *)
Restores ==
    /\ Base' /\ Dwindles /\ UNCHANGED <<model, ackCalls, parked>>
    /\ \E i, e : e.token # <<>> /\ Inserted(queue, queue', i, e)
    /\ model.phase = "Open"

LEMMA RestoreDeliveryIs ==
    ASSUME Base, RestoreDelivery
    PROVE  Runs \/ Restores
<1>1. PICK t \in held :
        LET later == {i \in 1..Len(queue) :
                        queue[i].token = <<>> \/ queue[i].token[1].seq > t.seq}
            at == IF later = {} THEN Len(queue) + 1 ELSE Min(later)
        IN  /\ Spend("restores")
            /\ IF ValidToken(model, t) /\ ~OpPending(model, t.seq)
               THEN /\ queue' = InsertAt(queue, at,
                                  [seg |-> t.seg, gen |-> t.gen, id |-> t.id,
                                   token |-> <<t>>])
                    /\ UNCHANGED <<model, tasks, reconnect>>
               ELSE Resync(tasks)
            /\ UNCHANGED <<client, ackCalls, parked, closing, published, applied>>
  BY DEF RestoreDelivery
<1>2. Dwindles
  BY <1>1, SpentDwindles DEF Kinds
<1>3. CASE ~(ValidToken(model, t) /\ ~OpPending(model, t.seq))
  <2>1. Resync(tasks) /\ UNCHANGED <<attached, ackCalls, parked, closing, published, applied>>
    BY <1>1, <1>3 DEF client
  <2> QED
    BY <1>2, <2>1, ResyncRunsAll, BaseParts
<1>4. CASE ValidToken(model, t) /\ ~OpPending(model, t.seq)
  <2> DEFINE later == {i \in 1..Len(queue) :
                         queue[i].token = <<>> \/ queue[i].token[1].seq > t.seq}
             at == IF later = {} THEN Len(queue) + 1 ELSE Min(later)
             e == [seg |-> t.seg, gen |-> t.gen, id |-> t.id, token |-> <<t>>]
  <2>1. /\ queue' = InsertAt(queue, at, e)
        /\ UNCHANGED <<model, tasks, reconnect, attached, ackCalls, parked, closing,
                       published, applied>>
    BY <1>1, <1>4 DEF client
  <2>2. e.token # <<>>
    OBVIOUS
  <2>3. Len(queue) \in Nat /\ later \in SUBSET (1..Len(queue))
    BY BaseParts, IsSeqLen
  <2> HIDE DEF e, later
  <2>4. at \in 1..(Len(queue) + 1)
    <3>1. CASE later = {}
      BY <2>3, <3>1
    <3>2. CASE later # {}
      <4>1. Min(later) \in later
        BY <2>3, <3>2, LeastIn
      <4> DEFINE k == Min(later)
      <4>2. k \in later /\ at = k
        BY <3>2, <4>1
      <4> HIDE DEF k, at
      <4>3. k \in 1..(Len(queue) + 1)
        BY <2>3, <4>2
      <4> QED
        BY <4>2, <4>3
    <3> QED
      BY <3>1, <3>2
  <2> HIDE DEF at
  <2>5. Inserted(queue, queue', at, e)
    BY <2>1, <2>4, InsertIs, BaseParts
  <2>6. IsSeq(queue')
    BY <2>5 DEF Inserted
  <2>7. Counters(left', published', applied')
    BY <1>2, <2>1, BaseParts DEF Counters, Dwindles
  <2>8. Base'
    BY <2>1, <2>6, <2>7 DEF Base
  <2>9. model.phase = "Open"
    BY <1>4 DEF ValidToken
  <2> QED
    BY <1>2, <2>1, <2>2, <2>5, <2>8, <2>9 DEF Restores
<1> QED
  BY <1>3, <1>4

-----------------------------------------------------------------------------
(* TransactionOutcome.                                                     *)

Distinct(q) == \A i, j \in 1..Len(q) : i # j => q[i].op # q[j].op

(* w holds the entries of q up to i that are in S. *)
KeptOf(q, S, i, w) ==
    /\ IsSeq(w)
    /\ \A k \in 1..Len(w) : w[k] \in S /\ \E j \in 1..i : w[k] = q[j]
    /\ \A j \in 1..i : q[j] \in S => \E k \in 1..Len(w) : w[k] = q[j]
    /\ Distinct(q) => Distinct(w)

LEMMA WithinIs ==
    ASSUME NEW q, IsSeq(q), NEW S
    PROVE  KeptOf(q, S, Len(q), Within(q, S))
<1> DEFINE L == Len(q)
<1>1. PICK f : /\ Within(q, S) = f[L] /\ f[0] = <<>>
               /\ \A i \in 1..L : f[i] = Keep(f[i - 1], q[i], S)
  BY WithinUnfolds
<1>2. L \in Nat
  BY IsSeqLen
<1> DEFINE T == {i \in 0..L : KeptOf(q, S, i, f[i])}
<1>3. 0 \in T
  <2>1. f[0] = <<>> /\ <<>> \in Seq({}) /\ Len(<<>>) = 0
    BY <1>1
  <2>2. IsSeq(f[0]) /\ Len(f[0]) = 0
    BY <2>1 DEF IsSeq
  <2> QED
    BY <1>2, <2>2 DEF KeptOf, Distinct
<1>4. ASSUME NEW i \in 0..(L - 1), i \in T PROVE i + 1 \in T
  <2> DEFINE w == f[i]
             v == f[i + 1]
             e == q[i + 1]
  <2>1. i + 1 \in 1..L /\ (i + 1) - 1 = i /\ i + 1 \in 0..L /\ i \in Nat
    BY <1>2
  <2>2. v = Keep(w, e, S) /\ KeptOf(q, S, i, w)
    BY <1>1, <1>4, <2>1
  <2>3. \A j : j \in 1..(i + 1) <=> (j \in 1..i \/ j = i + 1)
    BY <2>1
  <2> HIDE DEF w, v
  <2>4. CASE e \notin S
    <3>1. v = w
      BY <2>2, <2>4 DEF Keep
    <3>2. KeptOf(q, S, i + 1, v)
      BY <2>2, <2>3, <2>4, <3>1 DEF KeptOf
    <3> QED
      BY <2>1, <3>2 DEF v
  <2>5. CASE e \in S
    <3>1. v = Append(w, e)
      BY <2>2, <2>5 DEF Keep
    <3>2. IsSeq(w) /\ Len(w) \in Nat
      BY <2>2, IsSeqLen DEF KeptOf
    <3>3. /\ IsSeq(v) /\ Len(v) = Len(w) + 1 /\ v[Len(w) + 1] = e
          /\ \A k \in 1..Len(w) : v[k] = w[k]
      BY <3>1, <3>2, IsSeqAppend
    <3> DEFINE K == Len(w)
    <3>4. K \in Nat /\ Len(v) = K + 1
          /\ \A k : k \in 1..(K + 1) <=> (k \in 1..K \/ k = K + 1)
      BY <3>2, <3>3
    <3>5. \A k \in 1..K : w[k] \in S /\ \E j \in 1..i : w[k] = q[j]
      BY <2>2 DEF KeptOf
    <3>6. \A j \in 1..i : q[j] \in S => \E k \in 1..K : w[k] = q[j]
      BY <2>2 DEF KeptOf
    <3>7. v[K + 1] = e /\ \A k \in 1..K : v[k] = w[k]
      BY <3>3
    <3> HIDE DEF K
    <3>8. \A k \in 1..Len(v) : v[k] \in S /\ \E j \in 1..(i + 1) : v[k] = q[j]
      BY <2>3, <2>5, <3>4, <3>5, <3>7
    <3>9. \A j \in 1..(i + 1) : q[j] \in S => \E k \in 1..Len(v) : v[k] = q[j]
      BY <2>3, <3>4, <3>6, <3>7
    <3>10. ASSUME Distinct(q) PROVE Distinct(v)
      <4>1. ASSUME NEW k \in 1..K PROVE v[k].op # e.op
        <5>1. PICK j \in 1..i : w[k] = q[j]
          BY <3>5
        <5>2. j \in 1..L /\ j # i + 1
          BY <1>2, <2>1, <5>1
        <5> QED
          BY <2>1, <3>7, <3>10, <5>1, <5>2 DEF Distinct
      <4>2. \A k, l \in 1..K : k # l => w[k].op # w[l].op
        BY <2>2, <3>10 DEF KeptOf, Distinct, K
      <4> QED
        BY <3>4, <3>7, <4>1, <4>2 DEF Distinct
    <3>11. KeptOf(q, S, i + 1, v)
      BY <3>3, <3>8, <3>9, <3>10 DEF KeptOf
    <3> QED
      BY <2>1, <3>11 DEF v
  <2> QED
    BY <2>4, <2>5
<1>5. 0..L \subseteq T
  <2> HIDE DEF T, L
  <2> QED
    BY <1>2, <1>3, <1>4, Climb
<1>6. L \in 0..L
  BY <1>2
<1> QED
  BY <1>1, <1>5, <1>6

(* What a transaction's end settles, and what it leaves parked. *)
Concludes(x, committed) ==
    /\ model' = SettledInOrder(x, committed).m
    /\ parked' = Within(parked, ToSet(parked) \ {q \in ToSet(parked) : q.txn = x})
    /\ parked # <<>> /\ \A c \in ackCalls : c.txn # x

Forgets == left.unknowns > 0 /\ parked' = <<>> /\ OpsKept(model, model')
             /\ model'.phase # "Open" /\ queue' = queue

LEMMA OutcomeUnfolds ==
    ASSUME TransactionOutcome
    PROVE  /\ closing = "Open" /\ ackCalls' = ackCalls /\ queue' = queue
           /\ UNCHANGED <<attached, closing, published, applied>>
           /\ \/ /\ Spend("unknowns") /\ parked' = <<>>
                 /\ model' = RequireResync(model)
                 /\ tasks' = Add(tasks, Task("outcome", 0, 0, {},
                                             Emitted(model, RequireResync(model)), {}))
              \/ /\ UNCHANGED left /\ (reconnect' => reconnect)
                 /\ \E x, committed, offers :
                      /\ Concludes(x, committed)
                      /\ \/ tasks' = tasks
                         \/ tasks' = Add(tasks, Task("outcome", 0, 0, {},
                                                     Emitted(model, model'), offers))
<1>1. PICK x \in Txns : \E v \in Verdicts \ {"open"} :
        LET mine == {q \in ToSet(parked) : q.txn = x}
            r    == IF v = "unknown" THEN [ok |-> TRUE, m |-> RequireResync(model)]
                    ELSE SettledInOrder(x, v = "committed")
            offers == {<<s, attached[s]>> :
                         s \in {s \in Segments : attached[s] # 0}}
        IN  /\ closing = "Open" /\ mine # {}
            /\ \A c \in ackCalls : c.txn # x
            /\ IF v = "unknown" THEN Spend("unknowns") ELSE UNCHANGED left
            /\ parked' = IF v = "unknown" THEN <<>>
                         ELSE Within(parked, ToSet(parked) \ mine)
            /\ reconnect' = (reconnect \/ v = "unknown")
            /\ model' = r.m
            /\ tasks' = IF ~r.ok THEN tasks
                        ELSE Add(tasks, Task("outcome", 0, 0, {},
                                   Emitted(model, r.m),
                                   IF v = "unknown" THEN {} ELSE offers))
            /\ UNCHANGED <<client, queue, ackCalls, closing, published, applied>>
  BY DEF TransactionOutcome
<1>2. PICK v \in Verdicts \ {"open"} :
        LET mine == {q \in ToSet(parked) : q.txn = x}
            r    == IF v = "unknown" THEN [ok |-> TRUE, m |-> RequireResync(model)]
                    ELSE SettledInOrder(x, v = "committed")
            offers == {<<s, attached[s]>> :
                         s \in {s \in Segments : attached[s] # 0}}
        IN  /\ closing = "Open" /\ mine # {}
            /\ \A c \in ackCalls : c.txn # x
            /\ IF v = "unknown" THEN Spend("unknowns") ELSE UNCHANGED left
            /\ parked' = IF v = "unknown" THEN <<>>
                         ELSE Within(parked, ToSet(parked) \ mine)
            /\ reconnect' = (reconnect \/ v = "unknown")
            /\ model' = r.m
            /\ tasks' = IF ~r.ok THEN tasks
                        ELSE Add(tasks, Task("outcome", 0, 0, {},
                                   Emitted(model, r.m),
                                   IF v = "unknown" THEN {} ELSE offers))
            /\ UNCHANGED <<client, queue, ackCalls, closing, published, applied>>
  BY Zenon, <1>1
<1> DEFINE mine == {q \in ToSet(parked) : q.txn = x}
           offers == {<<s, attached[s]>> : s \in {s \in Segments : attached[s] # 0}}
<1>3. CASE v = "unknown"
  BY <1>2, <1>3 DEF client
<1>4. CASE v # "unknown"
  <2>1. PICK b : b = (v = "committed")
    OBVIOUS
  <2> DEFINE r == SettledInOrder(x, b)
  <2>2. /\ closing = "Open" /\ \A c \in ackCalls : c.txn # x
        /\ UNCHANGED left /\ parked' = Within(parked, ToSet(parked) \ mine)
        /\ model' = r.m
        /\ tasks' = IF ~r.ok THEN tasks
                    ELSE Add(tasks, Task("outcome", 0, 0, {}, Emitted(model, r.m), offers))
        /\ UNCHANGED <<client, queue, ackCalls, closing, published, applied>>
    BY Zenon, <1>2, <1>4, <2>1
  <2>3. reconnect' => reconnect
    BY <1>2, <1>4
  <2>6. parked # <<>>
    <3>1. \E q \in ToSet(parked) : TRUE
      BY Zenon, <1>2
    <3>2. ToSet(<<>>) = {}
      BY DEF ToSet
    <3> QED
      BY <3>1, <3>2
  <2>4. Concludes(x, b)
    BY Zenon, <2>2, <2>6 DEF Concludes
  <2>5. tasks' = tasks
        \/ tasks' = Add(tasks, Task("outcome", 0, 0, {}, Emitted(model, model'), offers))
    BY Zenon, <2>2
  <2> HIDE DEF offers, r
  <2> QED
    BY Zenon, <2>2, <2>3, <2>4, <2>5 DEF client
<1> QED
  BY <1>3, <1>4

(* A transaction ends: its operations are settled, or the aggregate fenced. *)
Outcomes ==
    /\ Base' /\ Dwindles /\ ackCalls' = ackCalls /\ queue' = queue
    /\ closing = "Open" /\ Carries(model, model')
    /\ \/ Forgets
       \/ /\ \E x, committed : Concludes(x, committed)
          /\ SettlesTo(model, model')

LEMMA OutcomeBase ==
    ASSUME Base, Carries(model, model'), Manned(model', tasks'), Dwindles,
           UNCHANGED <<attached, closing, published, applied, queue>>, IsSeq(parked'),
           (reconnect' => reconnect) \/ model'.phase # "Open"
    PROVE  Base'
<1>1. /\ Ok(model) /\ Ok(model') /\ Ages(model, model') /\ Dry(model')
      /\ Onward(model.phase, model'.phase)
  BY DEF Base, Carries
<1>2. Lodged(model', attached, closing)
  BY <1>1, AgesLodged DEF Base
<1>3. Staged(model'.phase, closing, reconnect')
  BY <1>1 DEF Base, Staged, Onward
<1>4. Counters(left', published', applied')
  BY BaseParts DEF Dwindles, Counters
<1> QED
  BY <1>1, <1>2, <1>3, <1>4, BaseParts DEF Base

LEMMA TransactionOutcomeIs ==
    ASSUME Base, TransactionOutcome
    PROVE  Outcomes
<1>1. /\ closing = "Open" /\ ackCalls' = ackCalls /\ queue' = queue
      /\ UNCHANGED <<attached, closing, published, applied>>
  BY OutcomeUnfolds
<1>2. CASE /\ Spend("unknowns") /\ parked' = <<>>
           /\ model' = RequireResync(model)
           /\ tasks' = Add(tasks, Task("outcome", 0, 0, {},
                                       Emitted(model, RequireResync(model)), {}))
  <2> DEFINE n == RequireResync(model)
             t == Task("outcome", 0, 0, {}, Emitted(model, n), {})
  <2>1. /\ Carries(model, n) /\ OpsKept(model, n) /\ n.phase # "Open"
    BY ResyncCarries, BaseParts
  <2>2. model' = n /\ tasks' = Add(tasks, t) /\ IsTask(t) /\ t.acts = Emitted(model, n)
    BY <1>2, TaskIs
  <2> HIDE DEF n, t
  <2>3. Manned(n, Add(tasks, t))
    BY <2>1, <2>2, SpawnManned, AgesLater, BaseParts DEF Carries
  <2>4. Dwindles /\ left.unknowns > 0
    BY <1>2, SpentDwindles DEF Kinds, Spend
  <2>5. Base'
    BY <1>1, <1>2, <2>1, <2>2, <2>3, <2>4, OutcomeBase, BaseParts
  <2> QED
    BY <1>1, <1>2, <2>1, <2>2, <2>4, <2>5 DEF Outcomes, Forgets
<1>3. CASE /\ UNCHANGED left /\ (reconnect' => reconnect)
           /\ \E x, committed, offers :
                /\ Concludes(x, committed)
                /\ \/ tasks' = tasks
                   \/ tasks' = Add(tasks, Task("outcome", 0, 0, {},
                                               Emitted(model, model'), offers))
  <2>1. PICK x, b, offers :
                /\ Concludes(x, b)
                /\ \/ tasks' = tasks
                   \/ tasks' = Add(tasks, Task("outcome", 0, 0, {},
                                               Emitted(model, model'), offers))
    BY Zenon, <1>3
  <2> DEFINE n == SettledInOrder(x, b).m
             t == Task("outcome", 0, 0, {}, Emitted(model, model'), offers)
             S == ToSet(parked) \ {q \in ToSet(parked) : q.txn = x}
  <2>2. model' = n /\ parked' = Within(parked, S)
    BY Zenon, <2>1 DEF Concludes
  <2>3. SettlesTo(model, n)
    BY SettledGoes, BaseParts
  <2> HIDE DEF n, S
  <2>4. Carries(model, n)
    BY <2>3, SettleCarries, BaseParts
  <2>5. IsTask(t) /\ t.acts = Emitted(model, n) /\ (tasks' = tasks \/ tasks' = Add(tasks, t))
    BY <2>1, <2>2, TaskIs
  <2> HIDE DEF t
  <2>6. Manned(n, tasks) /\ Manned(n, Add(tasks, t))
    BY <2>4, <2>5, SpawnManned, MannedLater, AgesLater, BaseParts DEF Carries
  <2>7. IsSeq(parked')
    BY <2>2, WithinIs, BaseParts DEF KeptOf
  <2>8. Dwindles
    BY <1>3, UnspentDwindles
  <2>9. Base'
    BY <1>1, <1>3, <2>2, <2>4, <2>5, <2>6, <2>7, <2>8, OutcomeBase
  <2>10. \E y, d : Concludes(y, d)
    BY Zenon, <2>1
  <2> QED
    BY <1>1, <2>2, <2>3, <2>4, <2>8, <2>9, <2>10 DEF Outcomes
<1> QED
  BY <1>2, <1>3, OutcomeUnfolds

-----------------------------------------------------------------------------
(* Every step is of one of these kinds.                                    *)

Talks ==
    \/ \E op, txn : /\ Admits(op, txn)
                    /\ txn = "none" \/ left'.txnAcks < left.txnAcks
    \/ \E c \in ackCalls : Settles(c)
    \/ model' = model /\ parked' = parked /\ Answers
    \/ model' = model /\ Parks

LEMMA ExecuteShifts ==
    ASSUME Base, Execute
    PROVE  Shifts
<1>1. PICK t \in tasks : \E a \in Ready(t) :
        /\ \/ ExecOpen(t, a) \/ ExecCancel(t, a) \/ ExecGrant(t, a)
           \/ ExecClose(t, a) \/ ExecSeek(t, a)
        /\ UNCHANGED <<app, control, left>>
  BY Zenon DEF Execute
<1>2. PICK a \in Ready(t) :
        /\ \/ ExecOpen(t, a) \/ ExecCancel(t, a) \/ ExecGrant(t, a)
           \/ ExecClose(t, a) \/ ExecSeek(t, a)
        /\ UNCHANGED <<app, control, left>>
  BY Zenon, <1>1
<1>3. a \in t.acts
  BY <1>2 DEF Ready
<1>4. CASE ExecClose(t, a)
  BY <1>2, <1>3, <1>4, ExecCloseShifts
<1>5. CASE ExecOpen(t, a) \/ ExecCancel(t, a) \/ ExecGrant(t, a) \/ ExecSeek(t, a)
  <2>1. Runs
    BY <1>2, <1>5, ExecOpenRuns, ExecCancelRuns, ExecGrantRuns, ExecSeekRuns
  <2> QED
    BY <2>1, RunsShifts
<1> QED
  BY <1>2, <1>4, <1>5

LEMMA StepIs ==
    ASSUME Base, Next
    PROVE  \/ Shifts \/ Rejoins \/ Lands \/ Discards \/ Receives
           \/ Restores \/ Outcomes \/ (Steady /\ QueueKept /\ Talks)
<1>1. CASE Runtime
  <2>1. CASE ControlUpdate \/ SpawnActions \/ TryComplete \/ BrokerAttach \/ OpenBusy
             \/ \E s \in Segments : LoopReceive(s) \/ LoopTerminal(s)
    <3>1. Runs
      BY <2>1, ControlUpdateRuns, SpawnActionsRuns, TryCompleteRuns, BrokerAttachRuns,
         OpenBusyRuns,
         LoopReceiveRuns, LoopTerminalRuns
    <3> QED
      BY <3>1, RunsShifts
  <2>2. CASE OpenReturns
    BY <2>2, OpenReturnsIs, RunsShifts, OpenStepShifts
  <2> QED
    BY <1>1, <2>1, <2>2, ExecuteShifts, ReconnectRejoins, FinalizeLands DEF Runtime
<1>2. CASE Application
  <2>1. CASE NegativeAcknowledge \/ SeekPositions \/ DropClose
    BY <2>1, NegativeAcknowledgeRuns, SeekPositionsRuns, DropCloseRuns, RunsShifts
  <2>2. CASE RestoreDelivery
    BY <2>2, RestoreDeliveryIs, RunsShifts
  <2>3. CASE Acknowledge \/ AcknowledgeCumulative \/ AcknowledgeInTransaction
    BY <2>3, AcknowledgesIs DEF Talks
  <2>4. CASE AckComponent \/ SettleAck \/ AbandonAck \/ ParkTxnAck
    BY <2>4, AckComponentIs, SettleAckIs, AbandonAckIs, ParkTxnAckIs DEF Talks
  <2> QED
    BY <1>2, <2>1, <2>2, <2>3, <2>4, ReceiveIs, CloseCallShifts, FinishCloseShifts,
       TransactionOutcomeIs DEF Application
<1>3. CASE Failures
  <2>1. CASE ControlFails \/ SeekFails \/ OpenFails \/ \E s \in Segments : LoopFails(s)
    <3>1. Runs
      BY <2>1, ControlFailsRuns, SeekFailsRuns, OpenFailsRuns, LoopFailsRuns
    <3> QED
      BY <3>1, RunsShifts
  <2> QED
    BY <1>3, <2>1, CloseFailsShifts DEF Failures
<1>4. CASE Environment
  BY <1>4, EnvironmentRuns, RunsShifts
<1> QED
  BY <1>1, <1>2, <1>3, <1>4 DEF Next

LEMMA StutterShifts ==
    ASSUME Base, UNCHANGED vars
    PROVE  Shifts
<1>1. Tends(model, model') /\ Manned(model', tasks') /\ Undisturbed /\ Dwindles
  BY BaseParts, UnspentDwindles DEF vars, Undisturbed
<1> QED
  BY <1>1, TendsRuns, RunsShifts

LEMMA InitBase == Init => Base
<1> SUFFICES ASSUME Init PROVE Base
  OBVIOUS
<1> DEFINE n == ApplyControlPlane(InitModel, Plan[1].layout, Plan[1].assigned)
           t == Task("control", 0, 0, {}, Emitted(InitModel, n), {})
<1>1. model = n /\ tasks = Add({}, t)
  BY DEF Init
<1>2. IsTask(t) /\ t.acts = Emitted(InitModel, n)
  BY TaskIs
<1>3. 1 \in 1..Len(Plan) /\ Len(Plan) \in Nat
  BY RuntimeAssumption
<1>4. Dry(InitModel)
  BY InitModelIs DEF Dry
<1>5. Tends(InitModel, n) /\ n.phase = "Open"
  BY <1>3, <1>4, PlanIs, InitModelIs, ApplyTends
<1> HIDE DEF n, t
<1>6. Ok(n) /\ Dry(n) /\ Ages(InitModel, n)
  BY <1>5 DEF Tends, Carries
<1>7. Manned(n, Add({}, t))
  BY <1>2, <1>6, InitModelIs, SpawnManned, AgesLater DEF Manned
<1>8. Lodged(n, attached, closing)
  <2>1. attached = [s \in Segments |-> 0] /\ closing = "Open"
    BY DEF Init
  <2>2. n.nextGen \in Nat /\ n.nextGen >= 1
    BY <1>6, OkParts DEF Numbered
  <2>3. \A s \in DOMAIN n.children : ~Lives(n.children[s])
    BY <1>6, InitModelIs DEF Ages, Aged, Lives
  <2> QED
    BY <2>1, <2>2, <2>3 DEF Lodged
<1>9. Staged(n.phase, closing, reconnect)
  BY <1>5 DEF Init, Staged
<1>10. Counters(left, published, applied)
  BY <1>3, RuntimeAssumption DEF Init, Counters
<1>11. IsSeq(queue) /\ IsSeq(parked)
  <2>1. <<>> \in Seq({}) /\ queue = <<>> /\ parked = <<>>
    BY DEF Init
  <2> QED
    BY <2>1 DEF IsSeq
<1> QED
  BY <1>1, <1>6, <1>7, <1>8, <1>9, <1>10, <1>11 DEF Base

LEMMA NextBase == Base /\ [Next]_vars => Base'
<1> SUFFICES ASSUME Base, [Next]_vars PROVE Base'
  OBVIOUS
<1>1. CASE Next
  BY <1>1, StepIs, SteadyBase DEF Shifts, Rejoins, Lands, Discards, Receives, Restores, Outcomes
<1>2. CASE UNCHANGED vars
  BY <1>2, StutterShifts DEF Shifts
<1> QED
  BY <1>1, <1>2

(* The facts about every state that the other proofs start from hold. *)
THEOREM StreamBase == Spec => []Base
  BY InitBase, NextBase, PTL DEF Spec

(* The receive budget is never exceeded, whatever arrives, restarts or is  *)
(* redelivered: every charge is taken under the same lock that checks the  *)
(* room, and every other change gives back at least what it takes.         *)
THEOREM BudgetFits == Spec => [](Used(model) =< BudgetLimit)
<1>1. Base => Used(model) =< BudgetLimit
  BY OkParts DEF Base, Fits
<1> QED
  BY <1>1, StreamBase, PTL

-----------------------------------------------------------------------------
(* The barrier counts exactly what is retained: what waits in the queue    *)
(* without a token is what the children have retained.                     *)

FreshOf(q, s) == {i \in DOMAIN q : q[i].token = <<>> /\ q[i].seg = s}

Stocked(m, q) ==
    /\ m.phase # "Open" => q = <<>>
    /\ m.phase = "Open" =>
         \A s \in Segments : Cardinality(FreshOf(q, s)) = Stock(m, s)

Barred == Base /\ Stocked(model, queue) /\ left.unknowns = 0

LEMMA Paired ==
    ASSUME NEW A, NEW B, IsFiniteSet(A), NEW f \in [A -> B],
           \A a, b \in A : f[a] = f[b] => a = b,
           \A b \in B : \E a \in A : f[a] = b
    PROVE  Cardinality(B) = Cardinality(A)
<1>1. f \in Bijection(A, B)
  BY DEF Bijection, Injection, Surjection, IsInjective
<1>2. ExistsBijection(A, B)
  BY <1>1 DEF ExistsBijection
<1> QED
  BY <1>2, FS_Bijection

LEMMA FreshFinite ==
    ASSUME NEW q, IsSeq(q), NEW s
    PROVE  IsFiniteSet(FreshOf(q, s)) /\ Cardinality(FreshOf(q, s)) \in Nat
<1>1. Len(q) \in Nat /\ FreshOf(q, s) \in SUBSET (1..Len(q))
  BY IsSeqLen DEF FreshOf
<1>2. IsFiniteSet(1..Len(q))
  BY <1>1, FS_Interval
<1> QED
  BY <1>1, <1>2, FS_Subset, FS_CardinalityType

LEMMA FreshNone ==
    ASSUME NEW s
    PROVE  Cardinality(FreshOf(<<>>, s)) = 0
<1>1. FreshOf(<<>>, s) = {}
  BY DEF FreshOf
<1> QED
  BY <1>1, FS_EmptySet

LEMMA FreshAppended ==
    ASSUME NEW q, IsSeq(q), NEW e, NEW s, e.token = <<>>
    PROVE  /\ e.seg = s => Cardinality(FreshOf(Append(q, e), s)) = Cardinality(FreshOf(q, s)) + 1
           /\ e.seg # s => Cardinality(FreshOf(Append(q, e), s)) = Cardinality(FreshOf(q, s))
<1> DEFINE r == Append(q, e)
           L == Len(q)
<1>1. /\ IsSeq(r) /\ Len(r) = L + 1 /\ r[L + 1] = e /\ L \in Nat
      /\ \A i \in 1..L : r[i] = q[i]
  BY IsSeqAppend, IsSeqLen
<1>2. DOMAIN r = 1..(L + 1) /\ DOMAIN q = 1..L
  BY <1>1, IsSeqLen
<1> HIDE DEF r, L
<1>3. L + 1 \notin 1..L /\ \A i : i \in 1..(L + 1) <=> (i \in 1..L \/ i = L + 1)
  BY <1>1
<1>4. e.seg = s => FreshOf(r, s) = FreshOf(q, s) \cup {L + 1}
  BY <1>1, <1>2, <1>3 DEF FreshOf
<1>5. e.seg # s => FreshOf(r, s) = FreshOf(q, s)
  BY <1>1, <1>2, <1>3 DEF FreshOf
<1>6. L + 1 \notin FreshOf(q, s)
  BY <1>2, <1>3 DEF FreshOf
<1> QED
  BY <1>4, <1>5, <1>6, FreshFinite, FS_AddElement DEF r

LEMMA FreshInserted ==
    ASSUME NEW q, IsSeq(q), NEW r, NEW i, NEW e, Inserted(q, r, i, e),
           e.token # <<>>, NEW s
    PROVE  Cardinality(FreshOf(r, s)) = Cardinality(FreshOf(q, s))
<1> DEFINE L == Len(q)
           A == FreshOf(q, s)
           B == FreshOf(r, s)
           f == [j \in A |-> IF j < i THEN j ELSE j + 1]
<1>1. /\ L \in Nat /\ DOMAIN q = 1..L /\ DOMAIN r = 1..(L + 1)
      /\ i \in 1..(L + 1)
      /\ \A j \in 1..(i - 1) : r[j] = q[j]
      /\ r[i] = e
      /\ \A j \in i..L : r[j + 1] = q[j]
  BY IsSeqLen DEF Inserted
<1> HIDE DEF L
<1>2. \A j \in A : j \in 1..L /\ q[j].token = <<>> /\ q[j].seg = s
  BY <1>1 DEF FreshOf
<1>3. ASSUME NEW j \in A PROVE f[j] \in B
  <2>1. CASE j < i
    <3>1. j \in 1..(i - 1) /\ j \in 1..(L + 1) /\ f[j] = j
      BY <1>1, <1>2, <2>1
    <3> QED
      BY <1>1, <1>2, <3>1 DEF FreshOf
  <2>2. CASE ~(j < i)
    <3>1. j \in i..L /\ j + 1 \in 1..(L + 1) /\ f[j] = j + 1
      BY <1>1, <1>2, <2>2
    <3>2. r[j + 1] = q[j]
      BY <1>1, <3>1
    <3> QED
      BY <1>1, <1>2, <3>1, <3>2 DEF FreshOf
  <2> QED
    BY <2>1, <2>2
<1>4. f \in [A -> B]
  <2>1. f = [j \in A |-> f[j]]
    OBVIOUS
  <2> HIDE DEF f
  <2> QED
    BY <1>3, <2>1
<1>5. \A a, b \in A : f[a] = f[b] => a = b
  BY <1>1, <1>2
<1>6. ASSUME NEW b \in B PROVE \E a \in A : f[a] = b
  <2>1. b \in 1..(L + 1) /\ r[b].token = <<>> /\ r[b].seg = s
    BY <1>1 DEF FreshOf
  <2>2. CASE b < i
    <3>1. b \in 1..(i - 1) /\ b \in 1..L
      BY <1>1, <2>1, <2>2
    <3>2. b \in A
      BY <1>1, <2>1, <3>1 DEF FreshOf
    <3> QED
      BY <2>2, <3>2
  <2>3. CASE b = i
    BY <1>1, <2>1, <2>3
  <2>4. CASE b > i
    <3>1. b - 1 \in i..L /\ b - 1 \in 1..L /\ (b - 1) + 1 = b /\ ~(b - 1 < i)
      BY <1>1, <2>1, <2>4
    <3>2. r[(b - 1) + 1] = q[b - 1]
      BY <1>1, <3>1
    <3>3. b - 1 \in A
      BY <1>1, <2>1, <3>1, <3>2 DEF FreshOf
    <3>4. f[b - 1] = b
      BY <3>1, <3>3
    <3> QED
      BY <3>3, <3>4
  <2> QED
    BY <1>1, <2>1, <2>2, <2>3, <2>4
<1> HIDE DEF f
<1> QED
  BY <1>4, <1>5, <1>6, Paired, FreshFinite

LEMMA FreshRest ==
    ASSUME IsSeq(queue), NEW k \in 1..Len(queue), NEW s
    PROVE  Cardinality(FreshOf(SubSeq(queue, k + 1, Len(queue)), s))
             = Cardinality(FreshOf(queue, s)) - Cardinality(FreshIn(k, s))
<1> DEFINE L == Len(queue)
           r == SubSeq(queue, k + 1, Len(queue))
           A == FreshOf(r, s)
           B == {j \in (k + 1)..L : queue[j].token = <<>> /\ queue[j].seg = s}
           f == [j \in A |-> k + j]
<1>0. L \in Nat /\ k \in Nat /\ k \in 0..L /\ k =< L /\ DOMAIN queue = 1..L
  BY IsSeqLen
<1>1. IsSeq(r) /\ DOMAIN r = 1..(L - k) /\ \A i \in 1..(L - k) : r[i] = queue[k + i]
  <2>1. /\ IsSeq(r) /\ Len(r) = L - k
        /\ \A i \in 1..(L - k) : r[i] = queue[k + i]
    BY <1>0, IsSeqPart
  <2> QED
    BY SMTT(40), <2>1, IsSeqLen
<1> HIDE DEF r, L
<1>2. \A j \in A : j \in 1..(L - k) /\ r[j].token = <<>> /\ r[j].seg = s
  BY <1>1 DEF FreshOf
<1>3. ASSUME NEW j \in A PROVE k + j \in B
  <2>1. k + j \in (k + 1)..L
    BY <1>0, <1>2
  <2> QED
    BY <1>1, <1>2, <2>1
<1>4. f \in [A -> B] /\ \A a, b \in A : f[a] = f[b] => a = b
  BY <1>0, <1>2, <1>3
<1>5. ASSUME NEW b \in B PROVE \E a \in A : f[a] = b
  <2>1. b - k \in 1..(L - k) /\ k + (b - k) = b
    BY <1>0
  <2>2. r[b - k] = queue[b]
    BY <1>1, <2>1
  <2>3. b - k \in A
    BY <1>1, <2>1, <2>2 DEF FreshOf
  <2> QED
    BY <2>1, <2>3
<1>6. Cardinality(B) = Cardinality(A) /\ IsFiniteSet(A) /\ Cardinality(A) \in Nat
  <2> HIDE DEF f, A, B
  <2>1. IsFiniteSet(A) /\ Cardinality(A) \in Nat
    BY <1>1, FreshFinite DEF A
  <2> QED
    BY <1>4, <1>5, <2>1, Paired
<1> DEFINE C == FreshIn(k, s)
           D == FreshOf(queue, s)
<1>7. IsFiniteSet(C) /\ Cardinality(C) \in Nat /\ IsFiniteSet(D) /\ Cardinality(D) \in Nat
  BY <1>0, FreshInNext, FreshFinite
<1>8. D = C \cup B /\ C \cap B = {}
  BY <1>0 DEF FreshOf, FreshIn
<1>9. IsFiniteSet(B) /\ Cardinality(B) \in Nat
  <2>1. B \subseteq D
    BY <1>8
  <2> QED
    BY <1>6, <1>7, <2>1, FS_Subset
<1> HIDE DEF A, B, C, D
<1>10. Cardinality(D) = Cardinality(C) + Cardinality(B) - Cardinality(C \cap B)
       /\ Cardinality(C \cap B) = 0
  BY <1>7, <1>8, <1>9, FS_Union, FS_EmptySet
<1> QED
  BY <1>6, <1>7, <1>9, <1>10 DEF A, C, D, r, L

LEMMA KeptStocked ==
    ASSUME Stocked(model, queue), QueueKept, Keeps(model, model'),
           model'.phase = "Open" => model.phase = "Open"
    PROVE  Stocked(model', queue')
  BY DEF Stocked, QueueKept, Keeps

LEMMA DwindlesUnknown ==
    ASSUME left \in [Kinds -> Nat], Dwindles, NEW k \in Kinds, left[k] = 0
    PROVE  left'[k] = 0
  BY DEF Dwindles

LEMMA LandsStocked ==
    ASSUME Base, Stocked(model, queue), Lands
    PROVE  Stocked(model', queue')
<1>1. PICK e, s : /\ e.token = <<>> /\ e.seg = s /\ s \in Segments
                  /\ queue' = Append(queue, e)
                  /\ Stock(model', s) = Stock(model, s) + 1
                  /\ \A x \in Segments : x # s => Stock(model', x) = Stock(model, x)
  BY DEF Lands
<1>2. model.phase = "Open" /\ model'.phase = "Open"
  BY DEF Lands
<1>3. ASSUME NEW x \in Segments PROVE Cardinality(FreshOf(queue', x)) = Stock(model', x)
  <2>1. Cardinality(FreshOf(queue, x)) = Stock(model, x)
    BY <1>2 DEF Stocked
  <2>2. CASE x = s
    BY <1>1, <2>1, <2>2, FreshAppended, BaseParts
  <2>3. CASE x # s
    BY <1>1, <2>1, <2>3, FreshAppended, BaseParts
  <2> QED
    BY <2>2, <2>3
<1> QED
  BY <1>2, <1>3 DEF Stocked

LEMMA ReceivesStocked ==
    ASSUME Base, Stocked(model, queue), Receives
    PROVE  Stocked(model', queue')
<1>1. PICK k \in 1..Len(queue) :
         /\ queue' = SubSeq(queue, k + 1, Len(queue))
         /\ \A s \in Segments :
              Stock(model', s) = Stock(model, s) - Cardinality(FreshIn(k, s))
  BY DEF Receives
<1>2. model.phase = "Open"
  <2>1. queue # <<>>
    BY <1>1
  <2> QED
    BY <2>1 DEF Stocked
<1>3. ASSUME NEW s \in Segments PROVE Cardinality(FreshOf(queue', s)) = Stock(model', s)
  BY <1>1, <1>2, FreshRest, BaseParts DEF Stocked
<1> QED
  BY <1>2, <1>3 DEF Stocked, Receives

LEMMA RestoresStocked ==
    ASSUME Base, Stocked(model, queue), Restores
    PROVE  Stocked(model', queue')
<1>1. PICK i, e : e.token # <<>> /\ Inserted(queue, queue', i, e)
  BY DEF Restores
<1>2. model' = model /\ model.phase = "Open"
  BY DEF Restores
<1>3. \A s \in Segments : Cardinality(FreshOf(queue', s)) = Cardinality(FreshOf(queue, s))
  BY <1>1, FreshInserted, BaseParts
<1> QED
  BY <1>2, <1>3 DEF Stocked

LEMMA RejoinsStocked ==
    ASSUME Base, Stocked(model, queue), Rejoins
    PROVE  Stocked(model', queue')
<1>1. queue' = <<>> /\ model'.phase = "Open" /\ \A s \in Segments : Stock(model', s) = 0
  BY DEF Rejoins, Stocked
<1>2. \A s \in Segments : Cardinality(FreshOf(queue', s)) = 0
  BY <1>1, FreshNone
<1> QED
  BY <1>1, <1>2 DEF Stocked

LEMMA NextBarred ==
    ASSUME Masked = {}, Barred, [Next]_vars
    PROVE  Barred'
<1>1. Base /\ Stocked(model, queue) /\ left.unknowns = 0 /\ left \in [Kinds -> Nat]
  BY BaseParts DEF Barred
<1>2. Base'
  BY <1>1, NextBase
<1>3. CASE Shifts
  <2>1. Stocked(model', queue')
    BY <1>1, <1>3, KeptStocked DEF Shifts
  <2> QED
    BY <1>1, <1>2, <1>3, <2>1, DwindlesUnknown DEF Shifts, Kinds, Barred
<1>4. CASE Steady /\ QueueKept
  <2>1. Keeps(model, model') /\ (model'.phase = "Open" => model.phase = "Open")
    BY <1>4 DEF Steady, Carries, Onward
  <2>2. Stocked(model', queue')
    BY <1>1, <1>4, <2>1, KeptStocked
  <2> QED
    BY <1>1, <1>2, <1>4, <2>2, DwindlesUnknown DEF Steady, Kinds, Barred
<1>5. CASE Lands \/ Receives \/ Restores \/ Rejoins
  <2>1. Dwindles
    BY <1>5 DEF Lands, Receives, Restores, Rejoins
  <2>2. Stocked(model', queue')
    BY <1>1, <1>5, LandsStocked, ReceivesStocked, RestoresStocked, RejoinsStocked
  <2> QED
    BY <1>1, <1>2, <2>1, <2>2, DwindlesUnknown DEF Kinds, Barred
<1>6. CASE Outcomes
  <2>1. SettlesTo(model, model') /\ Carries(model, model') /\ queue' = queue /\ Dwindles
    BY <1>1, <1>6 DEF Outcomes, Forgets
  <2>2. model'.phase = model.phase /\ Keeps(model, model')
    BY <2>1 DEF SettlesTo, Carries
  <2>3. Stocked(model', queue')
    BY <1>1, <2>1, <2>2 DEF Stocked, Keeps
  <2> QED
    BY <1>1, <1>2, <2>1, <2>3, DwindlesUnknown DEF Kinds, Barred
<1>7. CASE Next
  BY <1>1, <1>3, <1>4, <1>5, <1>6, <1>7, StepIs DEF Discards
<1>8. CASE UNCHANGED vars
  BY <1>1, <1>3, <1>8, StutterShifts
<1> QED
  BY <1>7, <1>8

LEMMA InitBarred ==
    ASSUME \A b \in Bounds : b.unknowns = 0, Init
    PROVE  Barred
<1> DEFINE n == ApplyControlPlane(InitModel, Plan[1].layout, Plan[1].assigned)
<1>1. Base /\ queue = <<>> /\ left.unknowns = 0 /\ model = n
  BY InitBase DEF Init
<1>2. Keeps(InitModel, n)
  <2>1. 1 \in 1..Len(Plan)
    BY RuntimeAssumption
  <2>2. Dry(InitModel)
    BY InitModelIs DEF Dry
  <2> QED
    BY <2>1, <2>2, PlanIs, InitModelIs, ApplyTends DEF Tends, Carries
<1> HIDE DEF n
<1>3. \A s \in Segments : Stock(InitModel, s) = 0
  BY InitModelIs DEF Stock
<1>4. Stocked(n, <<>>)
  BY <1>2, <1>3, FreshNone DEF Stocked, Keeps
<1> QED
  BY <1>1, <1>4 DEF Barred

LEMMA BarredExact ==
    ASSUME Masked = {}, Barred
    PROVE  BarrierExact
<1>1. Ok(model) /\ Stocked(model, queue)
  BY BaseParts DEF Barred
<1>2. ASSUME NEW s \in DOMAIN model.children
      PROVE  LET c == model.children[s]
                 fresh == {i \in DOMAIN queue : queue[i].token = <<>> /\ queue[i].seg = s}
             IN  /\ c.preTerm = PermitCount(c) + c.asm + c.work + c.retained
                 /\ c.deliveries = Cardinality(Leases(model, s))
                 /\ model.phase = "Open" => c.retained = Cardinality(fresh)
  <2>1. Good(model.children[s]) /\ s \in Segments
    BY <1>1, OkParts
  <2>2. model.children[s].deliveries = Cardinality(Leases(model, s))
    BY <1>1, OkParts DEF Leased
  <2>3. model.phase = "Open" => Cardinality(FreshOf(queue, s)) = Stock(model, s)
    BY <1>1, <2>1 DEF Stocked
  <2>4. Stock(model, s) = model.children[s].retained
    BY DEF Stock
  <2> QED
    BY <2>1, <2>2, <2>3, <2>4 DEF Good, Balanced, FreshOf
<1> QED
  BY <1>2 DEF BarrierExact

(* Without batches that are fully acknowledged already, whose discard      *)
(* leaves the barrier counting them, and without a transaction of unknown  *)
(* outcome, which fences the aggregate but leaves the queue, a segment's   *)
(* completion barrier counts exactly its share of the ledger, the queue    *)
(* and the live leases (StreamConsumerModel's SegmentBarrier).             *)
THEOREM BarrierIsExact ==
    ASSUME Masked = {}, \A b \in Bounds : b.unknowns = 0
    PROVE  Spec => []BarrierExact
<1>1. Init => Barred
  BY InitBarred
<1>2. Barred /\ [Next]_vars => Barred'
  BY NextBarred
<1>3. Barred => BarrierExact
  BY BarredExact
<1> QED
  BY <1>1, <1>2, <1>3, PTL DEF Spec

-----------------------------------------------------------------------------
(* Every operation that was admitted is owned by a call or by the          *)
(* transaction it was parked under.                                        *)

IsCall(c) ==
    c \in [op : {c.op}, txn : {c.txn}, left : {c.left}, done : {c.done},
           failed : {c.failed}]

Owners(m, A, P) ==
    \A op \in m.ops : (\E c \in A : c.op = op) \/ \E i \in 1..Len(P) : P[i].op = op

(* One acknowledgement in a transaction, which k still allows, is in a     *)
(* call or is parked.                                                      *)
Scarce(A, P, k) ==
    /\ k = 0 \/ k = 1
    /\ Len(P) =< 1
    /\ k = 1 \/ P # <<>> => \A c \in A : c.txn = "none"
    /\ k = 1 => P = <<>>
    /\ \A c, d \in A : c.txn # "none" /\ d.txn # "none" => c = d

(* While the aggregate is open, every authority is current, and one of a   *)
(* kind.                                                                   *)
Current(m, A, P) ==
    m.phase = "Open" =>
       /\ \A c \in A : c.op \in m.ops
       /\ \A i \in 1..Len(P) : P[i].op \in m.ops
       /\ \A c, d \in A : c.op = d.op => c = d
       /\ Distinct(P)
       /\ \A c \in A : \A i \in 1..Len(P) : c.op # P[i].op

Handled(m, A, P, lf) ==
    /\ \A c \in A : IsCall(c)
    /\ Owners(m, A, P)
    /\ \/ Scarce(A, P, lf.txnAcks)
       \/ lf.reconnects = 0 /\ Current(m, A, P)

Tidy == Base /\ Handled(model, ackCalls, parked, left)

LEMMA AnsweredIs ==
    ASSUME NEW c, IsCall(c), NEW L, NEW X, NEW f
    PROVE  LET d == Answered(c, L, X, f)
           IN  IsCall(d) /\ d.op = c.op /\ d.txn = c.txn
<1> DEFINE d == Answered(c, L, X, f)
<1>1. d = [op |-> c.op, txn |-> c.txn, left |-> L, done |-> X, failed |-> f]
  <2>1. PICK o, x, l, b, g : c \in [op : {o}, txn : {x}, left : {l}, done : {b}, failed : {g}]
    BY Zenon DEF IsCall
  <2>2. d = [c EXCEPT !.left = L, !.done = X, !.failed = f]
    BY Zenon DEF Answered
  <2>3. c = [op |-> o, txn |-> x, left |-> l, done |-> b, failed |-> g]
    BY <2>1
  <2> QED
    BY <2>2, <2>3
<1> HIDE DEF d
<1>2. IsCall(d) /\ d.op = c.op /\ d.txn = c.txn
  BY <1>1 DEF IsCall
<1> QED
  BY <1>2 DEF d

LEMMA NewCallIs ==
    ASSUME NEW op, NEW txn
    PROVE  IsCall(NewCall(op, txn)) /\ NewCall(op, txn).op = op /\ NewCall(op, txn).txn = txn
  BY DEF NewCall, IsCall

(* Not open: there is nothing to own. *)
LEMMA ShutOwners ==
    ASSUME NEW m, Ok(m), m.phase # "Open", NEW A, NEW P
    PROVE  Owners(m, A, P) /\ Current(m, A, P)
<1>1. m.ops = {}
  BY OkParts DEF Phased
<1> QED
  BY <1>1 DEF Owners, Current

LEMMA SameHandled ==
    ASSUME NEW m, NEW n, NEW A, NEW P, NEW Q, NEW lf, NEW lg, Ok(n), OpsKept(m, n),
           Handled(m, A, P, lf), lf.txnAcks \in Nat, lg.txnAcks \in Nat,
           lg.txnAcks =< lf.txnAcks,
           lf.reconnects = 0 => lg.reconnects = 0,
           n.phase = "Open" => m.phase = "Open",
           Q = P \/ (Q = <<>> /\ n.phase # "Open")
    PROVE  Handled(n, A, Q, lg)
<1>1. CASE n.phase # "Open"
  <2>1. Owners(n, A, Q) /\ Current(n, A, Q)
    BY <1>1, ShutOwners
  <2>2. Scarce(A, P, lf.txnAcks) => Scarce(A, Q, lg.txnAcks)
    BY DEF Scarce
  <2> QED
    BY <2>1, <2>2 DEF Handled
<1>2. CASE n.phase = "Open"
  <2>1. n.ops = m.ops /\ m.phase = "Open" /\ Q = P
    BY <1>2 DEF OpsKept
  <2>2. Owners(n, A, Q) /\ (Current(m, A, P) => Current(n, A, Q))
    BY <1>2, <2>1 DEF Owners, Current, Handled
  <2>3. Scarce(A, P, lf.txnAcks) => Scarce(A, Q, lg.txnAcks)
    BY <2>1 DEF Scarce
  <2> QED
    BY <2>1, <2>2, <2>3 DEF Handled
<1> QED
  BY <1>1, <1>2

LEMMA LeftIs ==
    ASSUME Base, Dwindles
    PROVE  /\ left.reconnects = 0 => left'.reconnects = 0
           /\ left.txnAcks \in Nat /\ left'.txnAcks \in Nat /\ left'.txnAcks =< left.txnAcks
  BY BaseParts, DwindlesUnknown DEF Kinds, Dwindles

LEMMA AdmitsHandled ==
    ASSUME Base, Handled(model, ackCalls, parked, left), Dwindles, NEW op, NEW txn,
           Admits(op, txn), txn = "none" \/ left'.txnAcks < left.txnAcks
    PROVE  Handled(model', ackCalls', parked', left')
<1> DEFINE c == NewCall(op, txn)
<1>1. IsCall(c) /\ c.op = op /\ c.txn = txn
  BY NewCallIs
<1>2. /\ model.phase = "Open" /\ model'.phase = "Open"
      /\ op \notin model.ops /\ model'.ops = model.ops \cup {op}
      /\ ackCalls' = ackCalls \cup {c} /\ parked' = parked
  BY DEF Admits
<1> HIDE DEF c
<1>3. /\ left.reconnects = 0 => left'.reconnects = 0
      /\ left.txnAcks \in Nat /\ left'.txnAcks \in Nat /\ left'.txnAcks =< left.txnAcks
  BY LeftIs
<1>4. \A d \in ackCalls' : IsCall(d)
  BY <1>1, <1>2 DEF Handled
<1>5. Owners(model', ackCalls', parked')
  BY <1>1, <1>2 DEF Handled, Owners
<1>6. CASE Scarce(ackCalls, parked, left.txnAcks)
  <2>1. Scarce(ackCalls', parked', left'.txnAcks)
    BY <1>1, <1>2, <1>3, <1>6 DEF Scarce
  <2> QED
    BY <1>3, <1>4, <1>5, <1>6, <2>1 DEF Handled
<1>7. CASE left.reconnects = 0 /\ Current(model, ackCalls, parked)
  <2>1. Current(model', ackCalls', parked')
    BY <1>1, <1>2, <1>7 DEF Current
  <2> QED
    BY <1>3, <1>4, <1>5, <1>7, <2>1 DEF Handled
<1> QED
  BY <1>6, <1>7 DEF Handled

LEMMA SettlesHandled ==
    ASSUME Base, Handled(model, ackCalls, parked, left), Dwindles,
           NEW c \in ackCalls, Settles(c)
    PROVE  Handled(model', ackCalls', parked', left')
<1>1. /\ model'.phase = model.phase /\ model'.ops = model.ops \ {c.op}
      /\ ackCalls' = ackCalls \ {c} /\ parked' = parked
  BY DEF Settles
<1>2. /\ left.reconnects = 0 => left'.reconnects = 0
      /\ left.txnAcks \in Nat /\ left'.txnAcks \in Nat /\ left'.txnAcks =< left.txnAcks
  BY LeftIs
<1>3. \A d \in ackCalls' : IsCall(d)
  BY <1>1 DEF Handled
<1>4. Owners(model', ackCalls', parked')
  BY <1>1 DEF Handled, Owners
<1>5. CASE Scarce(ackCalls, parked, left.txnAcks)
  <2>1. Scarce(ackCalls', parked', left'.txnAcks)
    BY <1>1, <1>2, <1>5 DEF Scarce
  <2> QED
    BY <1>3, <1>4, <2>1 DEF Handled
<1>6. CASE left.reconnects = 0 /\ Current(model, ackCalls, parked)
  <2>1. Current(model', ackCalls', parked')
    BY <1>1, <1>6 DEF Current
  <2> QED
    BY <1>2, <1>3, <1>4, <1>6, <2>1 DEF Handled
<1> QED
  BY <1>5, <1>6 DEF Handled

LEMMA AnswersHandled ==
    ASSUME Base, Handled(model, ackCalls, parked, left), Dwindles,
           model' = model, parked' = parked, Answers
    PROVE  Handled(model', ackCalls', parked', left')
<1>1. PICK c \in ackCalls : \E L, X, f :
         ackCalls' = (ackCalls \ {c}) \cup {Answered(c, L, X, f)}
  BY DEF Answers
<1>2. PICK L, X, f : ackCalls' = (ackCalls \ {c}) \cup {Answered(c, L, X, f)}
  BY <1>1
<1> DEFINE d == Answered(c, L, X, f)
<1>3. IsCall(d) /\ d.op = c.op /\ d.txn = c.txn
  BY AnsweredIs DEF Handled
<1>4. ackCalls' = (ackCalls \ {c}) \cup {d}
  BY <1>2
<1> HIDE DEF d
<1>5. /\ left.reconnects = 0 => left'.reconnects = 0
      /\ left.txnAcks \in Nat /\ left'.txnAcks \in Nat /\ left'.txnAcks =< left.txnAcks
  BY LeftIs
<1>6. \A e \in ackCalls' : IsCall(e)
  BY <1>3, <1>4 DEF Handled
<1>7. Owners(model', ackCalls', parked')
  BY <1>3, <1>4 DEF Handled, Owners
<1>8. CASE Scarce(ackCalls, parked, left.txnAcks)
  <2>1. Scarce(ackCalls', parked', left'.txnAcks)
    BY <1>3, <1>4, <1>5, <1>8 DEF Scarce
  <2> QED
    BY <1>6, <1>7, <2>1 DEF Handled
<1>9. CASE left.reconnects = 0 /\ Current(model, ackCalls, parked)
  <2>1. Current(model', ackCalls', parked')
    BY <1>3, <1>4, <1>9 DEF Current
  <2> QED
    BY <1>5, <1>6, <1>7, <1>9, <2>1 DEF Handled
<1> QED
  BY <1>8, <1>9 DEF Handled

LEMMA ParksCurrent ==
    ASSUME Base, Handled(model, ackCalls, parked, left), Dwindles,
           model' = model, Parks, left.reconnects = 0, Current(model, ackCalls, parked)
    PROVE  Handled(model', ackCalls', parked', left')
<1>1. PICK c \in ackCalls :
        /\ c.txn # "none" /\ ackCalls' = ackCalls \ {c}
        /\ parked' = IF closing = "Open"
                     THEN Append(parked, [txn |-> c.txn, op |-> c.op])
                     ELSE parked
  BY DEF Parks
<1>2. left.reconnects = 0 /\ Current(model, ackCalls, parked)
  OBVIOUS
<1>3. left'.reconnects = 0 /\ \A d \in ackCalls' : IsCall(d)
  BY <1>1, LeftIs DEF Handled
<1>4. CASE model.phase # "Open"
  <2>1. Owners(model', ackCalls', parked') /\ Current(model', ackCalls', parked')
    BY <1>4, ShutOwners, BaseParts
  <2> QED
    BY <1>3, <2>1 DEF Handled
<1>5. CASE model.phase = "Open"
  <2> DEFINE e == [txn |-> c.txn, op |-> c.op]
             K == Len(parked)
             P == parked'
  <2>1. closing = "Open"
    BY <1>5 DEF Base, Staged
  <2>2. P = Append(parked, e) /\ e.op = c.op
    BY <1>1, <2>1
  <2>3. /\ Len(P) = K + 1 /\ P[K + 1] = e /\ K \in Nat
        /\ \A i \in 1..K : P[i] = parked[i]
    <3> HIDE DEF e
    <3> QED
      BY <2>2, IsSeqAppend, IsSeqLen, BaseParts
  <2>4. \A i : i \in 1..(K + 1) <=> (i \in 1..K \/ i = K + 1)
    BY <2>3
  <2>5. /\ \A d \in ackCalls : d.op \in model.ops
        /\ \A i \in 1..K : parked[i].op \in model.ops
        /\ \A d, b \in ackCalls : d.op = b.op => d = b
        /\ \A i, j \in 1..K : i # j => parked[i].op # parked[j].op
        /\ \A d \in ackCalls : \A i \in 1..K : d.op # parked[i].op
    BY <1>2, <1>5 DEF Current, Distinct
  <2>6. \A op \in model.ops : (\E d \in ackCalls : d.op = op)
                              \/ \E i \in 1..K : parked[i].op = op
    BY DEF Handled, Owners
  <2> HIDE DEF e, K, P
  <2>7. Owners(model, ackCalls', P)
    <3> SUFFICES ASSUME NEW op \in model.ops
                 PROVE  (\E d \in ackCalls' : d.op = op) \/ \E i \in 1..(K + 1) : P[i].op = op
      BY <2>3 DEF Owners
    <3>1. CASE op = c.op
      BY <2>2, <2>3, <2>4, <3>1
    <3>2. CASE op # c.op
      BY <1>1, <2>3, <2>4, <2>6, <3>2
    <3> QED
      BY <3>1, <3>2
  <2>8. \A i \in 1..(K + 1) : P[i].op \in model.ops
    BY <2>2, <2>3, <2>4, <2>5
  <2>9. Distinct(P)
    <3> SUFFICES ASSUME NEW i \in 1..(K + 1), NEW j \in 1..(K + 1), i # j
                 PROVE  P[i].op # P[j].op
      BY <2>3 DEF Distinct
    <3> QED
      BY <2>2, <2>3, <2>4, <2>5
  <2>10. \A d \in ackCalls' : \A i \in 1..(K + 1) : d.op # P[i].op
    BY <1>1, <2>2, <2>3, <2>4, <2>5
  <2>11. Current(model, ackCalls', P)
    BY <1>1, <2>3, <2>5, <2>8, <2>9, <2>10 DEF Current
  <2> QED
    BY <1>3, <2>7, <2>11 DEF Handled, P
<1> QED
  BY <1>4, <1>5

LEMMA ParksScarce ==
    ASSUME Base, Handled(model, ackCalls, parked, left), Dwindles,
           model' = model, Parks, Scarce(ackCalls, parked, left.txnAcks)
    PROVE  Handled(model', ackCalls', parked', left')
<1>1. PICK c \in ackCalls :
        /\ c.txn # "none" /\ ackCalls' = ackCalls \ {c}
        /\ parked' = IF closing = "Open"
                     THEN Append(parked, [txn |-> c.txn, op |-> c.op])
                     ELSE parked
  BY DEF Parks
<1>2. /\ \A d \in ackCalls' : IsCall(d) /\ d.txn = "none"
      /\ left'.txnAcks = 0 /\ parked = <<>>
  BY <1>1, LeftIs DEF Handled, Scarce
<1>3. CASE closing # "Open"
  <2>1. model.phase # "Open"
    BY <1>3 DEF Base, Staged
  <2>2. Owners(model', ackCalls', parked')
    BY <2>1, ShutOwners, BaseParts
  <2>3. Scarce(ackCalls', parked', left'.txnAcks)
    BY <1>1, <1>2, <1>3 DEF Scarce
  <2> QED
    BY <1>2, <2>2, <2>3 DEF Handled
<1>4. CASE closing = "Open"
  <2> DEFINE e == [txn |-> c.txn, op |-> c.op]
  <2>1. parked' = Append(parked, e) /\ e.op = c.op
    BY <1>1, <1>4
  <2> HIDE DEF e
  <2>2. Len(parked') = 1 /\ parked'[1] = e
    BY <1>2, <2>1
  <2>3. 1 \in 1..1 /\ Len(parked) = 0 /\ \A i : i \notin 1..0
    BY <1>2
  <2>4. Owners(model', ackCalls', parked')
    <3> SUFFICES ASSUME NEW op \in model.ops
                 PROVE  (\E d \in ackCalls' : d.op = op)
                        \/ \E i \in 1..Len(parked') : parked'[i].op = op
      BY DEF Owners
    <3>1. \E d \in ackCalls : d.op = op
      BY <2>3 DEF Handled, Owners
    <3>2. CASE op = c.op
      BY <2>1, <2>2, <2>3, <3>2
    <3>3. CASE op # c.op
      BY <1>1, <3>1, <3>3
    <3> QED
      BY <3>2, <3>3
  <2>5. Scarce(ackCalls', parked', left'.txnAcks)
    BY <1>2, <2>2 DEF Scarce
  <2> QED
    BY <1>2, <2>4, <2>5 DEF Handled
<1> QED
  BY <1>3, <1>4

LEMMA ParksHandled ==
    ASSUME Base, Handled(model, ackCalls, parked, left), Dwindles,
           model' = model, Parks
    PROVE  Handled(model', ackCalls', parked', left')
  BY ParksScarce, ParksCurrent DEF Handled

(* The operations parked for x up to place i. *)
ParkedFor(P, x, i) == {op \in {P[j].op : j \in 1..i} :
                    \E j \in 1..i : P[j].txn = x /\ P[j].op = op}

(* Every authority of the transaction is current when its turn comes. *)
LEMMA SettledAll ==
    ASSUME Ok(model), IsSeq(parked), NEW x, NEW b,
           \A i \in 1..Len(parked) : parked[i].op \in model.ops, Distinct(parked)
    PROVE  SettledInOrder(x, b).m.ops = model.ops \ ParkedFor(parked, x, Len(parked))
<1> DEFINE L == Len(parked)
<1>1. PICK f : /\ SettledInOrder(x, b) = f[L] /\ f[0] = [ok |-> TRUE, m |-> model]
               /\ \A i \in 1..L : f[i] = SettleOne(f[i - 1], parked[i], x, b)
  BY ZenonT(60), SettledUnfolds
<1>2. L \in Nat
  BY IsSeqLen
<1>3. /\ \A i \in 1..L : parked[i].op \in model.ops
      /\ \A i, j \in 1..L : i # j => parked[i].op # parked[j].op
  BY DEF Distinct
<1> HIDE DEF L
<1> DEFINE T == {i \in 0..L : /\ f[i].ok /\ Ok(f[i].m)
                              /\ f[i].m.ops = model.ops \ ParkedFor(parked, x, i)}
<1>4. 0 \in T
  <2>1. 0 \in 0..L /\ \A j : j \notin 1..0
    BY <1>2
  <2>2. ParkedFor(parked, x, 0) = {}
    BY <2>1 DEF ParkedFor
  <2>3. f[0].ok /\ f[0].m = model
    BY <1>1
  <2> QED
    BY <2>1, <2>2, <2>3
<1>5. ASSUME NEW i \in 0..(L - 1), i \in T PROVE i + 1 \in T
  <2> DEFINE p == f[i]
             r == f[i + 1]
             e == parked[i + 1]
  <2>1. i + 1 \in 1..L /\ (i + 1) - 1 = i /\ i + 1 \in 0..L /\ i \in Nat
    BY <1>2
  <2>2. r = SettleOne(p, e, x, b)
    BY <1>1, <2>1
  <2>3. p.ok /\ Ok(p.m) /\ p.m.ops = model.ops \ ParkedFor(parked, x, i)
    BY <1>5
  <2>4. \A j : j \in 1..(i + 1) <=> (j \in 1..i \/ j = i + 1)
    BY <2>1
  <2>5. \A j \in 1..i : j \in 1..L /\ j # i + 1
    BY <1>2, <2>1
  <2> HIDE DEF p, r
  <2>6. /\ SettlesTo(p.m, r.m)
        /\ r.ok /\ e.txn = x => r.m.ops = p.m.ops \ {e.op}
        /\ e.txn # x => r.m.ops = p.m.ops
        /\ p.ok /\ ~r.ok => e.txn = x /\ ~CanSettle(p.m, e.op)
    BY <2>2, <2>3, SettleOneIs
  <2>7. e.op \in model.ops /\ e.op \notin ParkedFor(parked, x, i)
    BY <1>3, <2>1, <2>5 DEF ParkedFor
  <2>8. CanSettle(p.m, e.op)
    BY <2>3, <2>7, AdmittedSettles
  <2>9. r.ok
    BY <2>3, <2>6, <2>8
  <2>10. Ok(r.m)
    BY <2>6 DEF SettlesTo
  <2> HIDE DEF e
  <2>11. CASE e.txn = x
    <3>1. ParkedFor(parked, x, i + 1) = ParkedFor(parked, x, i) \cup {e.op}
      BY <2>4, <2>11 DEF ParkedFor, e
    <3> QED
      BY <2>1, <2>3, <2>6, <2>9, <2>10, <2>11, <3>1 DEF r
  <2>12. CASE e.txn # x
    <3>1. ParkedFor(parked, x, i + 1) = ParkedFor(parked, x, i)
      BY <2>4, <2>12 DEF ParkedFor, e
    <3> QED
      BY <2>1, <2>3, <2>6, <2>9, <2>10, <2>12, <3>1 DEF r
  <2> QED
    BY <2>11, <2>12
<1>6. 0..L \subseteq T
  <2> HIDE DEF T
  <2> QED
    BY <1>2, <1>4, <1>5, Climb
<1>7. L \in 0..L
  BY <1>2
<1> QED
  BY <1>1, <1>6, <1>7 DEF L

LEMMA ConcludesCurrent ==
    ASSUME Base, Base', Handled(model, ackCalls, parked, left), Dwindles,
           ackCalls' = ackCalls, SettlesTo(model, model'), NEW x, NEW b, Concludes(x, b),
           left.reconnects = 0, Current(model, ackCalls, parked)
    PROVE  Handled(model', ackCalls', parked', left')
<1>2. left.reconnects = 0 /\ Current(model, ackCalls, parked)
  OBVIOUS
<1>3. left'.reconnects = 0 /\ \A d \in ackCalls' : IsCall(d)
  BY LeftIs DEF Handled
<1>4. Ok(model') /\ model'.phase = model.phase
  BY DEF SettlesTo
<1>5. CASE model.phase # "Open"
  <2>1. Owners(model', ackCalls', parked') /\ Current(model', ackCalls', parked')
    BY <1>4, <1>5, ShutOwners
  <2> QED
    BY <1>3, <2>1 DEF Handled
<1>6. CASE model.phase = "Open"
  <2> DEFINE L == Len(parked)
             S == ToSet(parked) \ {q \in ToSet(parked) : q.txn = x}
             P == parked'
  <2>1. /\ \A d \in ackCalls : d.op \in model.ops
        /\ \A i \in 1..L : parked[i].op \in model.ops
        /\ \A d, e \in ackCalls : d.op = e.op => d = e
        /\ Distinct(parked)
        /\ \A d \in ackCalls : \A i \in 1..L : d.op # parked[i].op
    BY <1>2, <1>6 DEF Current
  <2>2. model'.ops = model.ops \ ParkedFor(parked, x, L)
    <3>1. model' = SettledInOrder(x, b).m
      BY Zenon DEF Concludes
    <3> QED
      BY <2>1, <3>1, SettledAll, BaseParts
  <2>3. P = Within(parked, S)
    BY Zenon DEF Concludes
  <2>4. KeptOf(parked, S, L, P)
    <3> HIDE DEF S
    <3> QED
      BY <2>3, WithinIs, BaseParts
  <2>5. L \in Nat /\ DOMAIN parked = 1..L
    BY IsSeqLen, BaseParts
  <2>6. \A j \in 1..L : parked[j] \in S <=> parked[j].txn # x
    BY <2>5 DEF ToSet
  <2> HIDE DEF S, L, P
  <2>7. /\ \A k \in 1..Len(P) : P[k] \in S /\ \E j \in 1..L : P[k] = parked[j]
        /\ \A j \in 1..L : parked[j] \in S => \E k \in 1..Len(P) : P[k] = parked[j]
        /\ Distinct(P)
    BY <2>1, <2>4 DEF KeptOf
  <2>8. Owners(model', ackCalls, P)
    <3> SUFFICES ASSUME NEW op \in model'.ops
                 PROVE  (\E d \in ackCalls : d.op = op) \/ \E i \in 1..Len(P) : P[i].op = op
      BY DEF Owners
    <3>1. op \in model.ops /\ op \notin ParkedFor(parked, x, L)
      BY <2>2
    <3>2. CASE \E j \in 1..L : parked[j].op = op
      <4>1. PICK j \in 1..L : parked[j].op = op
        BY <3>2
      <4>2. parked[j].txn # x
        BY <3>1, <4>1 DEF ParkedFor
      <4> QED
        BY <2>6, <2>7, <4>1, <4>2
    <3>3. CASE ~\E j \in 1..L : parked[j].op = op
      BY <3>1, <3>3 DEF Handled, Owners, L
    <3> QED
      BY <3>2, <3>3
  <2>9. \A d \in ackCalls : d.op \in model'.ops
    BY <2>1, <2>2 DEF ParkedFor
  <2>10. ASSUME NEW k \in 1..Len(P) PROVE P[k].op \in model'.ops
    <3>1. PICK j \in 1..L : P[k] = parked[j]
      BY <2>7
    <3>2. parked[j].txn # x
      BY <2>6, <2>7, <3>1
    <3>3. \A i \in 1..L : parked[i].op = parked[j].op => i = j
      BY <2>1 DEF Distinct, L
    <3>4. parked[j].op \notin ParkedFor(parked, x, L)
      BY <3>2, <3>3 DEF ParkedFor
    <3> QED
      BY <2>1, <2>2, <3>1, <3>4
  <2>11. \A d \in ackCalls : \A k \in 1..Len(P) : d.op # P[k].op
    BY <2>1, <2>7
  <2>12. Current(model', ackCalls, P)
    BY <2>1, <2>7, <2>9, <2>10, <2>11 DEF Current
  <2> QED
    BY <1>3, <2>8, <2>12 DEF Handled, P
<1> QED
  BY <1>5, <1>6

LEMMA ConcludesScarce ==
    ASSUME Base, Base', Handled(model, ackCalls, parked, left), Dwindles,
           ackCalls' = ackCalls, SettlesTo(model, model'), NEW x, NEW b, Concludes(x, b),
           Scarce(ackCalls, parked, left.txnAcks)
    PROVE  Handled(model', ackCalls', parked', left')
<1> DEFINE S == ToSet(parked) \ {q \in ToSet(parked) : q.txn = x}
           P == parked'
           e == parked[1]
<1>1. /\ parked # <<>> /\ P = Within(parked, S)
      /\ model' = SettledInOrder(x, b).m
  BY Zenon DEF Concludes
<1>2. /\ left'.txnAcks = 0 /\ \A c \in ackCalls : IsCall(c) /\ c.txn = "none"
  BY <1>1, LeftIs DEF Handled, Scarce
<1>3. Len(parked) = 1 /\ DOMAIN parked = 1..1 /\ 1 \in 1..1 /\ \A i \in 1..1 : i = 1
  <2>1. Len(parked) \in Nat /\ DOMAIN parked = 1..Len(parked)
    BY IsSeqLen, BaseParts
  <2>2. Len(parked) # 0
    <3>1. PICK Q : parked \in Seq(Q)
      BY BaseParts DEF IsSeq
    <3> QED
      BY <1>1, <3>1
  <2> QED
    BY <2>1, <2>2 DEF Scarce
<1>4. e \in S <=> e.txn # x
  BY <1>3 DEF ToSet
<1>5. KeptOf(parked, S, 1, P)
  <2> HIDE DEF S
  <2> QED
    BY <1>1, <1>3, WithinIs, BaseParts
<1>6. /\ model'.ops \subseteq model.ops
      /\ e.txn = x => e.op \notin model'.ops
  <2>1. PICK f : /\ SettledInOrder(x, b) = f[1] /\ f[0] = [ok |-> TRUE, m |-> model]
                 /\ \A i \in 1..1 : f[i] = SettleOne(f[i - 1], parked[i], x, b)
    <3>1. \E f : /\ SettledInOrder(x, b) = f[Len(parked)] /\ f[0] = [ok |-> TRUE, m |-> model]
                 /\ \A i \in 1..Len(parked) : f[i] = SettleOne(f[i - 1], parked[i], x, b)
      BY ZenonT(60), SettledUnfolds, BaseParts
    <3> QED
      BY <1>3, <3>1
  <2> DEFINE p == f[0]
             r == f[1]
  <2>2. r = SettleOne(p, e, x, b)
    <3>1. 1 - 1 = 0
      OBVIOUS
    <3> QED
      BY <1>3, <2>1, <3>1
  <2>3. p.ok /\ p.m = model /\ model' = r.m
    BY <1>1, <2>1
  <2> HIDE DEF p, r, e
  <2>4. /\ SettlesTo(p.m, r.m)
        /\ r.ok /\ e.txn = x => r.m.ops = p.m.ops \ {e.op}
        /\ p.ok /\ ~r.ok => e.txn = x /\ ~CanSettle(p.m, e.op)
    BY <2>2, <2>3, SettleOneIs, BaseParts
  <2>5. ASSUME ~r.ok PROVE e.op \notin model.ops
    BY <2>3, <2>4, <2>5, AdmittedSettles, BaseParts
  <2> QED
    BY <2>3, <2>4, <2>5 DEF SettlesTo
<1> HIDE DEF S, P
<1>7. /\ IsSeq(P) /\ \A k \in 1..Len(P) : P[k] = e
      /\ e.txn # x => \E k \in 1..Len(P) : P[k] = e
      /\ Distinct(P)
  <2>1. Distinct(parked)
    BY <1>3 DEF Distinct
  <2> QED
    BY <1>3, <1>4, <1>5, <2>1 DEF KeptOf
<1>8. Len(P) =< 1
  <2>1. Len(P) \in Nat
    BY <1>7, IsSeqLen
  <2>2. ASSUME Len(P) >= 2 PROVE FALSE
    <3>1. 1 \in 1..Len(P) /\ 2 \in 1..Len(P) /\ 1 # 2
      BY <2>1, <2>2
    <3> QED
      BY <1>7, <3>1 DEF Distinct
  <2> QED
    BY <2>1, <2>2
<1>9. Owners(model', ackCalls, P)
  <2> SUFFICES ASSUME NEW op \in model'.ops
               PROVE  (\E d \in ackCalls : d.op = op) \/ \E i \in 1..Len(P) : P[i].op = op
    BY DEF Owners
  <2>1. (\E d \in ackCalls : d.op = op) \/ e.op = op
    BY <1>3, <1>6 DEF Handled, Owners
  <2> QED
    BY <1>6, <1>7, <2>1
<1>10. Scarce(ackCalls, P, left'.txnAcks)
  BY <1>2, <1>8 DEF Scarce
<1> QED
  BY <1>2, <1>9, <1>10 DEF Handled, P

LEMMA ConcludesHandled ==
    ASSUME Base, Base', Handled(model, ackCalls, parked, left), Dwindles,
           ackCalls' = ackCalls, SettlesTo(model, model'), NEW x, NEW b, Concludes(x, b)
    PROVE  Handled(model', ackCalls', parked', left')
  BY ConcludesCurrent, ConcludesScarce DEF Handled

LEMMA NextTidy ==
    ASSUME Tidy, [Next]_vars
    PROVE  Tidy'
<1>1. Base /\ Handled(model, ackCalls, parked, left) /\ Ok(model)
  BY BaseParts DEF Tidy
<1>2. Base' /\ Ok(model')
  BY <1>1, NextBase DEF Base
<1>3. ASSUME Dwindles
      PROVE  /\ left.reconnects = 0 => left'.reconnects = 0
             /\ left.txnAcks \in Nat /\ left'.txnAcks \in Nat
             /\ left'.txnAcks =< left.txnAcks
  BY <1>1, <1>3, LeftIs
<1>4. CASE Shifts \/ Lands \/ Discards \/ Receives \/ Restores
  <2>1. Dwindles /\ OpsKept(model, model') /\ ackCalls' = ackCalls
    BY <1>4 DEF Shifts, Lands, Discards, Receives, Restores, OpsKept
  <2>2. model'.phase = "Open" => model.phase = "Open"
    BY <1>4 DEF Shifts, Lands, Discards, Receives, Restores
  <2>3. parked' = parked \/ (parked' = <<>> /\ model'.phase # "Open")
    BY <1>4 DEF Shifts, Lands, Discards, Receives, Restores
  <2> QED
    BY <1>1, <1>2, <1>3, <2>1, <2>2, <2>3, SameHandled DEF Tidy
<1>5. CASE Rejoins
  <2>1. Scarce(ackCalls, parked, left.txnAcks) /\ \A c \in ackCalls : IsCall(c)
    BY <1>1, <1>5 DEF Handled, Rejoins
  <2>2. Owners(model', ackCalls, parked)
    BY <1>5 DEF Owners, Rejoins
  <2>3. ackCalls' = ackCalls /\ parked' = parked /\ Dwindles
    BY <1>5 DEF Rejoins
  <2>4. Scarce(ackCalls, parked, left'.txnAcks)
    BY <1>3, <2>1, <2>3 DEF Scarce
  <2> QED
    BY <1>2, <2>1, <2>2, <2>3, <2>4 DEF Handled, Tidy
<1>6. CASE Outcomes
  <2>1. Dwindles /\ ackCalls' = ackCalls
    BY <1>6 DEF Outcomes
  <2>2. CASE Forgets
    BY <1>1, <1>2, <1>3, <2>1, <2>2, SameHandled DEF Forgets, Tidy
  <2>3. CASE ~Forgets
    <3>1. SettlesTo(model, model') /\ \E x, b : Concludes(x, b)
      BY <1>6, <2>3 DEF Outcomes
    <3>2. PICK x, b : Concludes(x, b)
      BY <3>1
    <3> QED
      BY <1>1, <1>2, <2>1, <3>1, <3>2, ConcludesHandled DEF Tidy
  <2> QED
    BY <2>2, <2>3
<1>7. CASE Steady /\ Talks
  <2>1. Dwindles
    BY <1>7 DEF Steady
  <2>2. CASE \E op, txn : /\ Admits(op, txn)
                          /\ txn = "none" \/ left'.txnAcks < left.txnAcks
    BY <1>1, <1>2, <2>1, <2>2, AdmitsHandled DEF Tidy
  <2>3. CASE \E c \in ackCalls : Settles(c)
    BY <1>1, <1>2, <2>1, <2>3, SettlesHandled DEF Tidy
  <2>4. CASE model' = model /\ parked' = parked /\ Answers
    BY <1>1, <1>2, <2>1, <2>4, AnswersHandled DEF Tidy
  <2>5. CASE model' = model /\ Parks
    BY <1>1, <1>2, <2>1, <2>5, ParksHandled DEF Tidy
  <2> QED
    BY <1>7, <2>2, <2>3, <2>4, <2>5 DEF Talks
<1>8. CASE Next
  BY <1>1, <1>4, <1>5, <1>6, <1>7, <1>8, StepIs
<1>9. CASE UNCHANGED vars
  BY <1>1, <1>4, <1>9, StutterShifts
<1> QED
  BY <1>8, <1>9

LEMMA InitTidy ==
    ASSUME \A b \in Bounds : b.txnAcks =< 1 \/ b.reconnects = 0, Init
    PROVE  Tidy
<1>1. /\ Base /\ left \in Bounds /\ ackCalls = {} /\ parked = <<>>
  BY InitBase DEF Init
<1>2. model.ops = {}
  <2> DEFINE n == ApplyControlPlane(InitModel, Plan[1].layout, Plan[1].assigned)
  <2>1. 1 \in 1..Len(Plan)
    BY RuntimeAssumption
  <2>2. Dry(InitModel)
    BY InitModelIs DEF Dry
  <2>3. n.ops \subseteq InitModel.ops
    BY <2>1, <2>2, PlanIs, InitModelIs, ApplyTends DEF Tends, OpsKept
  <2>4. model = n
    BY DEF Init
  <2> HIDE DEF n
  <2> QED
    BY <2>3, <2>4 DEF InitModel
<1>3. Len(<<>>) = 0 /\ \A i : i \notin 1..0
  OBVIOUS
<1>4. Owners(model, ackCalls, parked) /\ left.txnAcks \in Nat
  BY <1>1, <1>2, BaseParts DEF Owners, Kinds
<1>5. Current(model, ackCalls, parked)
  BY <1>1, <1>3 DEF Current, Distinct
<1>6. left.txnAcks =< 1 => Scarce(ackCalls, parked, left.txnAcks)
  BY <1>1, <1>3, <1>4 DEF Scarce
<1> QED
  BY <1>1, <1>4, <1>5, <1>6 DEF Handled, Tidy

LEMMA TidyOwned ==
    ASSUME Tidy
    PROVE  OpsHaveOwner
<1>1. DOMAIN parked = 1..Len(parked)
  BY IsSeqLen, BaseParts DEF Tidy
<1> QED
  BY <1>1 DEF Tidy, Handled, Owners, OpsHaveOwner

(* With at most one acknowledgement in a transaction, or no rejoin, every  *)
(* admitted acknowledgement is in a call still running or parked under its *)
(* transaction, so none keeps a segment's barrier up with nobody to lower  *)
(* it.  With two of them and a rejoin in between,                          *)
(* propagate_transaction_outcome ends at the parked authority of the       *)
(* earlier epoch and drops the one behind it.                              *)
THEOREM OperationsHaveOwner ==
    ASSUME \A b \in Bounds : b.txnAcks =< 1 \/ b.reconnects = 0
    PROVE  Spec => []OpsHaveOwner
<1>1. Init => Tidy
  BY InitTidy
<1>2. Tidy /\ [Next]_vars => Tidy'
  BY NextTidy
<1>3. Tidy => OpsHaveOwner
  BY TidyOwned
<1> QED
  BY <1>1, <1>2, <1>3, PTL DEF Spec

-----------------------------------------------------------------------------
(* Who opens which child.  A generation is opened once, by one action of   *)
(* one task and then by one open task, and never after it was registered   *)
(* or told to close.                                                       *)

ActsOf(T) == UNION {t.acts : t \in T}

IsOpenOf(a, s, g) == a.op = "open" /\ a.seg = s /\ a.gen = g

Opener(T, O, s, g) ==
    \/ \E o \in O : o.seg = s /\ o.gen = g
    \/ \E a \in ActsOf(T) : IsOpenOf(a, s, g)

Single(A) == \A a, b \in A : a.op = "open" /\ IsOpenOf(b, a.seg, a.gen) => a = b

Sole(T) ==
    /\ \A t \in T : Single(t.acts)
    /\ \A t, u \in T : \A a \in t.acts : \A b \in u.acts :
         a.op = "open" /\ IsOpenOf(b, a.seg, a.gen) => t = u

(* What tasks a step leaves: t has lost a and got X, or X went to a task   *)
(* of its own.                                                             *)
LEMMA ActsAdd ==
    ASSUME NEW T, NEW t
    PROVE  ActsOf(Add(T, t)) = ActsOf(T) \cup t.acts
<1>1. ActsOf(T) \subseteq ActsOf(Add(T, t))
  BY AddIs DEF ActsOf
<1>2. t.acts \subseteq ActsOf(Add(T, t))
  BY AddIs DEF ActsOf
<1>3. ActsOf(Add(T, t)) \subseteq ActsOf(T) \cup t.acts
  BY AddIs DEF ActsOf
<1> QED
  BY <1>1, <1>2, <1>3

LEMMA ActsLess ==
    ASSUME NEW T, NEW t \in T
    PROVE  /\ ActsOf(T \ {t}) \subseteq ActsOf(T)
           /\ ActsOf(T) = ActsOf(T \ {t}) \cup t.acts
  BY DEF ActsOf

LEMMA ActsAdvance ==
    ASSUME NEW t \in tasks, IsTask(t), NEW a, NEW X
    PROVE  LET T2 == Advance(t, a, X)
           IN  /\ ActsOf(T2) \subseteq ActsOf(tasks) \cup X
               /\ (ActsOf(tasks) \ {a}) \cup X \subseteq ActsOf(T2)
<1> DEFINE u == [t EXCEPT !.acts = (t.acts \ {a}) \cup X]
<1>1. u.acts = (t.acts \ {a}) \cup X
  BY SetActs
<1>2. Advance(t, a, X) = Add(tasks \ {t}, u)
  BY DEF Advance
<1> HIDE DEF u
<1>3. ActsOf(Add(tasks \ {t}, u)) = ActsOf(tasks \ {t}) \cup u.acts
  BY ActsAdd
<1>4. ActsOf(tasks) = ActsOf(tasks \ {t}) \cup t.acts
  BY ActsLess
<1> QED
  BY <1>1, <1>2, <1>3, <1>4

(* New acts open generations of k and later, the old ones earlier ones. *)
Below(T, k) == \A a \in ActsOf(T) : a.op = "open" => a.gen < k
Above(A, k) == \A a \in A : a.op = "open" => ~(a.gen < k)

LEMMA SoleAdd ==
    ASSUME NEW T, Sole(T), NEW w, NEW k, Below(T, k), Above(w.acts, k), Single(w.acts)
    PROVE  Sole(Add(T, w))
<1>1. Add(T, w) \subseteq T \cup {w}
  BY AddIs
<1>2. \A t \in Add(T, w) : Single(t.acts)
  BY <1>1 DEF Sole
<1>3. ASSUME NEW t \in T \cup {w}, NEW u \in T \cup {w}, NEW a \in t.acts, NEW b \in u.acts,
             a.op = "open", IsOpenOf(b, a.seg, a.gen)
      PROVE  t = u
  <2>1. b.op = "open" /\ b.gen = a.gen
    BY <1>3 DEF IsOpenOf
  <2>2. CASE t \in T /\ u \in T
    BY <1>3, <2>2 DEF Sole
  <2>3. CASE t \in T /\ u = w
    <3>1. a \in ActsOf(T)
      BY <2>3 DEF ActsOf
    <3> QED
      BY <1>3, <2>1, <2>3, <3>1 DEF Below, Above
  <2>4. CASE t = w /\ u \in T
    <3>1. b \in ActsOf(T)
      BY <2>4 DEF ActsOf
    <3> QED
      BY <1>3, <2>1, <2>4, <3>1 DEF Below, Above
  <2> QED
    BY <2>2, <2>3, <2>4
<1> QED
  BY <1>1, <1>2, <1>3 DEF Sole

LEMMA SoleLess ==
    ASSUME NEW T, Sole(T), NEW t
    PROVE  Sole(T \ {t})
  BY DEF Sole

LEMMA BelowLess ==
    ASSUME NEW T, NEW k, Below(T, k), NEW t
    PROVE  Below(T \ {t}, k)
  BY DEF Below, ActsOf

LEMMA SoleHeir ==
    ASSUME NEW T, Sole(T), NEW t \in T, NEW u, NEW X, NEW k, Below(T, k), Above(X, k),
           Single(X), u.acts \subseteq t.acts \cup X
    PROVE  Sole(Add(T \ {t}, u))
<1> DEFINE R == T \ {t}
<1>1. Add(R, u) \subseteq R \cup {u}
  BY AddIs
<1>2. Single(u.acts)
  <2>1. ASSUME NEW a \in u.acts, NEW b \in u.acts, a.op = "open",
               IsOpenOf(b, a.seg, a.gen)
        PROVE  a = b
    <3>1. b.op = "open" /\ b.gen = a.gen
      BY <2>1 DEF IsOpenOf
    <3>2. CASE a \in t.acts /\ b \in t.acts
      BY <2>1, <3>2 DEF Sole, Single
    <3>3. CASE a \in X /\ b \in X
      BY <2>1, <3>3 DEF Single
    <3>4. CASE a \in t.acts /\ b \in X
      <4>1. a \in ActsOf(T)
        BY <3>4 DEF ActsOf
      <4> QED
        BY <2>1, <3>1, <3>4, <4>1 DEF Below, Above
    <3>5. CASE a \in X /\ b \in t.acts
      <4>1. b \in ActsOf(T)
        BY <3>5 DEF ActsOf
      <4> QED
        BY <2>1, <3>1, <3>5, <4>1 DEF Below, Above
    <3> QED
      BY <3>2, <3>3, <3>4, <3>5
  <2> QED
    BY <2>1 DEF Single
<1>3. ASSUME NEW v \in R, NEW a \in v.acts, NEW b \in u.acts,
             a.op = "open" /\ IsOpenOf(b, a.seg, a.gen)
      PROVE  FALSE
  <2>1. /\ a.op = "open" /\ b.op = "open" /\ a.gen = b.gen
        /\ IsOpenOf(b, a.seg, a.gen)
    BY <1>3 DEF IsOpenOf
  <2>2. a \in ActsOf(T)
    BY DEF ActsOf
  <2>3. b \notin X
    BY <2>1, <2>2 DEF Below, Above
  <2>4. b \in t.acts
    BY <2>3
  <2> QED
    BY <2>1, <2>4 DEF Sole
<1>4. \A v \in R \cup {u} : Single(v.acts)
  BY <1>2 DEF Sole
<1>5. \A v, w \in R : \A a \in v.acts : \A b \in w.acts :
         a.op = "open" /\ IsOpenOf(b, a.seg, a.gen) => v = w
  BY DEF Sole
<1>6. \A v, w \in R \cup {u} : \A a \in v.acts : \A b \in w.acts :
         a.op = "open" /\ IsOpenOf(b, a.seg, a.gen) => v = w
  <2> HIDE DEF R
  <2>1. ASSUME NEW v \in R \cup {u}, NEW w \in R \cup {u}, NEW a \in v.acts,
               NEW b \in w.acts, a.op = "open", IsOpenOf(b, a.seg, a.gen)
        PROVE  v = w
    <3>1. b.op = "open" /\ IsOpenOf(a, b.seg, b.gen)
      BY <2>1 DEF IsOpenOf
    <3>2. CASE v \in R /\ w \in R
      BY <1>5, <2>1, <3>2
    <3>3. CASE v \in R /\ w = u
      BY <1>3, <2>1, <3>3
    <3>4. CASE v = u /\ w \in R
      BY <1>3, <3>1, <3>4
    <3> QED
      BY <3>2, <3>3, <3>4
  <2> QED
    BY <2>1
<1> HIDE DEF R
<1>7. Sole(Add(R, u))
  BY <1>1, <1>4, <1>6 DEF Sole
<1> QED
  BY <1>7 DEF R

LEMMA SoleAdvance ==
    ASSUME Sole(tasks), NEW t \in tasks, IsTask(t), NEW a, NEW X, NEW k,
           Below(tasks, k), Above(X, k), Single(X)
    PROVE  Sole(Advance(t, a, X))
<1> DEFINE u == [t EXCEPT !.acts = (t.acts \ {a}) \cup X]
<1>1. u.acts = (t.acts \ {a}) \cup X
  BY SetActs
<1>2. Advance(t, a, X) = Add(tasks \ {t}, u)
  BY DEF Advance
<1> HIDE DEF u
<1> QED
  BY <1>1, <1>2, SoleHeir

(* After a task has executed its open action nobody is left to do it. *)
LEMMA SoleGone ==
    ASSUME Sole(tasks), NEW t \in tasks, IsTask(t), NEW a \in t.acts, a.op = "open",
           NEW b \in ActsOf(Advance(t, a, {}))
    PROVE  ~IsOpenOf(b, a.seg, a.gen)
<1> DEFINE u == [t EXCEPT !.acts = (t.acts \ {a}) \cup {}]
<1>1. u.acts = t.acts \ {a}
  BY SetActs
<1>2. Advance(t, a, {}) = Add(tasks \ {t}, u)
  BY DEF Advance
<1> HIDE DEF u
<1>3. b \in ActsOf(tasks \ {t}) \/ b \in u.acts
  BY <1>2, ActsAdd
<1>4. CASE b \in u.acts
  BY <1>1, <1>4 DEF Sole, Single
<1>5. CASE b \in ActsOf(tasks \ {t})
  <2>1. PICK v \in tasks \ {t} : b \in v.acts
    BY <1>5 DEF ActsOf
  <2> QED
    BY <2>1 DEF Sole
<1> QED
  BY <1>3, <1>4, <1>5

-----------------------------------------------------------------------------
(* A task that has to seek has no child to end: begin_seek is called only  *)
(* when no child is being closed, and nothing a seek returns closes one.   *)

Finishes(a) == a.op \in {"cancel", "close"}

Clean(A) == (\E a \in A : a.op = "seek") => \A a \in A : ~Finishes(a)

Pure(T) == \A t \in T : Clean(t.acts)

Follows(a, X) ==
    \/ X = {}
    \/ Finishes(a) /\ \A b \in X : b.op # "seek"
    \/ a.op = "seek" /\ \A b \in X : ~Finishes(b)

LEMMA PureAdd ==
    ASSUME NEW T, Pure(T), NEW w, Clean(w.acts)
    PROVE  Pure(Add(T, w))
  BY AddIs DEF Pure

LEMMA PureLess ==
    ASSUME NEW T, Pure(T), NEW t
    PROVE  Pure(T \ {t})
  BY DEF Pure

LEMMA PureAdvance ==
    ASSUME Pure(tasks), NEW t \in tasks, IsTask(t), NEW a \in t.acts, NEW X, Follows(a, X)
    PROVE  Pure(Advance(t, a, X))
<1> DEFINE u == [t EXCEPT !.acts = (t.acts \ {a}) \cup X]
<1>1. u.acts = (t.acts \ {a}) \cup X
  BY SetActs
<1>2. Advance(t, a, X) = Add(tasks \ {t}, u)
  BY DEF Advance
<1>3. Clean(t.acts)
  BY DEF Pure
<1>4. Clean((t.acts \ {a}) \cup X)
  <2>1. CASE X = {}
    BY <1>3, <2>1 DEF Clean
  <2>2. CASE Finishes(a) /\ \A b \in X : b.op # "seek"
    BY <1>3, <2>2 DEF Clean
  <2>3. CASE a.op = "seek" /\ \A b \in X : ~Finishes(b)
    BY <1>3, <2>3 DEF Clean
  <2> QED
    BY <2>1, <2>2, <2>3 DEF Follows
<1> HIDE DEF u
<1> QED
  BY <1>1, <1>2, <1>4, PureAdd, PureLess

Unready == {"Opening", "Closing"}

(* A child that is being opened or closed does not come to life again. *)
Grew(m, n, s) ==
    LET d == n.children[s]
    IN  \/ /\ Has(m, s, d.gen)
           /\ m.children[s].phase \in Unready => d.phase \in Unready
        \/ ~(d.gen < m.nextGen) /\ d.phase \in Unready

LEMMA AgedGrew ==
    ASSUME NEW m, NEW n, Ok(m), Ok(n), NEW s \in DOMAIN n.children, Aged(m, n, s)
    PROVE  Grew(m, n, s)
<1> DEFINE d == n.children[s]
<1>0. m.nextGen \in Nat /\ d.gen \in Nat /\ d.phase \in Phases /\ d.retained \in Nat
  BY OkParts DEF Good, IsChild
<1>1. CASE d.gen >= m.nextGen /\ ~Lives(d)
  BY <1>0, <1>1 DEF Grew, Lives, Unready
<1>2. CASE /\ s \in DOMAIN m.children /\ d.gen = m.children[s].gen
           /\ m.children[s].phase = "Closing" => d.phase = "Closing"
           /\ Lives(d) => Lives(m.children[s])
  <2>1. Good(m.children[s])
    BY <1>2, OkParts
  <2>2. m.children[s].phase = "Opening" => m.children[s].retained = 0
    BY <2>1 DEF Good, Shaped
  <2>3. m.children[s].phase = "Opening" => ~Lives(m.children[s])
    BY <2>2 DEF Lives
  <2>4. m.children[s].phase = "Opening" => d.phase \in Unready
    BY <1>2, <2>3 DEF Lives, Unready
  <2>5. m.children[s].phase \in Unready => d.phase \in Unready
    BY <1>2, <2>4 DEF Unready
  <2> QED
    BY <1>2, <2>5 DEF Grew, Has
<1> QED
  BY <1>1, <1>2 DEF Aged, Lives

Young(m, T, O) ==
    \A s \in DOMAIN m.children :
        Opener(T, O, s, m.children[s].gen) => m.children[s].phase \in Unready

(* Actions that open new generations, and close none that is being opened. *)
Apt(A, k, T, O) ==
    /\ Single(A) /\ Above(A, k) /\ Clean(A)
    /\ \A a \in A : a.op = "open" => a.gen \in Nat /\ a.gen >= 1
    /\ \A a \in A : a.op = "close" => a.gen < k /\ ~Opener(T, O, a.seg, a.gen)

LEMMA EmittedClean ==
    ASSUME NEW m, NEW n, Ok(m), Ok(n), Ages(m, n)
    PROVE  Clean(Emitted(m, n))
<1>1. ASSUME NEW a \in Emitted(m, n), a.op = "seek", NEW b \in Emitted(m, n), Finishes(b)
      PROVE  FALSE
  <2>1. Announces(m, n, a) /\ Announces(m, n, b)
    BY EmittedAnnounces
  <2>2. /\ a.seg \in DOMAIN n.children /\ Has(m, a.seg, n.children[a.seg].gen)
        /\ m.children[a.seg].phase # "Seeking" /\ n.children[a.seg].phase = "Seeking"
    BY <1>1, <2>1 DEF Announces
  <2>3. b.seg \in DOMAIN n.children /\ n.children[b.seg].phase = "Closing"
    BY <1>1, <2>1 DEF Announces, Finishes
  <2>4. Aged(m, n, a.seg)
    BY <2>2 DEF Ages
  <2>5. AllSeek(n)
    BY <2>2, <2>4 DEF Aged
  <2> QED
    BY <2>3, <2>5 DEF AllSeek
<1> QED
  BY <1>1 DEF Clean

LEMMA EmittedApt ==
    ASSUME NEW m, NEW n, Ok(m), Ok(n), Ages(m, n), NEW T, NEW O, Young(m, T, O)
    PROVE  Apt(Emitted(m, n), m.nextGen, T, O)
<1> DEFINE A == Emitted(m, n)
<1>0. m.nextGen \in Nat /\ Numbered(m) /\ Numbered(n) /\ Later(m, n)
  BY OkParts, AgesLater
<1>1. ASSUME NEW a \in A, a.op = "open"
      PROVE  /\ a = ActOf("open", n, a.seg)
             /\ a.gen \in Nat /\ a.gen >= 1 /\ ~(a.gen < m.nextGen)
  <2>1. Announces(m, n, a)
    BY EmittedAnnounces
  <2>2. /\ a.seg \in DOMAIN n.children /\ a.gen = n.children[a.seg].gen
        /\ ~Has(m, a.seg, a.gen)
    BY <1>1, <2>1 DEF Announces
  <2>3. a.gen \in Nat /\ a.gen >= 1
    BY <1>0, <2>2, OkParts DEF Good, IsChild, Numbered
  <2>4. a.gen >= m.nextGen
    BY <1>0, <2>2 DEF Later
  <2>5. PICK s : a = ActOf("open", n, s)
    <3>1. \/ \E s : a = ActOf("open", n, s) \/ a = ActOf("cancel", n, s)
          \/ \E s : a = ActOf("close", n, s) \/ a = ActOf("seek", n, s)
          \/ \E s : a = ActOf("grant", n, s)
      BY EmittedIs
    <3> QED
      BY <1>1, <3>1, ActOfIs
  <2>6. a = ActOf("open", n, a.seg)
    BY <2>5, ActOfIs
  <2> QED
    BY <1>0, <2>3, <2>4, <2>6
<1>2. ASSUME NEW a \in A, a.op = "close"
      PROVE  a.gen < m.nextGen /\ ~Opener(T, O, a.seg, a.gen)
  <2>1. Announces(m, n, a)
    BY EmittedAnnounces
  <2>2. /\ Has(m, a.seg, a.gen)
        /\ m.children[a.seg].phase \notin Unready
    BY <1>2, <2>1 DEF Announces, Unready
  <2>3. a.seg \in DOMAIN m.children /\ m.children[a.seg].gen = a.gen
    BY <2>2 DEF Has
  <2> QED
    BY <1>0, <2>2, <2>3 DEF Young, Numbered
<1> HIDE DEF A
<1>3. Single(A)
  BY <1>1 DEF Single, IsOpenOf
<1>4. Apt(A, m.nextGen, T, O)
  BY <1>1, <1>2, <1>3, EmittedClean DEF Apt, Above, A
<1> QED
  BY <1>4 DEF A

LEMMA NothingApt ==
    ASSUME NEW k, NEW T, NEW O
    PROVE  Apt({}, k, T, O)
  BY DEF Apt, Single, Above, Clean

LEMMA LessApt ==
    ASSUME NEW A, NEW k, NEW T, NEW O, Apt(A, k, T, O), NEW B \in SUBSET A
    PROVE  Apt(B, k, T, O)
  BY DEF Apt, Single, Above, Clean

IsOpening(o) ==
    /\ o \in [seg : Segments, gen : Nat, inc : {o.inc}, attached : BOOLEAN]
    /\ o.gen >= 1

Unique(O) == \A o, p \in O : o.seg = p.seg /\ o.gen = p.gen => o = p

Apart(T, O) == \A o \in O : \A a \in ActsOf(T) : ~IsOpenOf(a, o.seg, o.gen)

Unopened(m, T, O, at) ==
    /\ \A o \in O : IsOpening(o) /\ o.gen < m.nextGen
    /\ \A a \in ActsOf(T) : a.op = "open" => a.gen >= 1
    /\ Sole(T) /\ Unique(O) /\ Apart(T, O) /\ Young(m, T, O)
    /\ \A s \in Segments : ~Opener(T, O, s, at[s])
    /\ \A a \in ActsOf(T) : a.op = "close" => ~Opener(T, O, a.seg, a.gen)

LEMMA OpenerIs ==
    ASSUME NEW T, NEW T2, NEW O, NEW O2, NEW X, NEW k, NEW s, NEW g,
           ActsOf(T2) \subseteq ActsOf(T) \cup X, Above(X, k),
           \A o \in O2 : Opener(T, O, o.seg, o.gen),
           Opener(T2, O2, s, g)
    PROVE  Opener(T, O, s, g) \/ ~(g < k)
  BY DEF Opener, Above, IsOpenOf

LEMMA NoZero ==
    ASSUME NEW T, NEW O, \A o \in O : IsOpening(o), NEW s,
           \A a \in ActsOf(T) : a.op = "open" => a.gen >= 1
    PROVE  ~Opener(T, O, s, 0)
  BY DEF Opener, IsOpening, IsOpenOf

LEMMA UnopenedStep ==
    ASSUME NEW m, NEW n, Ok(m), Ok(n), n.nextGen >= m.nextGen,
           NEW T, NEW T2, NEW O, NEW O2, NEW at, NEW at2, NEW X,
           Manned(m, T), Unopened(m, T, O, at),
           \A s \in Segments : at[s] \in Nat /\ at[s] < m.nextGen,
           ActsOf(T2) \subseteq ActsOf(T) \cup X, Sole(T2), Apt(X, m.nextGen, T, O),
           Unique(O2), Apart(T2, O2),
           \A o \in O2 : /\ IsOpening(o) /\ o.gen < m.nextGen
                         /\ Opener(T, O, o.seg, o.gen),
           \A s \in DOMAIN n.children :
              Grew(m, n, s) \/ ~Opener(T2, O2, s, n.children[s].gen),
           \A s \in Segments : \/ at2[s] = at[s] \/ at2[s] = 0
                               \/ ~Opener(T2, O2, s, at2[s])
    PROVE  Unopened(n, T2, O2, at2)
<1>0. m.nextGen \in Nat /\ n.nextGen \in Nat
  BY OkParts
<1>1. \A o \in O2 : IsOpening(o) /\ o.gen < n.nextGen
  <2>1. \A o \in O2 : o.gen \in Nat
    BY DEF IsOpening
  <2> QED
    BY <1>0, <2>1
<1>2. \A a \in ActsOf(T2) : a.op = "open" => a.gen >= 1
  BY DEF Unopened, Apt
<1>3. ASSUME NEW s, NEW g, Opener(T2, O2, s, g), g < m.nextGen
      PROVE  Opener(T, O, s, g)
  BY <1>3, OpenerIs DEF Apt
<1>4. ASSUME NEW s \in DOMAIN n.children, Opener(T2, O2, s, n.children[s].gen)
      PROVE  n.children[s].phase \in Unready
  <2>1. Grew(m, n, s)
    BY <1>4
  <2>2. CASE ~(n.children[s].gen < m.nextGen) /\ n.children[s].phase \in Unready
    BY <2>2
  <2>3. CASE /\ Has(m, s, n.children[s].gen)
             /\ m.children[s].phase \in Unready => n.children[s].phase \in Unready
    <3>1. s \in DOMAIN m.children /\ m.children[s].gen = n.children[s].gen
      BY <2>3 DEF Has
    <3>2. n.children[s].gen < m.nextGen
      BY <3>1, OkParts DEF Numbered
    <3> QED
      BY <1>3, <1>4, <2>3, <3>1, <3>2 DEF Unopened, Young
  <2> QED
    BY <2>1, <2>2, <2>3 DEF Grew
<1>5. ASSUME NEW s \in Segments PROVE ~Opener(T2, O2, s, at2[s])
  <2>1. CASE at2[s] = at[s]
    BY <1>3, <2>1 DEF Unopened
  <2>2. CASE at2[s] = 0
    BY <1>1, <1>2, <2>2, NoZero
  <2> QED
    BY <2>1, <2>2
<1>6. ASSUME NEW a \in ActsOf(T2), a.op = "close" PROVE ~Opener(T2, O2, a.seg, a.gen)
  <2>1. CASE a \in X
    BY <1>3, <1>6, <2>1 DEF Apt
  <2>2. CASE a \in ActsOf(T)
    <3>1. a.gen < m.nextGen
      BY <2>2 DEF Manned, Actable, ActsOf
    <3> QED
      BY <1>3, <1>6, <2>2, <3>1 DEF Unopened
  <2> QED
    BY <2>1, <2>2
<1> QED
  BY <1>1, <1>2, <1>4, <1>5, <1>6 DEF Unopened, Young

(* The same where no open task is new. *)
LEMMA UnopenedLess ==
    ASSUME NEW m, NEW n, Ok(m), Ok(n), n.nextGen >= m.nextGen,
           NEW T, NEW T2, NEW O, NEW O2, NEW at, NEW at2, NEW X,
           Manned(m, T), Unopened(m, T, O, at),
           \A s \in Segments : at[s] \in Nat /\ at[s] < m.nextGen,
           ActsOf(T2) \subseteq ActsOf(T) \cup X, Sole(T2), Apt(X, m.nextGen, T, O),
           O2 \subseteq O,
           \A s \in DOMAIN n.children :
              Grew(m, n, s) \/ ~Opener(T2, O2, s, n.children[s].gen),
           \A s \in Segments : \/ at2[s] = at[s] \/ at2[s] = 0
                               \/ ~Opener(T2, O2, s, at2[s])
    PROVE  Unopened(n, T2, O2, at2)
<1>1. Unique(O2)
  BY DEF Unopened, Unique
<1>2. \A o \in O2 : /\ IsOpening(o) /\ o.gen < m.nextGen
                    /\ Opener(T, O, o.seg, o.gen)
  BY DEF Unopened, Opener
<1>3. Apart(T2, O2)
  <2>1. ASSUME NEW o \in O2, NEW a \in ActsOf(T2), IsOpenOf(a, o.seg, o.gen) PROVE FALSE
    <3>1. a \notin X
      BY <1>2, <2>1 DEF IsOpenOf, Apt, Above
    <3> QED
      BY <2>1, <3>1 DEF Unopened, Apart
  <2> QED
    BY <2>1 DEF Apart
<1> QED
  BY <1>1, <1>2, <1>3, UnopenedStep

LEMMA MannedBelow ==
    ASSUME NEW m, NEW T, Manned(m, T)
    PROVE  Below(T, m.nextGen)
  BY DEF Manned, Actable, Below, ActsOf

-----------------------------------------------------------------------------
(* What a step does to the actions that wait: it adds X and drops D.  The  *)
(* cancels that it drops else are dropped for good, and the closes of      *)
(* finish_close stay with it.                                              *)

Cuts(A) == {a \in A : a.op = "cancel"}

Shutters(T) == {a \in ActsOf({t \in T : t.by = "closer"}) : a.op = "close"}

Turned(X, D) ==
    /\ Sole(tasks') /\ Pure(tasks')
    /\ ActsOf(tasks') \subseteq ActsOf(tasks) \cup X
    /\ Cuts((ActsOf(tasks) \ D) \cup X) \subseteq ActsOf(tasks') \cup dropped'
    /\ Shutters(tasks) \ D \subseteq Shutters(tasks')

LEMMA ShuttersAdd ==
    ASSUME NEW T, NEW w
    PROVE  Shutters(T) \subseteq Shutters(Add(T, w))
  BY AddIs DEF Shutters, ActsOf

LEMMA ShuttersLess ==
    ASSUME NEW T, NEW t
    PROVE  Shutters(T) \ t.acts \subseteq Shutters(T \ {t})
  BY DEF Shutters, ActsOf

LEMMA ShuttersHeir ==
    ASSUME NEW T, NEW t \in T, NEW u, u.by = t.by
    PROVE  Shutters(T) \ (t.acts \ u.acts) \subseteq Shutters(Add(T \ {t}, u))
<1>1. ASSUME NEW a \in Shutters(T), a \notin t.acts \/ a \in u.acts
      PROVE  a \in Shutters(Add(T \ {t}, u))
  <2>1. a.op = "close" /\ \E v \in T : v.by = "closer" /\ a \in v.acts
    BY DEF Shutters, ActsOf
  <2>2. PICK v \in T : v.by = "closer" /\ a \in v.acts
    BY <2>1
  <2>3. \E x \in Add(T \ {t}, u) : x.by = "closer" /\ a \in x.acts
    <3>1. CASE v # t
      BY <2>2, <3>1, AddIs
    <3>2. CASE v = t
      BY <1>1, <2>2, <3>2, AddIs
    <3> QED
      BY <3>1, <3>2
  <2> QED
    BY <2>1, <2>3 DEF Shutters, ActsOf
<1> QED
  BY <1>1

LEMMA ShuttersAdvance ==
    ASSUME NEW t \in tasks, IsTask(t), NEW a, NEW X
    PROVE  Shutters(tasks) \ {a} \subseteq Shutters(Advance(t, a, X))
<1> DEFINE u == [t EXCEPT !.acts = (t.acts \ {a}) \cup X]
<1>1. u.acts = (t.acts \ {a}) \cup X /\ u.by = t.by
  BY SetActs
<1>2. Advance(t, a, X) = Add(tasks \ {t}, u)
  BY DEF Advance
<1> HIDE DEF u
<1>3. Shutters(tasks) \ (t.acts \ u.acts) \subseteq Shutters(Add(tasks \ {t}, u))
  BY <1>1, ShuttersHeir
<1> QED
  BY <1>1, <1>2, <1>3

Start == Base /\ Unopened(model, tasks, opens, attached) /\ Pure(tasks)

LEMMA StartParts ==
    ASSUME Start
    PROVE  /\ Base /\ Ok(model) /\ Manned(model, tasks) /\ Sole(tasks)
           /\ Young(model, tasks, opens) /\ Below(tasks, model.nextGen)
           /\ model.nextGen \in Nat
           /\ \A t \in tasks : IsTask(t)
           /\ Pure(tasks)
           /\ attached \in [Segments -> Nat]
           /\ \A s \in Segments : attached[s] \in Nat /\ attached[s] < model.nextGen
<1>1. Base /\ Ok(model) /\ Manned(model, tasks) /\ model.nextGen \in Nat
  BY BaseParts, OkParts DEF Start
<1>2. /\ attached \in [Segments -> Nat]
      /\ \A s \in Segments : attached[s] \in Nat /\ attached[s] < model.nextGen
  BY <1>1 DEF Base, Lodged
<1> QED
  BY <1>1, <1>2, MannedBelow DEF Start, Unopened, Manned

LEMMA TurnSame ==
    ASSUME Start, tasks' = tasks
    PROVE  Turned({}, {})
  BY StartParts DEF Turned, Cuts

LEMMA TurnAdd ==
    ASSUME Start, NEW w, Apt(w.acts, model.nextGen, tasks, opens), tasks' = Add(tasks, w)
    PROVE  Turned(w.acts, {})
<1>1. Sole(Add(tasks, w)) /\ Pure(Add(tasks, w))
  BY StartParts, SoleAdd, PureAdd DEF Apt
<1>2. ActsOf(Add(tasks, w)) = ActsOf(tasks) \cup w.acts
  BY ActsAdd
<1> QED
  BY <1>1, <1>2, ShuttersAdd DEF Turned, Cuts

LEMMA TurnAdvance ==
    ASSUME Start, NEW t \in tasks, NEW a \in t.acts, NEW X,
           Apt(X, model.nextGen, tasks, opens), Follows(a, X), tasks' = Advance(t, a, X)
    PROVE  Turned(X, {a})
<1>1. IsTask(t)
  BY StartParts
<1>2. Sole(Advance(t, a, X)) /\ Pure(Advance(t, a, X))
  BY <1>1, StartParts, SoleAdvance, PureAdvance DEF Apt
<1>3. /\ ActsOf(Advance(t, a, X)) \subseteq ActsOf(tasks) \cup X
      /\ (ActsOf(tasks) \ {a}) \cup X \subseteq ActsOf(Advance(t, a, X))
  BY <1>1, ActsAdvance
<1> QED
  BY <1>1, <1>2, <1>3, ShuttersAdvance DEF Turned, Cuts

(* A task is dropped with what it had left to do. *)
LEMMA TurnDrop ==
    ASSUME Start, NEW t \in tasks, NEW w, Apt(w.acts, model.nextGen, tasks, opens),
           tasks' = Add(tasks \ {t}, w)
    PROVE  Turned(w.acts, t.acts)
<1>1. Sole(Add(tasks \ {t}, w)) /\ Pure(Add(tasks \ {t}, w))
  BY StartParts, SoleAdd, SoleLess, BelowLess, PureAdd, PureLess DEF Apt
<1>2. ActsOf(Add(tasks \ {t}, w)) = ActsOf(tasks \ {t}) \cup w.acts
  BY ActsAdd
<1>3. ActsOf(tasks) = ActsOf(tasks \ {t}) \cup t.acts
  BY ActsLess
<1>4. Shutters(tasks) \ t.acts \subseteq Shutters(Add(tasks \ {t}, w))
  BY ShuttersLess, ShuttersAdd
<1> QED
  BY <1>1, <1>2, <1>3, <1>4 DEF Turned, Cuts

LEMMA EmittedSame ==
    ASSUME NEW m
    PROVE  Emitted(m, m) = {}
<1>1. ASSUME NEW a \in Emitted(m, m) PROVE FALSE
  <2>1. Announces(m, m, a)
    BY EmittedAnnounces
  <2> QED
    BY <2>1 DEF Announces, Has
<1> QED
  BY <1>1

LEMMA EmittedStart ==
    ASSUME Start, NEW n, Ok(n), Ages(model, n)
    PROVE  Apt(Emitted(model, n), model.nextGen, tasks, opens)
  BY StartParts, EmittedApt

(* request_resync, t's actions dropped or nobody's. *)
LEMMA TurnResync ==
    ASSUME Start, Resync(tasks)
    PROVE  Turned(Emitted(model, model'), {})
<1>1. CASE closing # "Open"
  <2>1. model' = model /\ tasks' = tasks
    BY <1>1 DEF Resync
  <2> QED
    BY <2>1, TurnSame, EmittedSame
<1>2. CASE closing = "Open"
  <2> DEFINE n == RequireResync(model)
             w == Handoff(Emitted(model, n))
  <2>1. model' = n /\ tasks' = Add(tasks, w)
    BY <1>2 DEF Resync
  <2>2. w.acts = Emitted(model, n)
    BY HandoffIs
  <2>3. Ok(n) /\ Ages(model, n)
    BY StartParts, BaseParts, ResyncCarries DEF Carries
  <2> HIDE DEF n, w
  <2>4. Apt(w.acts, model.nextGen, tasks, opens)
    BY <2>2, <2>3, EmittedStart
  <2> QED
    BY <2>1, <2>2, <2>4, TurnAdd
<1> QED
  BY <1>1, <1>2

LEMMA TurnResyncDrop ==
    ASSUME Start, NEW t \in tasks, Resync(tasks \ {t})
    PROVE  Turned(Emitted(model, model'), t.acts)
<1>1. CASE closing # "Open"
  <2>1. model' = model /\ tasks' = tasks \ {t}
    BY <1>1 DEF Resync
  <2>2. ActsOf(tasks) = ActsOf(tasks \ {t}) \cup t.acts
    BY ActsLess
  <2>3. Sole(tasks \ {t}) /\ Pure(tasks \ {t})
    BY StartParts, SoleLess, PureLess
  <2> QED
    BY <2>1, <2>2, <2>3, EmittedSame, ShuttersLess DEF Turned, Cuts
<1>2. CASE closing = "Open"
  <2> DEFINE n == RequireResync(model)
             w == Handoff(Emitted(model, n))
  <2>1. model' = n /\ tasks' = Add(tasks \ {t}, w)
    BY <1>2 DEF Resync
  <2>2. w.acts = Emitted(model, n)
    BY HandoffIs
  <2>3. Ok(n) /\ Ages(model, n)
    BY StartParts, BaseParts, ResyncCarries DEF Carries
  <2> HIDE DEF n, w
  <2>4. Apt(w.acts, model.nextGen, tasks, opens)
    BY <2>2, <2>3, EmittedStart
  <2> QED
    BY <2>1, <2>2, <2>4, TurnDrop
<1> QED
  BY <1>1, <1>2

-----------------------------------------------------------------------------
(* The broker's records.                                                   *)

IsBroker(b) ==
    /\ b \in [gen : Nat, permits : Nat, wire : {b.wire}, sent : {b.sent},
              acked : {b.acked}, half : {b.half}, ended : {b.ended}]
    /\ IsSeq(b.wire)

Posted(br) ==
    /\ br = [s \in Segments |-> br[s]]
    /\ \A s \in Segments : IsBroker(br[s])

LEMMA AtBrokerIs ==
    ASSUME Posted(broker), NEW s \in Segments, NEW b
    PROVE  /\ AtBroker(s, b) = [x \in Segments |-> AtBroker(s, b)[x]]
           /\ AtBroker(s, b)[s] = b
           /\ \A x \in Segments : x # s => AtBroker(s, b)[x] = broker[x]
           /\ IsBroker(b) => Posted(AtBroker(s, b))
<1> DEFINE br == AtBroker(s, b)
<1>1. DOMAIN broker = Segments
  BY DEF Posted
<1>2. /\ br[s] = b /\ \A x \in Segments : x # s => br[x] = broker[x]
      /\ br = [x \in Segments |-> br[x]]
  BY <1>1 DEF AtBroker
<1> HIDE DEF br
<1>3. IsBroker(b) => Posted(br)
  BY <1>2 DEF Posted
<1> QED
  BY <1>2, <1>3 DEF br

(* The same but for one or a few fields. *)
LikeBroker(b, d) ==
    d.gen = b.gen /\ d.permits = b.permits /\ d.wire = b.wire /\ d.sent = b.sent
      /\ d.acked = b.acked

LEMMA NoneIsSeq == IsSeq(<<>>)
<1>1. <<>> \in Seq({})
  OBVIOUS
<1> QED
  BY <1>1 DEF IsSeq

LEMMA DetachedIs ==
    ASSUME NEW b, IsBroker(b)
    PROVE  LET d == Detached(b)
           IN  /\ IsBroker(d) /\ d.gen = 0 /\ d.permits = 0 /\ d.wire = <<>>
               /\ d.sent = {} /\ d.acked = b.acked
<1> DEFINE d == Detached(b)
<1>1. d = [b EXCEPT !.gen = 0, !.permits = 0, !.wire = <<>>,
                    !.sent = {}, !.half = 0, !.ended = FALSE]
  BY DEF Detached
<1> HIDE DEF d
<1>2. /\ d.gen = 0 /\ d.permits = 0 /\ d.wire = <<>> /\ d.sent = {} /\ d.acked = b.acked
      /\ d.half = 0 /\ d.ended = FALSE
  BY <1>1 DEF IsBroker
<1>3. IsBroker(d)
  BY <1>1, <1>2, NoneIsSeq DEF IsBroker
<1> QED
  BY <1>2, <1>3 DEF d

LEMMA SetGen ==
    ASSUME NEW b, IsBroker(b), NEW g \in Nat
    PROVE  LET d == [b EXCEPT !.gen = g]
           IN  /\ IsBroker(d) /\ d.gen = g /\ d.permits = b.permits /\ d.wire = b.wire
               /\ d.sent = b.sent /\ d.acked = b.acked
<1> DEFINE d == [b EXCEPT !.gen = g]
<1>1. d = [b EXCEPT !.gen = g]
  OBVIOUS
<1> HIDE DEF d
<1>2. /\ d.gen = g /\ d.permits = b.permits /\ d.wire = b.wire /\ d.sent = b.sent
      /\ d.acked = b.acked /\ d.half = b.half /\ d.ended = b.ended
  BY <1>1 DEF IsBroker
<1>3. IsBroker(d)
  BY <1>1, <1>2 DEF IsBroker
<1> QED
  BY <1>2, <1>3 DEF d

LEMMA SetPermits ==
    ASSUME NEW b, IsBroker(b), NEW k \in Nat
    PROVE  LET d == [b EXCEPT !.permits = k]
           IN  /\ IsBroker(d) /\ d.gen = b.gen /\ d.permits = k /\ d.wire = b.wire
               /\ d.sent = b.sent /\ d.acked = b.acked
<1> DEFINE d == [b EXCEPT !.permits = k]
<1>1. d = [b EXCEPT !.permits = k]
  OBVIOUS
<1> HIDE DEF d
<1>2. /\ d.gen = b.gen /\ d.permits = k /\ d.wire = b.wire /\ d.sent = b.sent
      /\ d.acked = b.acked /\ d.half = b.half /\ d.ended = b.ended
  BY <1>1 DEF IsBroker
<1>3. IsBroker(d)
  BY <1>1, <1>2 DEF IsBroker
<1> QED
  BY <1>2, <1>3 DEF d

LEMMA SetWire ==
    ASSUME NEW b, IsBroker(b), NEW q, IsSeq(q)
    PROVE  LET d == [b EXCEPT !.wire = q]
           IN  /\ IsBroker(d) /\ d.gen = b.gen /\ d.permits = b.permits /\ d.wire = q
               /\ d.sent = b.sent /\ d.acked = b.acked
<1> DEFINE d == [b EXCEPT !.wire = q]
<1>1. d = [b EXCEPT !.wire = q]
  OBVIOUS
<1> HIDE DEF d
<1>2. /\ d.gen = b.gen /\ d.permits = b.permits /\ d.wire = q /\ d.sent = b.sent
      /\ d.acked = b.acked /\ d.half = b.half /\ d.ended = b.ended
  BY <1>1 DEF IsBroker
<1>3. IsBroker(d)
  BY <1>1, <1>2 DEF IsBroker
<1> QED
  BY <1>2, <1>3 DEF d

LEMMA SetSent ==
    ASSUME NEW b, IsBroker(b), NEW S
    PROVE  LET d == [b EXCEPT !.sent = S]
           IN  /\ IsBroker(d) /\ d.gen = b.gen /\ d.permits = b.permits /\ d.wire = b.wire
               /\ d.sent = S /\ d.acked = b.acked
<1> DEFINE d == [b EXCEPT !.sent = S]
<1>1. d = [b EXCEPT !.sent = S]
  OBVIOUS
<1> HIDE DEF d
<1>2. /\ d.gen = b.gen /\ d.permits = b.permits /\ d.wire = b.wire /\ d.sent = S
      /\ d.acked = b.acked /\ d.half = b.half /\ d.ended = b.ended
  BY <1>1 DEF IsBroker
<1>3. IsBroker(d)
  BY <1>1, <1>2 DEF IsBroker
<1> QED
  BY <1>2, <1>3 DEF d

LEMMA SetAcked ==
    ASSUME NEW b, IsBroker(b), NEW S
    PROVE  LET d == [b EXCEPT !.acked = S]
           IN  /\ IsBroker(d) /\ d.gen = b.gen /\ d.permits = b.permits /\ d.wire = b.wire
               /\ d.sent = b.sent /\ d.acked = S
<1> DEFINE d == [b EXCEPT !.acked = S]
<1>1. d = [b EXCEPT !.acked = S]
  OBVIOUS
<1> HIDE DEF d
<1>2. /\ d.gen = b.gen /\ d.permits = b.permits /\ d.wire = b.wire /\ d.sent = b.sent
      /\ d.acked = S /\ d.half = b.half /\ d.ended = b.ended
  BY <1>1 DEF IsBroker
<1>3. IsBroker(d)
  BY <1>1, <1>2 DEF IsBroker
<1> QED
  BY <1>2, <1>3 DEF d

Rewound(b) == [b EXCEPT !.permits = 0, !.wire = <<>>, !.sent = {},
                        !.acked = {}, !.half = 0, !.ended = FALSE]

LEMMA RewoundIs ==
    ASSUME NEW b, IsBroker(b)
    PROVE  LET d == Rewound(b)
           IN  /\ IsBroker(d) /\ d.gen = b.gen /\ d.permits = 0 /\ d.wire = <<>>
               /\ d.sent = {} /\ d.acked = {}
<1> DEFINE d == Rewound(b)
<1>1. d = [b EXCEPT !.permits = 0, !.wire = <<>>, !.sent = {},
                    !.acked = {}, !.half = 0, !.ended = FALSE]
  BY DEF Rewound
<1> HIDE DEF d
<1>2. /\ d.gen = b.gen /\ d.permits = 0 /\ d.wire = <<>> /\ d.sent = {} /\ d.acked = {}
      /\ d.half = 0 /\ d.ended = FALSE
  BY <1>1 DEF IsBroker
<1>3. IsBroker(d)
  BY <1>1, <1>2, NoneIsSeq DEF IsBroker
<1> QED
  BY <1>2, <1>3 DEF d

Sending(b, k, q, S, h) == [b EXCEPT !.permits = k, !.wire = q, !.sent = S, !.half = h]

LEMMA SendingIs ==
    ASSUME NEW b, IsBroker(b), NEW k \in Nat, NEW q, IsSeq(q), NEW S, NEW h
    PROVE  LET d == Sending(b, k, q, S, h)
           IN  /\ IsBroker(d) /\ d.gen = b.gen /\ d.permits = k /\ d.wire = q
               /\ d.sent = S /\ d.acked = b.acked
<1> DEFINE d == Sending(b, k, q, S, h)
<1>1. d = [b EXCEPT !.permits = k, !.wire = q, !.sent = S, !.half = h]
  BY DEF Sending
<1> HIDE DEF d
<1>2. /\ d.gen = b.gen /\ d.permits = k /\ d.wire = q /\ d.sent = S /\ d.acked = b.acked
      /\ d.half = h /\ d.ended = b.ended
  BY <1>1 DEF IsBroker
<1>3. IsBroker(d)
  BY <1>1, <1>2 DEF IsBroker
<1> QED
  BY <1>2, <1>3 DEF d

Ending(b, q) == [b EXCEPT !.wire = q, !.ended = TRUE]

LEMMA EndingIs ==
    ASSUME NEW b, IsBroker(b), NEW q, IsSeq(q)
    PROVE  LET d == Ending(b, q)
           IN  /\ IsBroker(d) /\ d.gen = b.gen /\ d.permits = b.permits /\ d.wire = q
               /\ d.sent = b.sent /\ d.acked = b.acked
<1> DEFINE d == Ending(b, q)
<1>1. d = [b EXCEPT !.wire = q, !.ended = TRUE]
  BY DEF Ending
<1> HIDE DEF d
<1>2. /\ d.gen = b.gen /\ d.permits = b.permits /\ d.wire = q /\ d.sent = b.sent
      /\ d.acked = b.acked /\ d.half = b.half /\ d.ended = TRUE
  BY <1>1 DEF IsBroker
<1>3. IsBroker(d)
  BY <1>1, <1>2 DEF IsBroker
<1> QED
  BY <1>2, <1>3 DEF d

-----------------------------------------------------------------------------
(* The actions, one by one: what each adds to the actions that wait.       *)

Gives == Turned(Emitted(model, model'), {})

LEMMA RunsAges ==
    ASSUME Runs
    PROVE  Ok(model') /\ Ages(model, model')
  BY DEF Runs, Steady, Carries

LEMMA SpawnTurns ==
    ASSUME Start, Ok(model'), Ages(model, model'), NEW w,
           w.acts = Emitted(model, model'), tasks' = Add(tasks, w)
    PROVE  Gives
<1>1. Apt(w.acts, model.nextGen, tasks, opens)
  BY EmittedStart
<1> QED
  BY <1>1, TurnAdd DEF Gives

LEMMA AdvanceTurns ==
    ASSUME Start, Ok(model'), Ages(model, model'), NEW t \in tasks, NEW a \in t.acts,
           Follows(a, Emitted(model, model')),
           tasks' = Advance(t, a, Emitted(model, model'))
    PROVE  Turned(Emitted(model, model'), {a})
<1>1. Apt(Emitted(model, model'), model.nextGen, tasks, opens)
  BY EmittedStart
<1> QED
  BY <1>1, TurnAdvance

LEMMA SameTurns ==
    ASSUME Start, model' = model, tasks' = tasks
    PROVE  Gives
  BY EmittedSame, TurnSame DEF Gives

LEMMA ControlUpdateTurns ==
    ASSUME Start, ControlUpdate
    PROVE  Gives
<1> DEFINE p == Plan[applied + 1]
           n == ApplyControlPlane(model, p.layout, p.assigned)
           t == Task("control", 0, 0, {}, Emitted(model, n), {})
<1>1. model' = n /\ tasks' = Add(tasks, t)
  BY DEF ControlUpdate
<1>2. t.acts = Emitted(model, n)
  BY TaskIs
<1>3. Ok(model') /\ Ages(model, model')
  BY ControlUpdateRuns, RunsAges, StartParts
<1> HIDE DEF n, t
<1> QED
  BY <1>1, <1>2, <1>3, SpawnTurns

LEMMA ReconnectAges ==
    ASSUME Base, ReconnectControlPlane
    PROVE  Ok(model') /\ Ages(model, model')
<1> DEFINE p == Plan[published]
           n == ApplyReconnectBaseline(model, p.layout, p.assigned)
<1>1. closing = "Open" /\ reconnect /\ model' = n
  BY DEF ReconnectControlPlane, ControlIdle
<1>2. model.phase = "ResyncRequired"
  BY <1>1 DEF Base, Staged
<1>3. Ok(n) /\ Evolves(model, n, {})
  BY <1>2, RejoinGoes, PlanIs, BaseParts
<1> HIDE DEF n
<1> QED
  BY <1>1, <1>3, EvolvesDrifts, DriftsAge

LEMMA ReconnectTurns ==
    ASSUME Start, ReconnectControlPlane
    PROVE  Gives
<1> DEFINE p == Plan[published]
           n == ApplyReconnectBaseline(model, p.layout, p.assigned)
           t == Task("control", 0, 0, {}, Emitted(model, n), {})
<1>1. model' = n /\ tasks' = Add(tasks, t)
  BY DEF ReconnectControlPlane
<1>2. t.acts = Emitted(model, n)
  BY TaskIs
<1>3. Ok(model') /\ Ages(model, model')
  BY ReconnectAges, StartParts
<1> HIDE DEF n, t
<1> QED
  BY <1>1, <1>2, <1>3, SpawnTurns

LEMMA ExecSameTurns ==
    ASSUME Start, NEW t \in tasks, NEW a \in t.acts, ExecOpen(t, a) \/ ExecGrant(t, a)
    PROVE  Turned({}, {a}) /\ model' = model
<1>1. model' = model /\ tasks' = Advance(t, a, {})
  BY DEF ExecOpen, ExecGrant
<1> QED
  BY <1>1, NothingApt, TurnAdvance DEF Follows

LEMMA ShutAges ==
    ASSUME Base, NEW s, NEW g
    PROVE  /\ Ok(Shut(model, s, g)) /\ Ages(model, Shut(model, s, g))
           /\ \A a \in Emitted(model, Shut(model, s, g)) : a.op # "seek"
<1> DEFINE n == Shut(model, s, g)
<1>1. Tends(model, n)
  BY ShutTends, BaseParts
<1> HIDE DEF n
<1>2. Ok(n) /\ Ages(model, n)
  BY <1>1 DEF Tends, Carries
<1>3. ASSUME NEW a \in Emitted(model, n), a.op = "seek" PROVE FALSE
  <2>1. Announces(model, n, a)
    BY EmittedAnnounces
  <2>2. /\ a.seg \in DOMAIN n.children /\ a.seg \in DOMAIN model.children
        /\ model.children[a.seg].phase # "Seeking" /\ n.children[a.seg].phase = "Seeking"
    BY <1>3, <2>1 DEF Announces, Has
  <2>3. CASE CanChildClosed(model, s, g)
    <3>1. n = ChildClosed(model, s)
      BY <2>3 DEF n, Shut
    <3>2. s \in DOMAIN model.children /\ model.children[s].phase = "Closing"
      BY <2>3 DEF CanChildClosed, Has
    <3>3. /\ Goes(model, n, {s})
          /\ s \in DOMAIN n.children => Fresh(n.children[s])
      BY <3>1, <3>2, ChildClosedGoes, BaseParts
    <3>4. a.seg # s
      BY <2>2, <3>3 DEF Fresh
    <3>5. Moves(model.children[a.seg], n.children[a.seg])
      BY <2>2, <3>3, <3>4 DEF Goes, Evolves
    <3> QED
      BY <2>2, <3>5 DEF Moves
  <2>4. CASE ~CanChildClosed(model, s, g)
    <3>1. n = model
      BY <2>4 DEF n, Shut
    <3> QED
      BY <2>2, <3>1
  <2> QED
    BY <2>3, <2>4
<1> QED
  BY <1>2, <1>3 DEF n

LEMMA ExecCancelTurns ==
    ASSUME Start, NEW t \in tasks, NEW a \in t.acts, ExecCancel(t, a), UNCHANGED <<app, control, left>>
    PROVE  Turned(Emitted(model, model'), {a})
<1> DEFINE n == Shut(model, a.seg, a.gen)
<1>1. model' = n /\ tasks' = Advance(t, a, Emitted(model, n))
  BY Zenon DEF ExecCancel, Shut
<1>2. Ok(model') /\ Ages(model, model')
  BY ExecCancelRuns, RunsAges, StartParts
<1>3. Follows(a, Emitted(model, n))
  BY ShutAges, StartParts DEF Follows, Finishes, ExecCancel
<1> HIDE DEF n
<1> QED
  BY <1>1, <1>2, <1>3, AdvanceTurns

LEMMA PartsTurns ==
    ASSUME Start, NEW t \in tasks, NEW a \in t.acts, Parts(t, a)
    PROVE  /\ Turned(Emitted(model, model'), {a})
           /\ model' = Shut(model, a.seg, a.gen)
           /\ Ok(model') /\ Ages(model, model')
<1> DEFINE n == Shut(model, a.seg, a.gen)
<1>1. a.op = "close" /\ model' = n /\ tasks' = Advance(t, a, Emitted(model, n))
  BY Zenon DEF Parts
<1>2. Ok(n) /\ Ages(model, n) /\ Follows(a, Emitted(model, n))
  BY <1>1, ShutAges, StartParts DEF Follows, Finishes
<1> HIDE DEF n
<1>3. Turned(Emitted(model, model'), {a})
  BY <1>1, <1>2, AdvanceTurns
<1> QED
  BY <1>1, <1>2, <1>3 DEF n

LEMMA ExecSeekTurns ==
    ASSUME Start, NEW t \in tasks, NEW a \in t.acts, ExecSeek(t, a), UNCHANGED <<app, control, left>>
    PROVE  Turned(Emitted(model, model'), {a})
<1> DEFINE n == SeekCompleted(model, a.seg)
<1>1. model' = n /\ tasks' = Advance(t, a, Emitted(model, n))
  BY DEF ExecSeek
<1>2. Ok(model') /\ Ages(model, model')
  BY ExecSeekRuns, RunsAges, StartParts
<1>3. Follows(a, Emitted(model, n))
  <2>1. /\ a.op = "seek" /\ model.phase = "Open" /\ a.seg \in DOMAIN model.children
        /\ model.children[a.seg].phase = "Seeking"
    BY DEF ExecSeek, CanSeekCompleted, Has
  <2>2. DOMAIN n.children = DOMAIN model.children /\ ClosesNobody(model, n)
    BY <2>1, SeekCompletedGoes, StartParts
  <2> HIDE DEF n
  <2>3. ASSUME NEW b \in Emitted(model, n) PROVE ~Finishes(b)
    <3>1. Announces(model, n, b)
      BY EmittedAnnounces
    <3> QED
      BY <2>2, <3>1 DEF Announces, Finishes, ClosesNobody
  <2> QED
    BY <2>1, <2>3 DEF Follows
<1> HIDE DEF n
<1> QED
  BY <1>1, <1>2, <1>3, AdvanceTurns

LEMMA TryCompleteTurns ==
    ASSUME Start, TryComplete
    PROVE  Gives
<1>0. PICK t \in tasks : \E c :
        LET n == IF CanComplete(model, c[1], c[2])
                 THEN CompleteSegment(model, c[1]) ELSE model
            u == [t EXCEPT !.tries = t.tries \ {c},
                           !.after = IF t.tries = {} THEN t.after \ {c}
                                     ELSE t.after]
        IN  /\ model' = n
            /\ tasks' = Add(Add(tasks \ {t}, u),
                           Task(t.by, t.seg, t.gen, {}, Emitted(model, n), {}))
  BY DEF TryComplete
<1>1. PICK c :
        LET n == IF CanComplete(model, c[1], c[2])
                 THEN CompleteSegment(model, c[1]) ELSE model
            u == [t EXCEPT !.tries = t.tries \ {c},
                           !.after = IF t.tries = {} THEN t.after \ {c}
                                     ELSE t.after]
        IN  /\ model' = n
            /\ tasks' = Add(Add(tasks \ {t}, u),
                           Task(t.by, t.seg, t.gen, {}, Emitted(model, n), {}))
  BY <1>0
<1> DEFINE n == IF CanComplete(model, c[1], c[2])
                THEN CompleteSegment(model, c[1]) ELSE model
           y == IF t.tries = {} THEN t.after \ {c} ELSE t.after
           u == [t EXCEPT !.tries = t.tries \ {c}, !.after = y]
           v == Task(t.by, t.seg, t.gen, {}, Emitted(model, n), {})
<1>2. model' = n /\ tasks' = Add(Add(tasks \ {t}, u), v)
  BY <1>1
<1>3. Ok(model') /\ Ages(model, model')
  BY TryCompleteRuns, RunsAges, StartParts
<1>4. IsTask(t)
  BY StartParts
<1>5. u.acts = t.acts /\ u.by = t.by
  <2> DEFINE x == t.tries \ {c}
  <2>1. u = Offering(t, x, y)
    BY DEF Offering
  <2> HIDE DEF u, x, y
  <2> QED
    BY <1>4, <2>1, SetOffers
<1>6. v.acts = Emitted(model, n)
  BY TaskIs
<1> HIDE DEF n, u, v
<1> DEFINE R == Add(tasks \ {t}, u)
<1>7. Apt(v.acts, model.nextGen, tasks, opens)
  BY <1>2, <1>3, <1>6, EmittedStart
<1>8. /\ Sole(R) /\ ActsOf(R) = ActsOf(tasks) /\ Pure(R)
      /\ Shutters(tasks) \subseteq Shutters(R)
  <2>1. Sole(R)
    <3>1. u.acts \subseteq t.acts \cup {} /\ Above({}, model.nextGen) /\ Single({})
      BY <1>5 DEF Above, Single
    <3> QED
      BY <3>1, StartParts, SoleHeir
  <2>2. ActsOf(R) = ActsOf(tasks \ {t}) \cup t.acts
    BY <1>5, ActsAdd
  <2>3. ActsOf(tasks) = ActsOf(tasks \ {t}) \cup t.acts
    BY ActsLess
  <2>4. Pure(R)
    BY <1>5, StartParts, PureAdd, PureLess DEF Pure
  <2>5. Shutters(tasks) \ (t.acts \ u.acts) \subseteq Shutters(R)
    BY <1>5, ShuttersHeir
  <2> QED
    BY <1>5, <2>1, <2>2, <2>3, <2>4, <2>5
<1> HIDE DEF R
<1>9. Below(R, model.nextGen)
  BY <1>8, StartParts DEF Below
<1>10. Sole(Add(R, v)) /\ Pure(Add(R, v))
  BY <1>7, <1>8, <1>9, SoleAdd, PureAdd DEF Apt
<1>11. ActsOf(Add(R, v)) = ActsOf(tasks) \cup v.acts
  BY <1>8, ActsAdd
<1> QED
  BY <1>2, <1>6, <1>8, <1>10, <1>11, ShuttersAdd DEF Gives, Turned, Cuts, R

LEMMA OpenReturnsTurns ==
    ASSUME Start, OpenReturns
    PROVE  \E o \in opens :
             /\ opens' = opens \ {o}
             /\ UNCHANGED <<flowRes, arriving, app, control, left>>
             /\ \/ OpenStep(o)
                \/ /\ ~OpenCurrent(o) /\ Gives /\ attached' = attached
                   /\ model' = Shut(model, o.seg, o.gen)
                   /\ broker' = IF o.attached
                                THEN AtBroker(o.seg, Detached(broker[o.seg]))
                                ELSE broker
<1>1. PICK o \in opens :
        /\ opens' = opens \ {o}
        /\ IF OpenCurrent(o)
           THEN LET n == ChildOpened(model, o.seg)
                IN  /\ o.attached
                    /\ model' = n
                    /\ attached' = [attached EXCEPT ![o.seg] = o.gen]
                    /\ tasks' = Add(tasks, Free(Emitted(model, n)))
                    /\ UNCHANGED broker
           ELSE /\ CancelledOpen(o)
                /\ broker' = IF o.attached
                             THEN AtBroker(o.seg, Detached(broker[o.seg]))
                             ELSE broker
                /\ UNCHANGED attached
        /\ UNCHANGED <<flowRes, arriving, app, control, left>>
  BY DEF OpenReturns
<1>2. CASE OpenCurrent(o)
  <2>1. OpenStep(o)
    BY <1>1, <1>2 DEF OpenStep
  <2> QED
    BY <1>1, <2>1
<1>3. CASE ~OpenCurrent(o)
  <2> DEFINE n == Shut(model, o.seg, o.gen)
             t == Free(Emitted(model, n))
  <2>1. CancelledOpen(o)
    BY <1>1, <1>3
  <2>2. model' = n /\ tasks' = Add(tasks, t)
    BY <2>1, Zenon DEF CancelledOpen, Shut
  <2>3. t.acts = Emitted(model, n) /\ Ok(n) /\ Ages(model, n)
    BY FreeIs, ShutAges, StartParts
  <2> HIDE DEF n, t
  <2>4. Gives
    BY <2>2, <2>3, SpawnTurns
  <2> QED
    BY <1>1, <1>3, <2>2, <2>4 DEF n
<1> QED
  BY <1>2, <1>3

LEMMA OpenBusyTurns ==
    ASSUME Start, OpenBusy
    PROVE  tasks' = tasks /\ model'.children = model.children /\ model'.inc = model.inc
<1>1. PICK o \in opens :
        /\ model' = ChildOpenBusy(model, o.seg) /\ tasks' = tasks
  BY DEF OpenBusy
<1>2. IsModel(model)
  BY StartParts, OkParts
<1> QED
  BY <1>1, <1>2 DEF ChildOpenBusy, IsModel

LEMMA LoopTerminalTurns ==
    ASSUME Start, NEW s \in Segments, LoopTerminal(s)
    PROVE  Gives
<1> DEFINE g == attached[s]
           n == IF CanObserveTerminal(model, s, g) THEN ObserveTerminal(model, s)
                ELSE model
           t == Task("loop", s, g, {}, Emitted(model, n), {<<s, g>>})
<1>1. model' = n /\ tasks' = Add(tasks, t)
  BY Zenon DEF LoopTerminal
<1>2. t.acts = Emitted(model, n)
  BY TaskIs
<1>3. Ok(model') /\ Ages(model, model')
  BY LoopTerminalRuns, RunsAges, StartParts
<1> HIDE DEF n, t
<1> QED
  BY <1>1, <1>2, <1>3, SpawnTurns

LEMMA NegativeAcknowledgeTurns ==
    ASSUME Start, NegativeAcknowledge
    PROVE  Gives
<1>1. PICK t \in held :
        LET n == ResolveLeases(model, {t.seq})
        IN  /\ ValidToken(model, t) /\ model' = n
            /\ tasks' = Add(tasks, Handoff(Emitted(model, n)))
  BY DEF NegativeAcknowledge
<1> DEFINE n == ResolveLeases(model, {t.seq})
           u == Handoff(Emitted(model, n))
<1>3. model' = n /\ tasks' = Add(tasks, u)
  BY <1>1
<1>4. u.acts = Emitted(model, n)
  BY HandoffIs
<1>5. Ok(model') /\ Ages(model, model')
  BY NegativeAcknowledgeRuns, RunsAges, StartParts
<1> HIDE DEF n, u
<1> QED
  BY <1>3, <1>4, <1>5, SpawnTurns

LEMMA SeekPositionsTurns ==
    ASSUME Start, SeekPositions
    PROVE  Gives
<1> DEFINE n == BeginSeek(model)
           t == ByHand("app", Emitted(model, n))
<1>1. model' = n /\ tasks' = Add(tasks, t)
  BY DEF SeekPositions
<1>2. t.acts = Emitted(model, n)
  BY ByHandIs
<1>3. Ok(model') /\ Ages(model, model')
  BY SeekPositionsRuns, RunsAges, StartParts
<1> HIDE DEF n, t
<1> QED
  BY <1>1, <1>2, <1>3, SpawnTurns

-----------------------------------------------------------------------------
(* Where a consumer the broker holds can be.                               *)

(* The broker holds what an open task has attached. *)
Linked(O, br) == \A o \in O : o.attached => br[o.seg].gen = o.gen

EndsOf(A, s, g) == \E a \in A : Finishes(a) /\ a.seg = s /\ a.gen = g

ClosesOf(A, s, g) == \E a \in A : a.op = "close" /\ a.seg = s /\ a.gen = g

(* The actions an ending child may rest on: a cancel, even one that nobody *)
(* executes, or a close of finish_close until that has ended.              *)
Resorts(T, cl, d) ==
    Cuts(ActsOf(T) \cup d) \cup (IF cl = "Closed" THEN {} ELSE Shutters(T))

(* A closing child has such an action, or close() will find it registered: *)
(* any other close may fail, be dropped or be overtaken.                   *)
Mended(m, T, at, cl, d) ==
    \A s \in DOMAIN m.children :
        m.children[s].phase = "Closing" =>
            \/ EndsOf(Resorts(T, cl, d), s, m.children[s].gen)
            \/ at[s] = m.children[s].gen

(* What the broker holds is registered, or an open task or finish_close    *)
(* has it.                                                                 *)
Traced(T, O, at, br) ==
    \A s \in Segments :
        br[s].gen # 0 =>
            \/ at[s] = br[s].gen
            \/ \E o \in O : o.attached /\ o.seg = s
            \/ ClosesOf(Shutters(T), s, br[s].gen)

Ceased(cl, O, at, br) ==
    /\ cl # "Open" => \A s \in Segments : at[s] = 0
    /\ cl = "Closed" => O = {} /\ \A s \in Segments : br[s].gen = 0

Released ==
    /\ Start /\ Posted(broker) /\ Linked(opens, broker)
    /\ Mended(model, tasks, attached, closing, dropped)
    /\ Traced(tasks, opens, attached, broker)
    /\ Ceased(closing, opens, attached, broker)

(* A child that model' has closing was so before, and D does not hold its  *)
(* end; or X has its cancel, or it is registered.                          *)
Shuts(X, D) ==
    \A s \in DOMAIN model'.children :
        LET g == model'.children[s].gen
        IN  model'.children[s].phase = "Closing" =>
               \/ EndsOf(Cuts(X), s, g)
               \/ attached[s] = g
               \/ /\ Has(model, s, g) /\ model.children[s].phase = "Closing"
                  /\ ~EndsOf(D, s, g)

LEMMA ShutsEmitted ==
    ASSUME Start, Ok(model'), Ages(model, model'), NEW X, NEW D,
           Emitted(model, model') \subseteq X,
           \A a \in D : Finishes(a) /\ Has(model', a.seg, a.gen)
                          => model'.children[a.seg].phase # "Closing"
    PROVE  Shuts(X, D)
<1>1. ASSUME NEW s \in DOMAIN model'.children, model'.children[s].phase = "Closing"
      PROVE  LET g == model'.children[s].gen
             IN  \/ EndsOf(Cuts(X), s, g)
                 \/ attached[s] = g
                 \/ /\ Has(model, s, g) /\ model.children[s].phase = "Closing"
                    /\ ~EndsOf(D, s, g)
  <2> DEFINE g == model'.children[s].gen
             c == model.children[s]
  <2>1. Aged(model, model', s)
    BY <1>1 DEF Ages
  <2>2. s \in DOMAIN model.children /\ c.gen = g
    BY <1>1, <2>1 DEF Aged
  <2>3. Has(model, s, g) /\ c.phase \in Phases
    BY <2>2, StartParts, OkParts DEF Has, Good, IsChild
  <2>4. CASE c.phase = "Opening"
    <3>1. Handed(model, model', s, "cancel", Emitted(model, model'))
      BY <1>1, <2>3, <2>4, EmittedFor
    <3> QED
      BY <3>1 DEF Handed, EndsOf, Finishes, Cuts
  <2>5. CASE c.phase = "Closing"
    <3>1. ~EndsOf(D, s, g)
      BY <1>1 DEF EndsOf, Has
    <3> QED
      BY <2>3, <2>5, <3>1
  <2>6. CASE c.phase \in Phases \ {"Opening", "Closing"}
    <3>1. closing = "Open"
      BY <2>2, <2>6, StartParts, OkParts DEF Base, Staged, Phased
    <3>2. Lives(c)
      BY <2>6 DEF Lives
    <3> QED
      BY <2>2, <3>1, <3>2, StartParts DEF Base, Lodged
  <2> QED
    BY <2>3, <2>4, <2>5, <2>6
<1> QED
  BY <1>1 DEF Shuts

(* Without actions: what closes was registered. *)
LEMMA ShutsRegistered ==
    ASSUME Start, Ok(model'), Ages(model, model'), closing = "Open", NEW X,
           \A s \in DOMAIN model.children :
              model.children[s].phase = "Opening" /\ Has(model', s, model.children[s].gen)
                => model'.children[s].phase = "Opening"
    PROVE  Shuts(X, {})
<1>1. ASSUME NEW s \in DOMAIN model'.children, model'.children[s].phase = "Closing"
      PROVE  LET g == model'.children[s].gen
             IN  \/ attached[s] = g
                 \/ Has(model, s, g) /\ model.children[s].phase = "Closing"
  <2> DEFINE g == model'.children[s].gen
             c == model.children[s]
  <2>1. Aged(model, model', s)
    BY <1>1 DEF Ages
  <2>2. s \in DOMAIN model.children /\ c.gen = g
    BY <1>1, <2>1 DEF Aged
  <2>3. c.phase # "Opening"
    BY <1>1, <2>2 DEF Has
  <2>4. CASE c.phase = "Closing"
    BY <2>2, <2>4 DEF Has
  <2>5. CASE c.phase # "Closing"
    <3>1. Lives(c)
      BY <2>3, <2>5 DEF Lives
    <3> QED
      BY <2>2, <3>1, StartParts DEF Base, Lodged
  <2> QED
    BY <2>4, <2>5
<1>2. \A s, g : ~EndsOf({}, s, g)
  BY DEF EndsOf
<1> QED
  BY <1>1, <1>2 DEF Shuts

(* A step that leaves what is registered and what the broker holds alone. *)
Plain(X, D) ==
    /\ Ages(model, model') /\ Turned(X, D) /\ Apt(X, model.nextGen, tasks, opens)
    /\ Shuts(X, D) /\ \A a \in D : a.op # "close"
    /\ attached' = attached /\ closing' = closing
    /\ opens' \subseteq opens /\ \A o \in opens : o.attached => o \in opens'
    /\ Posted(broker') /\ \A s \in Segments : broker'[s].gen = broker[s].gen

LEMMA TurnedKeeps ==
    ASSUME NEW X, NEW D, Turned(X, D)
    PROVE  /\ \A a \in Cuts(ActsOf(tasks)) : a \in D \/ a \in ActsOf(tasks') \cup dropped'
           /\ Cuts(X) \subseteq ActsOf(tasks') \cup dropped'
           /\ \A a \in Shutters(tasks) : a \in D \/ a \in Shutters(tasks')
  BY DEF Turned, Cuts

LEMMA MendedStep ==
    ASSUME Start, Mended(model, tasks, attached, closing, dropped),
           dropped \subseteq dropped', closing' = "Closed" => closing = "Closed",
           NEW X, NEW D, Turned(X, D), Shuts(X, D), NEW at,
           \A s \in DOMAIN model'.children :
              attached[s] = model'.children[s].gen =>
                 \/ at[s] = model'.children[s].gen
                 \/ EndsOf(Resorts(tasks', closing', dropped'), s, model'.children[s].gen)
                 \/ model'.children[s].phase # "Closing"
    PROVE  Mended(model', tasks', at, closing', dropped')
<1> DEFINE E == Resorts(tasks', closing', dropped')
<1>0. /\ \A a \in Resorts(tasks, closing, dropped) : a \in D \/ a \in E
      /\ Cuts(X) \subseteq E
  BY TurnedKeeps DEF Resorts, Cuts
<1> HIDE DEF E
<1>1. ASSUME NEW s \in DOMAIN model'.children, model'.children[s].phase = "Closing"
      PROVE  LET g == model'.children[s].gen
             IN  EndsOf(E, s, g) \/ at[s] = g
  <2> DEFINE g == model'.children[s].gen
  <2>1. CASE EndsOf(Cuts(X), s, g)
    BY <1>0, <2>1 DEF EndsOf
  <2>2. CASE attached[s] = g
    BY <1>1, <2>2 DEF E
  <2>3. CASE /\ Has(model, s, g) /\ model.children[s].phase = "Closing"
             /\ ~EndsOf(D, s, g)
    <3>1. s \in DOMAIN model.children /\ model.children[s].gen = g
      BY <2>3 DEF Has
    <3>2. EndsOf(Resorts(tasks, closing, dropped), s, g) \/ attached[s] = g
      BY <2>3, <3>1 DEF Mended
    <3>3. CASE EndsOf(Resorts(tasks, closing, dropped), s, g)
      <4>1. PICK a \in Resorts(tasks, closing, dropped) :
                   Finishes(a) /\ a.seg = s /\ a.gen = g
        BY <3>3 DEF EndsOf
      <4>2. a \notin D
        BY <2>3, <4>1 DEF EndsOf
      <4>3. a \in E
        BY <1>0, <4>1, <4>2
      <4> QED
        BY <4>1, <4>3 DEF EndsOf
    <3> QED
      BY <2>2, <3>2, <3>3
  <2> QED
    BY <1>1, <2>1, <2>2, <2>3 DEF Shuts
<1> QED
  BY <1>1 DEF Mended, E

LEMMA CloseKept ==
    ASSUME NEW X, NEW D, Turned(X, D), NEW s, NEW g, ClosesOf(Shutters(tasks), s, g),
           \A a \in D : ~(a.op = "close" /\ a.seg = s /\ a.gen = g)
    PROVE  ClosesOf(Shutters(tasks'), s, g)
<1>1. PICK a \in Shutters(tasks) : a.op = "close" /\ a.seg = s /\ a.gen = g
  BY DEF ClosesOf
<1>2. a \in Shutters(tasks')
  BY <1>1, TurnedKeeps
<1> QED
  BY <1>1, <1>2 DEF ClosesOf

LEMMA PlainReleased ==
    ASSUME Released, NEW X, NEW D, Plain(X, D), Base', dropped \subseteq dropped'
    PROVE  Released'
<1>0. Ok(model') /\ Ok(model) /\ Start /\ Staged(model'.phase, closing', reconnect')
  BY StartParts, BaseParts DEF Released, Base
<1>1. Unopened(model', tasks', opens', attached')
  <2>1. \A s \in DOMAIN model'.children : Grew(model, model', s)
    BY <1>0, AgedGrew DEF Plain, Ages
  <2> QED
    BY <1>0, <2>1, StartParts, UnopenedLess DEF Plain, Turned, Ages, Start
<1>2. Start'
  BY <1>1 DEF Start, Plain, Turned
<1>3. Linked(opens', broker')
  <2>1. \A o \in opens' : o \in opens /\ o.seg \in Segments
    BY <1>0 DEF Plain, Start, Unopened, IsOpening
  <2> QED
    BY <2>1 DEF Plain, Released, Linked
<1>4. Mended(model', tasks', attached', closing', dropped')
  BY <1>0, MendedStep DEF Plain, Released
<1>5. Traced(tasks', opens', attached', broker')
  <2>1. ASSUME NEW s \in Segments, broker'[s].gen # 0
        PROVE  \/ attached'[s] = broker'[s].gen
               \/ \E o \in opens' : o.attached /\ o.seg = s
               \/ ClosesOf(Shutters(tasks'), s, broker'[s].gen)
    <3>1. broker'[s].gen = broker[s].gen
      BY DEF Plain
    <3>2. CASE attached[s] = broker[s].gen
      BY <3>1, <3>2 DEF Plain
    <3>3. CASE \E o \in opens : o.attached /\ o.seg = s
      BY <3>3 DEF Plain
    <3>4. CASE ClosesOf(Shutters(tasks), s, broker[s].gen)
      BY <3>1, <3>4, CloseKept DEF Plain
    <3> QED
      BY <2>1, <3>1, <3>2, <3>3, <3>4 DEF Released, Traced
  <2> QED
    BY <2>1 DEF Traced
<1>6. Ceased(closing', opens', attached', broker')
  BY DEF Plain, Released, Ceased
<1> QED
  BY <1>2, <1>3, <1>4, <1>5, <1>6 DEF Released, Plain

-----------------------------------------------------------------------------
(* The plain steps: what each adds to the actions that wait, and that the  *)
(* broker's records stay records.                                          *)

SameHosts(br) == Posted(br) /\ \A s \in Segments : br[s].gen = broker[s].gen

LEMMA HostsSame ==
    ASSUME Posted(broker)
    PROVE  SameHosts(broker)
  BY DEF SameHosts

LEMMA HostsAt ==
    ASSUME Posted(broker), NEW s \in Segments, NEW b, IsBroker(b), b.gen = broker[s].gen
    PROVE  SameHosts(AtBroker(s, b))
  BY AtBrokerIs DEF SameHosts

GrantsOnly(X) == \A a \in X : a.op = "grant"

LEMMA GrantsApt ==
    ASSUME NEW X, GrantsOnly(X), NEW k, NEW T, NEW O
    PROVE  Apt(X, k, T, O)
  BY DEF GrantsOnly, Apt, Single, Above, Clean

(* The consumer's part of a step is as it was. *)
Hushed == attached' = attached /\ closing' = closing /\ opens' = opens

LEMMA PlainEmitted ==
    ASSUME Start, Ok(model'), Ages(model, model'), Gives, Hushed, SameHosts(broker')
    PROVE  Plain(Emitted(model, model'), {})
<1>1. Shuts(Emitted(model, model'), {})
  BY ShutsEmitted
<1>2. Apt(Emitted(model, model'), model.nextGen, tasks, opens)
  BY EmittedStart
<1> QED
  BY <1>1, <1>2 DEF Plain, Gives, Hushed, SameHosts

(* The step has no actions for anybody, or grants. *)
LEMMA PlainGrants ==
    ASSUME Start, Ok(model'), Ages(model, model'), closing = "Open",
           \A s \in DOMAIN model.children :
              model.children[s].phase = "Opening" /\ Has(model', s, model.children[s].gen)
                => model'.children[s].phase = "Opening",
           NEW X, GrantsOnly(X), Turned(X, {}), Hushed, SameHosts(broker')
    PROVE  Plain(X, {})
<1>1. Shuts(X, {})
  BY ShutsRegistered
<1>2. Apt(X, model.nextGen, tasks, opens)
  BY GrantsApt
<1> QED
  BY <1>1, <1>2 DEF Plain, Hushed, SameHosts

LEMMA PlainIdle ==
    ASSUME Start, model' = model, tasks' = tasks, Hushed, SameHosts(broker')
    PROVE  Plain({}, {})
<1>1. Ok(model') /\ Ages(model, model')
  BY StartParts, BaseParts DEF Carries
<1>2. Gives
  BY SameTurns
<1> QED
  BY <1>1, <1>2, PlainEmitted, EmittedSame

LEMMA ControlUpdatePlain ==
    ASSUME Released, ControlUpdate
    PROVE  Plain(Emitted(model, model'), {})
<1>1. Hushed /\ broker' = broker
  BY DEF ControlUpdate, Hushed, client
<1>2. Ok(model') /\ Ages(model, model') /\ Gives
  BY ControlUpdateRuns, RunsAges, StartParts, ControlUpdateTurns DEF Released
<1> QED
  BY <1>1, <1>2, HostsSame, PlainEmitted DEF Released

LEMMA ReconnectPlain ==
    ASSUME Released, ReconnectControlPlane
    PROVE  Plain(Emitted(model, model'), {})
<1>1. Hushed /\ broker' = broker
  BY DEF ReconnectControlPlane, Hushed, client
<1>2. Ok(model') /\ Ages(model, model') /\ Gives
  BY ReconnectAges, StartParts, ReconnectTurns DEF Released
<1> QED
  BY <1>1, <1>2, HostsSame, PlainEmitted DEF Released

LEMMA ResyncAges ==
    ASSUME Start, NEW T, Resync(T)
    PROVE  Ok(model') /\ Ages(model, model')
  BY StartParts, BaseParts, ResyncCarries DEF Resync, Carries

LEMMA ResyncPlain ==
    ASSUME Released, Resync(tasks), attached' = attached, closing' = closing,
           opens' \subseteq opens, \A o \in opens : o.attached => o \in opens',
           SameHosts(broker')
    PROVE  Plain(Emitted(model, model'), {})
<1>1. Start /\ Ok(model') /\ Ages(model, model')
  BY ResyncAges DEF Released
<1>2. Turned(Emitted(model, model'), {})
  BY <1>1, TurnResync
<1>3. Shuts(Emitted(model, model'), {})
  BY <1>1, ShutsEmitted
<1>4. Apt(Emitted(model, model'), model.nextGen, tasks, opens)
  BY <1>1, EmittedStart
<1> QED
  BY <1>1, <1>2, <1>3, <1>4 DEF Plain, SameHosts

LEMMA FailsPlain ==
    ASSUME Released,
           ControlFails \/ OpenFails \/ \E s \in Segments : LoopFails(s)
    PROVE  Plain(Emitted(model, model'), {})
<1>1. SameHosts(broker)
  BY HostsSame DEF Released
<1>2. CASE ControlFails
  BY <1>1, <1>2, ResyncPlain DEF ControlFails, client
<1>3. CASE \E s \in Segments : LoopFails(s)
  BY <1>1, <1>3, ResyncPlain DEF LoopFails, client
<1>4. CASE OpenFails
  <2>1. PICK o \in opens : /\ ~o.attached /\ opens' = opens \ {o} /\ Resync(tasks)
                           /\ UNCHANGED <<attached, closing, broker>>
    BY <1>4 DEF OpenFails
  <2> QED
    BY <1>1, <2>1, ResyncPlain
<1> QED
  BY <1>2, <1>3, <1>4

LEMMA ExecGrantPlain ==
    ASSUME Released, NEW t \in tasks, NEW a \in t.acts, ExecGrant(t, a),
           UNCHANGED <<app, control, left>>
    PROVE  Plain({}, {a})
<1>1. Start /\ Posted(broker)
  BY DEF Released
<1>2. Turned({}, {a}) /\ model' = model /\ a.op = "grant"
  BY <1>1, ExecSameTurns DEF ExecGrant
<1>3. Ok(model') /\ Ages(model, model') /\ Emitted(model, model') = {}
  BY <1>1, <1>2, StartParts, BaseParts, EmittedSame DEF Carries
<1>4. Shuts({}, {a})
  BY <1>1, <1>2, <1>3, ShutsEmitted DEF Finishes
<1>5. a.seg \in Segments
  BY <1>1, StartParts DEF Manned, Actable
<1>6. SameHosts(broker')
  <2> DEFINE b == broker[a.seg]
  <2>1. IsBroker(b) /\ b.permits \in Nat
    BY <1>1, <1>5 DEF Posted, IsBroker
  <2>2. b.permits + 1 \in Nat
    BY <2>1
  <2> DEFINE d == [b EXCEPT !.permits = b.permits + 1]
  <2>3. IsBroker(d) /\ d.gen = b.gen
    BY <2>1, <2>2, SetPermits
  <2>4. broker' = broker \/ broker' = AtBroker(a.seg, d)
    BY DEF ExecGrant
  <2> HIDE DEF d
  <2> QED
    BY <1>1, <1>5, <2>3, <2>4, HostsSame, HostsAt
<1> QED
  BY <1>1, <1>2, <1>3, <1>4, <1>6, NothingApt DEF Plain, ExecGrant, SameHosts, control

(* A child that was told to close is not closing afterwards. *)
LEMMA ShutGone ==
    ASSUME Start, NEW s, NEW g,
           Has(Shut(model, s, g), s, g)
    PROVE  Shut(model, s, g).children[s].phase # "Closing"
<1> DEFINE n == Shut(model, s, g)
<1>1. CASE CanChildClosed(model, s, g)
  <2>1. n = ChildClosed(model, s)
    BY <1>1 DEF Shut
  <2>2. s \in DOMAIN model.children /\ model.children[s].phase = "Closing"
    BY <1>1 DEF CanChildClosed, Has
  <2>3. s \in DOMAIN n.children => Fresh(n.children[s])
    BY <2>1, <2>2, ChildClosedGoes, StartParts
  <2> QED
    BY <2>3 DEF Fresh, Has
<1>2. CASE ~CanChildClosed(model, s, g)
  <2>1. n = model
    BY <1>2 DEF Shut
  <2>2. s \in DOMAIN model.children
    BY <2>1 DEF Has
  <2>3. model.phase # "Closed"
    BY <2>2, StartParts, OkParts DEF Phased
  <2> QED
    BY <1>2, <2>1, <2>3 DEF CanChildClosed
<1> QED
  BY <1>1, <1>2

LEMMA ExecCancelPlain ==
    ASSUME Released, NEW t \in tasks, NEW a \in t.acts, ExecCancel(t, a),
           UNCHANGED <<app, control, left>>
    PROVE  Plain(Emitted(model, model'), {a})
<1>1. Start /\ Posted(broker)
  BY DEF Released
<1>2. Turned(Emitted(model, model'), {a}) /\ a.op = "cancel"
  BY <1>1, ExecCancelTurns DEF ExecCancel
<1>3. model' = Shut(model, a.seg, a.gen)
  BY Zenon DEF ExecCancel, Shut
<1>4. Ok(model') /\ Ages(model, model')
  BY <1>1, <1>3, ShutAges, StartParts
<1>5. Has(model', a.seg, a.gen) => model'.children[a.seg].phase # "Closing"
  BY <1>1, <1>3, ShutGone
<1>6. Shuts(Emitted(model, model'), {a})
  BY <1>1, <1>4, <1>5, ShutsEmitted
<1>7. Apt(Emitted(model, model'), model.nextGen, tasks, opens)
  BY <1>1, <1>4, EmittedStart
<1> QED
  BY <1>1, <1>2, <1>4, <1>6, <1>7 DEF Plain, ExecCancel, control

LEMMA ExecSeekPlain ==
    ASSUME Released, NEW t \in tasks, NEW a \in t.acts, ExecSeek(t, a),
           UNCHANGED <<app, control, left>>
    PROVE  Plain(Emitted(model, model'), {a})
<1>1. Start /\ Posted(broker)
  BY DEF Released
<1>2. Turned(Emitted(model, model'), {a}) /\ a.op = "seek"
  BY <1>1, ExecSeekTurns DEF ExecSeek
<1>4. Ok(model') /\ Ages(model, model')
  BY <1>1, ExecSeekRuns, RunsAges, StartParts
<1>5. Shuts(Emitted(model, model'), {a})
  BY <1>1, <1>2, <1>4, ShutsEmitted DEF Finishes
<1>6. Apt(Emitted(model, model'), model.nextGen, tasks, opens)
  BY <1>1, <1>4, EmittedStart
<1>7. a.seg \in Segments
  BY <1>1, StartParts DEF Manned, Actable
<1>8. SameHosts(broker')
  <2> DEFINE b == broker[a.seg]
             d == Rewound(b)
  <2>1. IsBroker(b)
    BY <1>1, <1>7 DEF Posted
  <2>2. IsBroker(d) /\ d.gen = b.gen
    BY <2>1, RewoundIs
  <2>3. broker' = AtBroker(a.seg, d)
    BY DEF ExecSeek, Rewound
  <2> HIDE DEF d
  <2> QED
    BY <1>1, <1>7, <2>2, <2>3, HostsAt
<1> QED
  BY <1>1, <1>2, <1>4, <1>5, <1>6, <1>8 DEF Plain, ExecSeek, SameHosts, control

LEMMA TryCompletePlain ==
    ASSUME Released, TryComplete
    PROVE  Plain(Emitted(model, model'), {})
<1>1. Hushed /\ broker' = broker
  BY DEF TryComplete, Hushed, client, control
<1>2. Ok(model') /\ Ages(model, model') /\ Gives
  BY TryCompleteRuns, RunsAges, StartParts, TryCompleteTurns DEF Released
<1> QED
  BY <1>1, <1>2, HostsSame, PlainEmitted DEF Released

LEMMA UnmovedEmits ==
    ASSUME NEW m, NEW n, Unmoved(m, n)
    PROVE  Emitted(m, n) = {}
<1>1. ASSUME NEW a \in Emitted(m, n) PROVE FALSE
  <2>1. Announces(m, n, a)
    BY EmittedAnnounces
  <2>2. a.seg \in DOMAIN n.children /\ a.gen = n.children[a.seg].gen
    BY <2>1 DEF Announces
  <2>3. /\ a.seg \in DOMAIN m.children /\ m.children[a.seg].gen = n.children[a.seg].gen
        /\ n.children[a.seg].phase = m.children[a.seg].phase
        /\ n.children[a.seg].flow = m.children[a.seg].flow
    BY <2>2 DEF Unmoved
  <2>4. Has(m, a.seg, a.gen)
    BY <2>2, <2>3 DEF Has
  <2> QED
    BY <2>1, <2>3, <2>4 DEF Announces
<1> QED
  BY <1>1

LEMMA PlainUnmoved ==
    ASSUME Start, Ok(model'), Ages(model, model'), Unmoved(model, model'), tasks' = tasks,
           Hushed, SameHosts(broker')
    PROVE  Plain({}, {})
<1>1. Emitted(model, model') = {}
  BY UnmovedEmits
<1>2. Gives
  BY <1>1, TurnSame DEF Gives
<1> QED
  BY <1>1, <1>2, PlainEmitted

LEMMA OpenBusyPlain ==
    ASSUME Released, OpenBusy
    PROVE  Plain({}, {})
<1>1. Start /\ Base /\ SameHosts(broker)
  BY HostsSame, StartParts DEF Released
<1>2. Ok(model') /\ Ages(model, model')
  BY <1>1, OpenBusyRuns, RunsAges
<1>3. tasks' = tasks /\ model'.children = model.children
  BY <1>1, OpenBusyTurns
<1>4. Unmoved(model, model')
  BY <1>3 DEF Unmoved
<1>5. Hushed /\ broker' = broker
  BY DEF OpenBusy, Hushed, client, control
<1> QED
  BY <1>1, <1>2, <1>3, <1>4, <1>5, PlainUnmoved

LEMMA ReceivePlain ==
    ASSUME Released, Receive
    PROVE  Plain({}, {})
<1>1. Start /\ Base /\ SameHosts(broker)
  BY HostsSame, StartParts DEF Released
<1>2. Base' /\ Ages(model, model') /\ Unmoved(model, model')
  BY <1>1, ReceiveIs DEF Receives
<1>3. Ok(model')
  BY <1>2 DEF Base
<1>4. tasks' = tasks /\ Hushed /\ broker' = broker
  BY DEF Receive, Hushed, client, control
<1> QED
  BY <1>1, <1>2, <1>3, <1>4, PlainUnmoved

LEMMA AcknowledgesPlain ==
    ASSUME Released, Acknowledge \/ AcknowledgeCumulative \/ AcknowledgeInTransaction
    PROVE  Plain({}, {})
<1>1. Start /\ Base /\ SameHosts(broker)
  BY HostsSame, StartParts DEF Released
<1>2. Ok(model') /\ Ages(model, model') /\ Unmoved(model, model')
  BY <1>1, AcknowledgesIs DEF Admits, Steady, Carries
<1>3. tasks' = tasks /\ Hushed /\ broker' = broker
  BY DEF Acknowledge, AcknowledgeCumulative, AcknowledgeInTransaction, AdmitTokens,
         AdmitVector, Begin, Hushed, client, control
<1> QED
  BY <1>1, <1>2, <1>3, PlainUnmoved

LEMMA PoppedHosts ==
    ASSUME Posted(broker), NEW s \in Segments, broker[s].wire # <<>>
    PROVE  SameHosts(Popped(s))
<1> DEFINE b == broker[s]
           q == Tail(b.wire)
           d == [b EXCEPT !.wire = q]
<1>1. IsBroker(b)
  BY DEF Posted
<1>2. IsSeq(q)
  <2>1. PICK S : b.wire \in Seq(S)
    BY <1>1 DEF IsBroker, IsSeq
  <2>2. Tail(b.wire) \in Seq(S)
    BY <2>1
  <2> QED
    BY <2>2 DEF IsSeq
<1>3. IsBroker(d) /\ d.gen = b.gen
  BY <1>1, <1>2, SetWire
<1>4. Popped(s) = AtBroker(s, d)
  BY DEF Popped
<1> HIDE DEF d
<1> QED
  BY <1>3, <1>4, HostsAt

LEMMA LoopReceivePlain ==
    ASSUME Released, NEW s \in Segments, LoopReceive(s)
    PROVE  \E X : Plain(X, {})
<1> DEFINE g == attached[s]
           f == Head(broker[s].wire)
           grant == [op |-> "grant", seg |-> s, gen |-> g,
                     inc |-> model.children[s].inc, epoch |-> model.epoch]
           t == Task("loop", s, g, {}, {grant}, {})
<1>0. /\ LoopFree(s) /\ broker[s].wire # <<>> /\ broker' = Popped(s)
      /\ UNCHANGED <<opens, attached, closing>>
      /\ \/ /\ CanBufferChunk(model, s, g) /\ model' = BufferChunk(model, s)
            /\ tasks' = Add(tasks, t)
         \/ /\ Msg(s, f.id) \in Transformed => CanReserveWork(model, s, g)
            /\ model' = IF Msg(s, f.id) \in Transformed
                        THEN ReserveWork(model, s) ELSE model
            /\ UNCHANGED tasks
         \/ Resync(tasks)
  BY DEF LoopReceive
<1>1. /\ Start /\ Base /\ SameHosts(broker') /\ Hushed /\ closing = "Open"
      /\ Ok(model)
  BY <1>0, PoppedHosts, StartParts DEF Released, Hushed, LoopFree
<1>2. Ok(model') /\ Ages(model, model')
  BY <1>1, LoopReceiveRuns, RunsAges
<1>3. CASE /\ CanBufferChunk(model, s, g) /\ model' = BufferChunk(model, s)
           /\ tasks' = Add(tasks, t)
  <2>1. t.acts = {grant} /\ grant.op = "grant"
    BY TaskIs
  <2>2. /\ DOMAIN model'.children = DOMAIN model.children
        /\ \A x \in DOMAIN model.children :
              model'.children[x].phase = model.children[x].phase
    BY <1>1, <1>3, BufferChunkGoes
  <2> HIDE DEF t, grant
  <2>3. GrantsOnly({grant})
    BY <2>1 DEF GrantsOnly
  <2>4. Turned({grant}, {})
    BY <1>1, <1>3, <2>1, <2>3, GrantsApt, TurnAdd
  <2>5. Plain({grant}, {})
    BY <1>1, <1>2, <2>2, <2>3, <2>4, PlainGrants
  <2> QED
    BY <2>5
<1>4. CASE /\ Msg(s, f.id) \in Transformed => CanReserveWork(model, s, g)
           /\ model' = IF Msg(s, f.id) \in Transformed
                       THEN ReserveWork(model, s) ELSE model
           /\ UNCHANGED tasks
  <2>1. \A x \in DOMAIN model.children :
              model'.children[x].phase = model.children[x].phase
    <3>1. CASE Msg(s, f.id) \in Transformed
      <4>1. CanReserveWork(model, s, g) /\ model' = ReserveWork(model, s)
        BY <1>4, <3>1
      <4>2. /\ s \in DOMAIN model.children /\ Used(model) < BudgetLimit
            /\ model.children[s].phase # "Opening"
        BY <4>1 DEF CanReserveWork, Receiving, Has
      <4> QED
        BY <1>1, <4>1, <4>2, ReserveWorkGoes
    <3>2. CASE Msg(s, f.id) \notin Transformed
      BY <1>4, <3>2
    <3> QED
      BY <3>1, <3>2
  <2>2. Turned({}, {}) /\ GrantsOnly({})
    BY <1>1, <1>4, TurnSame DEF GrantsOnly
  <2>3. Plain({}, {})
    BY <1>1, <1>2, <2>1, <2>2, PlainGrants
  <2> QED
    BY <2>3
<1>5. CASE Resync(tasks)
  <2>1. Plain(Emitted(model, model'), {})
    BY <1>0, <1>1, <1>5, ResyncPlain DEF Hushed
  <2> QED
    BY <2>1
<1> QED
  BY <1>0, <1>3, <1>4, <1>5

LEMMA LoopTerminalPlain ==
    ASSUME Released, NEW s \in Segments, LoopTerminal(s)
    PROVE  Plain(Emitted(model, model'), {})
<1>1. Start /\ Base
  BY StartParts DEF Released
<1>2. Hushed /\ broker' = Popped(s) /\ broker[s].wire # <<>>
  BY DEF LoopTerminal, Hushed, client, control
<1>3. SameHosts(broker')
  BY <1>2, PoppedHosts DEF Released
<1>4. Ok(model') /\ Ages(model, model') /\ Gives
  BY <1>1, LoopTerminalRuns, RunsAges, LoopTerminalTurns
<1> QED
  BY <1>1, <1>2, <1>3, <1>4, PlainEmitted

LEMMA FinalizePlain ==
    ASSUME Released, Finalize
    PROVE  \E X : Plain(X, {})
<1>1. PICK a \in arriving :
        LET n == IF Msg(a.seg, a.id) \in Masked THEN Discarded(model, a.seg)
                 ELSE Arrived(model, a.seg)
            r == ArbitrateFlow(n)
        IN  /\ IF Receiving(model, a.seg, a.gen)
               THEN /\ model' = r
                    /\ tasks' = Add(tasks, Task("loop", a.seg, a.gen, {},
                                                Emitted(n, r), {}))
               ELSE Resync(tasks)
            /\ UNCHANGED <<opens, attached, closing, broker>>
  BY DEF Finalize
<1>2. /\ Start /\ Base /\ SameHosts(broker') /\ Hushed /\ Ok(model)
  BY <1>1, HostsSame, StartParts DEF Released, Hushed
<1>3. CASE ~Receiving(model, a.seg, a.gen)
  <2>1. Plain(Emitted(model, model'), {})
    BY <1>1, <1>2, <1>3, ResyncPlain
  <2> QED
    BY <2>1
<1>4. CASE Receiving(model, a.seg, a.gen)
  <2> DEFINE s == a.seg
             masked == Msg(a.seg, a.id) \in Masked
             n == IF masked THEN Discarded(model, a.seg) ELSE Arrived(model, a.seg)
             r == ArbitrateFlow(n)
             t == Task("loop", a.seg, a.gen, {}, Emitted(n, r), {})
  <2>1. model' = r /\ tasks' = Add(tasks, t)
    BY <1>1, <1>4
  <2>2. t.acts = Emitted(n, r)
    BY TaskIs
  <2>3. /\ s \in DOMAIN model.children /\ model.phase = "Open"
        /\ model.children[s].phase \in {"Flowing", "Draining"}
    BY <1>4 DEF Receiving, Has
  <2>4. /\ Goes(model, n, {s}) /\ OneChange(model, n, s, n.children[s])
        /\ Landed(model.children[s], n.children[s], IF masked THEN 0 ELSE 1)
    BY <1>2, <1>4, ArrivedGoes, DiscardedGoes
  <2> HIDE DEF n, t, masked, s
  <2>5. Ok(n) /\ IsModel(n)
    BY <2>4, OkParts DEF Goes
  <2>6. Arbitrated(n, r) /\ Ok(r)
    BY <2>5, ArbitrateIs, ArbitrateRests
  <2> HIDE DEF r
  <2>7. ASSUME NEW x \in DOMAIN n.children
        PROVE  /\ r.children[x].gen = n.children[x].gen
               /\ n.children[x].phase # "OpenBlocked" => r.children[x] = n.children[x]
               /\ r.children[x] = n.children[x] \/ r.children[x].phase = "Flowing"
    <3>1. CASE r.children[x] = n.children[x]
      BY <3>1
    <3>2. CASE MayFlow(n, x) /\ r.children[x] = Granted(n.children[x])
      <4>1. Good(n.children[x])
        BY <2>5, OkParts
      <4>2. /\ Granted(n.children[x]).gen = n.children[x].gen
            /\ Granted(n.children[x]).phase = "Flowing"
        BY <4>1 DEF Granted, Good, IsChild
      <4> QED
        BY <3>2, <4>2 DEF MayFlow
    <3> QED
      BY <2>6, <3>1, <3>2 DEF Arbitrated
  <2>8. DOMAIN r.children = DOMAIN n.children
    BY <2>6 DEF Arbitrated
  <2>9. GrantsOnly(Emitted(n, r))
    <3>1. ASSUME NEW b \in Emitted(n, r) PROVE b.op = "grant"
      <4>1. Announces(n, r, b)
        BY EmittedAnnounces
      <4>2. b.seg \in DOMAIN n.children /\ b.gen = n.children[b.seg].gen
        BY <2>7, <2>8, <4>1 DEF Announces
      <4>3. Has(n, b.seg, b.gen)
        BY <4>2 DEF Has
      <4>4. \/ r.children[b.seg].phase = n.children[b.seg].phase
            \/ r.children[b.seg].phase = "Flowing"
        BY <2>7, <4>2
      <4> QED
        BY <4>1, <4>3, <4>4 DEF Announces
    <3> QED
      BY <3>1 DEF GrantsOnly
  <2>10. ASSUME NEW x \in DOMAIN model.children, model.children[x].phase = "Opening"
         PROVE  r.children[x].phase = "Opening"
    <3>1. x # s
      BY <2>3, <2>10
    <3>2. x \in DOMAIN n.children /\ n.children[x] = model.children[x]
      BY <2>4, <3>1 DEF OneChange
    <3> QED
      BY <2>7, <2>10, <3>2
  <2>11. Turned(Emitted(n, r), {})
    BY <1>2, <2>1, <2>2, <2>9, GrantsApt, TurnAdd
  <2>12. Ages(model, model') /\ Ok(model') /\ closing = "Open"
    <3>1. closing = "Open"
      BY <1>2, <2>3 DEF Base, Staged
    <3> QED
      BY <1>2, <2>1, <2>6, <3>1, FinalizeLands
  <2>13. Plain(Emitted(n, r), {})
    BY <1>2, <2>1, <2>9, <2>10, <2>11, <2>12, PlainGrants
  <2> QED
    BY <2>13
<1> QED
  BY <1>3, <1>4

LEMMA RestorePlain ==
    ASSUME Released, RestoreDelivery
    PROVE  \E X : Plain(X, {})
<1>1. /\ (model' = model /\ tasks' = tasks) \/ Resync(tasks)
      /\ Hushed /\ broker' = broker
  BY DEF RestoreDelivery, Hushed, client
<1>2. Start /\ SameHosts(broker')
  BY <1>1, HostsSame DEF Released
<1>3. CASE model' = model /\ tasks' = tasks
  BY <1>1, <1>2, <1>3, PlainIdle
<1>4. CASE Resync(tasks)
  <2>1. Plain(Emitted(model, model'), {})
    BY <1>1, <1>2, <1>4, ResyncPlain DEF Hushed
  <2> QED
    BY <2>1
<1> QED
  BY <1>1, <1>3, <1>4

LEMMA NegativeAcknowledgePlain ==
    ASSUME Released, NegativeAcknowledge
    PROVE  Plain(Emitted(model, model'), {})
<1>1. PICK t \in held :
        /\ ValidToken(model, t)
        /\ broker' = AtBroker(t.seg, [broker[t.seg] EXCEPT
                                        !.sent = broker[t.seg].sent \ {t.id}])
        /\ Hushed
  BY DEF NegativeAcknowledge, Hushed, client, control
<1>2. Start /\ Base /\ Ok(model) /\ Posted(broker)
  BY StartParts DEF Released
<1>3. t.seg \in Segments
  BY <1>1, <1>2, ValidTokenIs, OkParts
<1>4. SameHosts(broker')
  <2> DEFINE b == broker[t.seg]
             d == [b EXCEPT !.sent = b.sent \ {t.id}]
  <2>1. IsBroker(d) /\ d.gen = b.gen
    BY <1>2, <1>3, SetSent DEF Posted
  <2>2. broker' = AtBroker(t.seg, d)
    BY <1>1
  <2> HIDE DEF d
  <2> QED
    BY <1>2, <1>3, <2>1, <2>2, HostsAt
<1>5. Ok(model') /\ Ages(model, model') /\ Gives
  BY <1>2, NegativeAcknowledgeRuns, RunsAges, NegativeAcknowledgeTurns
<1> QED
  BY <1>1, <1>2, <1>4, <1>5, PlainEmitted

LEMMA SeekPositionsPlain ==
    ASSUME Released, SeekPositions
    PROVE  Plain(Emitted(model, model'), {})
<1>1. Hushed /\ broker' = broker
  BY DEF SeekPositions, Hushed, control
<1>2. Ok(model') /\ Ages(model, model') /\ Gives
  BY SeekPositionsRuns, RunsAges, StartParts, SeekPositionsTurns DEF Released
<1> QED
  BY <1>1, <1>2, HostsSame, PlainEmitted DEF Released

LEMMA AckedHosts ==
    ASSUME Posted(broker), NEW s, NEW S
    PROVE  SameHosts(AtBroker(s, [broker[s] EXCEPT !.acked = S]))
<1> DEFINE b == broker[s]
           d == [b EXCEPT !.acked = S]
<1>1. CASE s \in Segments
  <2>1. IsBroker(d) /\ d.gen = b.gen
    BY <1>1, SetAcked DEF Posted
  <2> HIDE DEF d
  <2>2. SameHosts(AtBroker(s, d))
    BY <1>1, <2>1, HostsAt
  <2> QED
    BY <2>2 DEF d
<1>2. CASE s \notin Segments
  <2>1. DOMAIN broker = Segments
    BY DEF Posted
  <2> HIDE DEF d
  <2>2. AtBroker(s, d) = broker
    BY <1>2, <2>1 DEF AtBroker, Posted
  <2>3. SameHosts(AtBroker(s, d))
    BY <2>2, HostsSame
  <2> QED
    BY <2>3 DEF d
<1> QED
  BY <1>1, <1>2

LEMMA AckComponentPlain ==
    ASSUME Released, AckComponent
    PROVE  Plain({}, {})
<1>1. model' = model /\ tasks' = tasks /\ Hushed
  BY Zenon DEF AckComponent, Hushed, client, control
<1>2. Start /\ Posted(broker)
  BY DEF Released
<1>3. \/ broker' = broker
      \/ \E s, S : broker' = AtBroker(s, [broker[s] EXCEPT !.acked = S])
  <2>1. PICK c \in ackCalls : \E p \in c.left :
          \/ broker' = IF c.txn # "none" THEN broker
                       ELSE AtBroker(p.seg, [broker[p.seg] EXCEPT
                               !.acked = broker[p.seg].acked \cup p.ids])
          \/ broker' = broker
    BY Zenon DEF AckComponent
  <2> QED
    BY <2>1
<1>4. SameHosts(broker')
  BY <1>2, <1>3, HostsSame, AckedHosts
<1> QED
  BY <1>1, <1>2, <1>4, PlainIdle

LEMMA ParkTxnAckPlain ==
    ASSUME Released, ParkTxnAck
    PROVE  Plain({}, {})
<1>1. model' = model /\ tasks' = tasks /\ Hushed /\ broker' = broker
  BY DEF ParkTxnAck, Hushed, client, control
<1> QED
  BY <1>1, HostsSame, PlainIdle DEF Released

LEMMA SettleAckPlain ==
    ASSUME Released, SettleAck
    PROVE  Plain(Emitted(model, model'), {})
<1>1. Hushed /\ broker' = broker
  BY DEF SettleAck, Hushed, client, control
<1>2. Start /\ Base /\ SameHosts(broker')
  BY <1>1, HostsSame, StartParts DEF Released
<1>3. Ok(model') /\ Ages(model, model')
  BY <1>2, SettleAckIs DEF Steady, Carries
<1>4. Gives
  <2>1. PICK c \in ackCalls :
          LET n == Settle(model, c.op, c.done)
              tries == {<<p.seg, p.gen>> : p \in c.op.comps}
          IN  IF CanSettle(model, c.op)
              THEN /\ model' = n
                   /\ tasks' = Add(tasks, Task("app", 0, 0, tries,
                                               Emitted(model, n), {}))
              ELSE UNCHANGED <<model, tasks>>
    BY DEF SettleAck
  <2>2. CASE CanSettle(model, c.op)
    <3> DEFINE tries == {<<p.seg, p.gen>> : p \in c.op.comps}
               t == Task("app", 0, 0, tries, Emitted(model, model'), {})
    <3>1. tasks' = Add(tasks, t)
      BY <2>1, <2>2
    <3>2. t.acts = Emitted(model, model')
      BY TaskIs
    <3> HIDE DEF t
    <3> QED
      BY <1>2, <1>3, <3>1, <3>2, SpawnTurns
  <2>3. CASE ~CanSettle(model, c.op)
    BY <1>2, <2>1, <2>3, SameTurns
  <2> QED
    BY <2>2, <2>3
<1> QED
  BY <1>1, <1>2, <1>3, <1>4, PlainEmitted

LEMMA AbandonAckPlain ==
    ASSUME Released, AbandonAck
    PROVE  Plain(Emitted(model, model'), {})
<1>1. Hushed /\ broker' = broker
  BY DEF AbandonAck, Hushed, client, control
<1>2. Start /\ Base /\ Ok(model) /\ SameHosts(broker')
  BY <1>1, HostsSame, StartParts DEF Released
<1>3. Ok(model') /\ Ages(model, model')
  BY <1>2, AbandonAckIs DEF Steady, Carries
<1>4. Gives
  <2>0. PICK c \in ackCalls : \E by :
          LET n == Settle(model, c.op, {})
          IN  IF CanSettle(model, c.op)
              THEN /\ model' = n
                   /\ tasks' = Add(tasks, ByHand(by, Emitted(model, n)))
              ELSE UNCHANGED <<model, tasks>>
    BY DEF AbandonAck
  <2>1. PICK by :
          LET n == Settle(model, c.op, {})
          IN  IF CanSettle(model, c.op)
              THEN /\ model' = n
                   /\ tasks' = Add(tasks, ByHand(by, Emitted(model, n)))
              ELSE UNCHANGED <<model, tasks>>
    BY <2>0
  <2>2. CASE CanSettle(model, c.op)
    <3> DEFINE t == ByHand(by, Emitted(model, model'))
    <3>4. tasks' = Add(tasks, t)
      BY <2>1, <2>2
    <3>5. t.acts = Emitted(model, model')
      BY ByHandIs
    <3> HIDE DEF t
    <3> QED
      BY <1>2, <1>3, <3>4, <3>5, SpawnTurns
  <2>3. CASE ~CanSettle(model, c.op)
    BY <1>2, <2>1, <2>3, SameTurns
  <2> QED
    BY <2>2, <2>3
<1> QED
  BY <1>1, <1>2, <1>3, <1>4, PlainEmitted

LEMMA OutcomeHosts ==
    ASSUME Posted(broker), TransactionOutcome
    PROVE  SameHosts(broker')
<1>1. \/ broker' = broker
      \/ \E acked : broker' = [s \in Segments |->
                                 [broker[s] EXCEPT !.acked = acked[s]]]
  <2>1. PICK x \in Txns : \E v \in Verdicts \ {"open"} :
          LET mine == {q \in ToSet(parked) : q.txn = x}
              acked(s) == UNION {c.ids : c \in
                            UNION {{d \in q.op.comps : d.seg = s} : q \in mine}}
          IN  broker' = IF v # "committed" THEN broker
                        ELSE [s \in Segments |->
                                [broker[s] EXCEPT
                                   !.acked = broker[s].acked \cup acked(s)]]
    BY Zenon DEF TransactionOutcome
  <2> DEFINE mine == {q \in ToSet(parked) : q.txn = x}
             acked(s) == UNION {c.ids : c \in
                           UNION {{d \in q.op.comps : d.seg = s} : q \in mine}}
             all == [s \in Segments |-> broker[s].acked \cup acked(s)]
  <2>2. \/ broker' = broker
        \/ broker' = [s \in Segments |->
                        [broker[s] EXCEPT !.acked = broker[s].acked \cup acked(s)]]
    BY <2>1
  <2>3. [s \in Segments |-> [broker[s] EXCEPT !.acked = broker[s].acked \cup acked(s)]]
          = [s \in Segments |-> [broker[s] EXCEPT !.acked = all[s]]]
    OBVIOUS
  <2> HIDE DEF mine, acked, all
  <2> QED
    BY <2>2, <2>3
<1>2. ASSUME NEW acked, broker' = [s \in Segments |->
                                     [broker[s] EXCEPT !.acked = acked[s]]]
      PROVE  SameHosts(broker')
  <2>1. ASSUME NEW s \in Segments
        PROVE  IsBroker(broker'[s]) /\ broker'[s].gen = broker[s].gen
    <3>1. broker'[s] = [broker[s] EXCEPT !.acked = acked[s]]
      BY <1>2
    <3>2. IsBroker(broker[s])
      BY DEF Posted
    <3> QED
      BY <3>1, <3>2, SetAcked
  <2>2. broker' = [s \in Segments |-> broker'[s]]
    BY <1>2
  <2> QED
    BY <2>1, <2>2 DEF SameHosts, Posted
<1> QED
  BY <1>1, <1>2, HostsSame

LEMMA TransactionOutcomePlain ==
    ASSUME Released, TransactionOutcome
    PROVE  \E X : Plain(X, {})
<1>1. Start /\ Base /\ SameHosts(broker')
  BY OutcomeHosts, StartParts DEF Released
<1>2. closing = "Open" /\ Hushed
  BY DEF TransactionOutcome, Hushed, client
<1>3. Ok(model') /\ Ages(model, model')
  BY <1>1, TransactionOutcomeIs DEF Outcomes, Carries
<1>4. ASSUME NEW t, t.acts = Emitted(model, model'), tasks' = Add(tasks, t)
      PROVE  Plain(Emitted(model, model'), {})
  BY <1>1, <1>2, <1>3, <1>4, SpawnTurns, PlainEmitted
<1>5. CASE /\ model' = RequireResync(model)
           /\ tasks' = Add(tasks, Task("outcome", 0, 0, {},
                                       Emitted(model, RequireResync(model)), {}))
  <2> DEFINE t == Task("outcome", 0, 0, {}, Emitted(model, model'), {})
  <2>1. tasks' = Add(tasks, t) /\ t.acts = Emitted(model, model')
    BY <1>5, TaskIs
  <2> HIDE DEF t
  <2> QED
    BY <1>4, <2>1
<1>6. CASE \E x, committed, offers :
             /\ Concludes(x, committed)
             /\ \/ tasks' = tasks
                \/ tasks' = Add(tasks, Task("outcome", 0, 0, {},
                                            Emitted(model, model'), offers))
  <2>1. PICK x, b, offers :
          /\ Concludes(x, b)
          /\ \/ tasks' = tasks
             \/ tasks' = Add(tasks, Task("outcome", 0, 0, {},
                                         Emitted(model, model'), offers))
    BY Zenon, <1>6
  <2>2. CASE tasks' = tasks
    <3>1. model' = SettledInOrder(x, b).m
      BY Zenon, <2>1 DEF Concludes
    <3>2. SettlesTo(model, model')
      BY <1>1, <3>1, SettledGoes, BaseParts
    <3>3. \A s \in DOMAIN model.children :
            model.children[s].phase = "Opening" => model'.children[s].phase = "Opening"
      BY <3>2 DEF SettlesTo
    <3>4. Turned({}, {}) /\ GrantsOnly({})
      BY <1>1, <2>2, TurnSame DEF GrantsOnly
    <3>5. Plain({}, {})
      BY <1>1, <1>2, <1>3, <3>3, <3>4, PlainGrants
    <3> QED
      BY <3>5
  <2>3. CASE tasks' = Add(tasks, Task("outcome", 0, 0, {},
                                      Emitted(model, model'), offers))
    <3> DEFINE t == Task("outcome", 0, 0, {}, Emitted(model, model'), offers)
    <3>1. tasks' = Add(tasks, t) /\ t.acts = Emitted(model, model')
      BY <2>3, TaskIs
    <3> HIDE DEF t
    <3> QED
      BY <1>4, <3>1
  <2> QED
    BY <2>1, <2>2, <2>3
<1> QED
  BY <1>5, <1>6, OutcomeUnfolds

LEMMA SeekFailsPlain ==
    ASSUME Released, SeekFails
    PROVE  \E X, D : Plain(X, D)
<1>1. PICK t \in tasks : \E a \in Ready(t) :
        /\ a.op = "seek" /\ Resync(tasks \ {t})
        /\ UNCHANGED <<client, closing, broker>>
  BY DEF SeekFails
<1>2. Start /\ SameHosts(broker')
  BY <1>1, HostsSame DEF Released
<1>3. Turned(Emitted(model, model'), t.acts) /\ Ok(model') /\ Ages(model, model')
  BY <1>1, <1>2, TurnResyncDrop, ResyncAges
<1>4. \A a \in t.acts : ~Finishes(a)
  <2>1. \E a \in t.acts : a.op = "seek"
    BY <1>1 DEF Ready
  <2>2. Clean(t.acts)
    BY <1>2, StartParts DEF Pure
  <2> QED
    BY <2>1, <2>2 DEF Clean
<1>5. Shuts(Emitted(model, model'), t.acts)
  BY <1>2, <1>3, <1>4, ShutsEmitted
<1>6. Apt(Emitted(model, model'), model.nextGen, tasks, opens)
  BY <1>2, <1>3, EmittedStart
<1>7. Plain(Emitted(model, model'), t.acts)
  BY <1>1, <1>2, <1>3, <1>4, <1>5, <1>6 DEF Plain, SameHosts, client, Finishes
<1> QED
  BY <1>7

LEMMA EnvironmentPlain ==
    ASSUME Released, Environment
    PROVE  Plain({}, {})
<1>1. model' = model /\ tasks' = tasks /\ Hushed
  BY DEF Environment, Publish, Dispatch, EndOfTopic, Hushed, client, control
<1>2. Start /\ Posted(broker)
  BY DEF Released
<1>3. CASE Publish
  <2>1. SameHosts(broker')
    BY <1>2, <1>3, HostsSame DEF Publish
  <2> QED
    BY <1>1, <1>2, <2>1, PlainIdle
<1>4. ASSUME NEW s \in Segments, Dispatch(s)
      PROVE  SameHosts(broker')
  <2> DEFINE b == broker[s]
             id == Min(Due(s))
             first == Msg(s, id) \in Chunked /\ b.half # id
             k == b.permits - 1
             q == Append(b.wire, [id |-> id, last |-> ~first])
             S == IF first THEN b.sent ELSE b.sent \cup {id}
             h == IF first THEN id ELSE 0
             d == Sending(b, k, q, S, h)
  <2>1. IsBroker(b)
    BY <1>2 DEF Posted
  <2>2. b.permits > 0 /\ broker' = AtBroker(s, d)
    BY <1>4 DEF Dispatch, Sending
  <2>3. k \in Nat
    BY <2>1, <2>2 DEF IsBroker
  <2>4. IsSeq(q)
    BY <2>1, IsSeqAppend DEF IsBroker
  <2> HIDE DEF k, q, S, h
  <2>5. IsBroker(d) /\ d.gen = b.gen
    BY <2>1, <2>3, <2>4, SendingIs
  <2> HIDE DEF d
  <2> QED
    BY <1>2, <2>2, <2>5, HostsAt
<1>5. ASSUME NEW s \in Segments, EndOfTopic(s)
      PROVE  SameHosts(broker')
  <2> DEFINE b == broker[s]
             q == Append(b.wire, [id |-> End, last |-> TRUE])
             d == Ending(b, q)
  <2>1. IsBroker(b)
    BY <1>2 DEF Posted
  <2>2. broker' = AtBroker(s, d)
    BY <1>5 DEF EndOfTopic, Ending
  <2>3. IsSeq(q)
    BY <2>1, IsSeqAppend DEF IsBroker
  <2> HIDE DEF q
  <2>4. IsBroker(d) /\ d.gen = b.gen
    BY <2>1, <2>3, EndingIs
  <2> HIDE DEF d
  <2> QED
    BY <1>2, <2>2, <2>4, HostsAt
<1> QED
  BY <1>1, <1>2, <1>3, <1>4, <1>5, PlainIdle DEF Environment

-----------------------------------------------------------------------------
(* The steps that attach, register or detach a consumer.                   *)

LEMMA StartIs ==
    ASSUME Released, Base', Unopened(model', tasks', opens', attached'), Pure(tasks'),
           Posted(broker'), Linked(opens', broker'),
           Mended(model', tasks', attached', closing', dropped'),
           Traced(tasks', opens', attached', broker'),
           Ceased(closing', opens', attached', broker')
    PROVE  Released'
  BY DEF Released, Start

LEMMA ExecOpenReleased ==
    ASSUME Released, Base', dropped \subseteq dropped',
           NEW t \in tasks, NEW a \in t.acts, ExecOpen(t, a),
           UNCHANGED <<app, control, left>>
    PROVE  Released'
<1> DEFINE o == [seg |-> a.seg, gen |-> a.gen, inc |-> a.inc, attached |-> FALSE]
<1>1. Start /\ Posted(broker)
  BY DEF Released
<1>2. Turned({}, {a}) /\ model' = model /\ a.op = "open" /\ tasks' = Advance(t, a, {})
  BY <1>1, ExecSameTurns DEF ExecOpen
<1>3. Ok(model') /\ Ages(model, model') /\ Emitted(model, model') = {}
  BY <1>1, <1>2, StartParts, BaseParts, EmittedSame DEF Carries
<1>4. Shuts({}, {a})
  BY <1>1, <1>2, <1>3, ShutsEmitted DEF Finishes
<1>5. attached' = attached /\ broker' = broker /\ closing' = closing
  BY DEF ExecOpen, control
<1>6. CASE opens' = opens
  <2>1. Plain({}, {a})
    BY <1>1, <1>2, <1>3, <1>4, <1>5, <1>6, NothingApt DEF Plain
  <2> QED
    BY <2>1, PlainReleased
<1>7. CASE closing = "Open" /\ opens' = opens \cup {o}
  <2>0. /\ o.seg = a.seg /\ o.gen = a.gen /\ o.inc = a.inc /\ o.attached = FALSE
        /\ o \in [seg : {a.seg}, gen : {a.gen}, inc : {a.inc}, attached : BOOLEAN]
    OBVIOUS
  <2> HIDE DEF o
  <2>1. /\ a \in ActsOf(tasks) /\ IsOpenOf(a, o.seg, o.gen)
        /\ a.seg \in Segments /\ a.gen \in Nat /\ a.gen < model.nextGen /\ a.gen >= 1
    BY <1>1, <1>2, <2>0, StartParts DEF ActsOf, IsOpenOf, Manned, Actable, Start, Unopened
  <2>2. IsOpening(o) /\ o.gen < model.nextGen
    BY <2>0, <2>1 DEF IsOpening
  <2>3. Unique(opens')
    <3>1. \A p \in opens : ~(p.seg = o.seg /\ p.gen = o.gen)
      BY <1>1, <2>1 DEF Start, Unopened, Apart, IsOpenOf
    <3>2. Unique(opens)
      BY <1>1 DEF Start, Unopened
    <3> QED
      BY <1>7, <3>1, <3>2 DEF Unique
  <2>4. ActsOf(tasks') \subseteq ActsOf(tasks)
    BY <1>2 DEF Turned
  <2>5. Apart(tasks', opens')
    <3>1. \A b \in ActsOf(tasks') : ~IsOpenOf(b, o.seg, o.gen)
      BY <1>1, <1>2, <2>0, SoleGone, StartParts
    <3>2. Apart(tasks, opens)
      BY <1>1 DEF Start, Unopened
    <3> QED
      BY <1>7, <2>4, <3>1, <3>2 DEF Apart
  <2>6. Unopened(model', tasks', opens', attached')
    <3>1. \A p \in opens' : /\ IsOpening(p) /\ p.gen < model.nextGen
                            /\ Opener(tasks, opens, p.seg, p.gen)
      BY <1>1, <1>7, <2>1, <2>2 DEF Start, Unopened, Opener
    <3>2. \A s \in DOMAIN model'.children : Grew(model, model', s)
      BY <1>1, <1>3, StartParts, AgedGrew DEF Ages
    <3>3. Sole(tasks') /\ ActsOf(tasks') \subseteq ActsOf(tasks) \cup {}
      BY <1>2 DEF Turned
    <3> QED
      BY <1>1, <1>2, <1>3, <1>5, <2>3, <2>5, <3>1, <3>2, <3>3, StartParts, NothingApt,
         UnopenedStep DEF Start, Ages
  <2>7. Linked(opens', broker')
    BY <1>5, <1>7, <2>0 DEF Released, Linked
  <2>8. Mended(model', tasks', attached', closing', dropped')
    BY <1>1, <1>2, <1>4, <1>5, MendedStep DEF Released
  <2>9. Traced(tasks', opens', attached', broker')
    BY <1>2, <1>5, <1>7, CloseKept DEF Released, Traced
  <2>10. Ceased(closing', opens', attached', broker')
    BY <1>5, <1>7 DEF Ceased
  <2> QED
    BY <1>1, <1>2, <1>5, <2>6, <2>7, <2>8, <2>9, <2>10, StartIs DEF Turned
<1> QED
  BY <1>6, <1>7 DEF ExecOpen

LEMMA BrokerAttachReleased ==
    ASSUME Released, Base', BrokerAttach
    PROVE  Released'
<1>1. PICK o \in opens :
        /\ ~o.attached /\ broker[o.seg].gen = 0
        /\ opens' = (opens \ {o}) \cup {[o EXCEPT !.attached = TRUE]}
        /\ broker' = AtBroker(o.seg, [broker[o.seg] EXCEPT !.gen = o.gen])
        /\ UNCHANGED <<model, tasks, attached, flowRes, arriving, app, control, left>>
  BY DEF BrokerAttach
<1>2. Start /\ Posted(broker) /\ IsOpening(o) /\ o.gen < model.nextGen
  BY DEF Released, Start, Unopened
<1>3. /\ o.seg \in Segments /\ o.gen \in Nat /\ o.gen >= 1
      /\ o \in [seg : Segments, gen : Nat, inc : {o.inc}, attached : BOOLEAN]
  BY <1>2 DEF IsOpening
<1> DEFINE u == [o EXCEPT !.attached = TRUE]
           b == [broker[o.seg] EXCEPT !.gen = o.gen]
<1>4. /\ u.seg = o.seg /\ u.gen = o.gen /\ u.attached = TRUE /\ u.inc = o.inc
      /\ u \in [seg : Segments, gen : Nat, inc : {u.inc}, attached : BOOLEAN]
  BY <1>3
<1>5. IsBroker(b) /\ b.gen = o.gen
  BY <1>2, <1>3, SetGen DEF Posted
<1>6. /\ opens' = (opens \ {o}) \cup {u} /\ broker' = AtBroker(o.seg, b)
      /\ model' = model /\ tasks' = tasks /\ attached' = attached /\ closing' = closing
      /\ dropped' = dropped
  BY <1>1 DEF control, lost
<1> HIDE DEF u, b
<1>7. /\ Posted(broker') /\ broker'[o.seg].gen = o.gen
      /\ \A s \in Segments : s # o.seg => broker'[s] = broker[s]
  BY <1>2, <1>3, <1>5, <1>6, AtBrokerIs
<1>8. Unopened(model', tasks', opens', attached')
  <2>1. /\ Unique(opens) /\ Apart(tasks, opens)
        /\ \A p \in opens : IsOpening(p) /\ p.gen < model.nextGen
    BY <1>2 DEF Start, Unopened
  <2>2. Unique(opens')
    BY <1>4, <1>6, <2>1 DEF Unique
  <2>3. Apart(tasks', opens')
    BY <1>4, <1>6, <2>1 DEF Apart
  <2>4. IsOpening(u)
    BY <1>3, <1>4 DEF IsOpening
  <2>5. \A p \in opens' : /\ IsOpening(p) /\ p.gen < model.nextGen
                          /\ Opener(tasks, opens, p.seg, p.gen)
    <3>1. \A p \in opens : Opener(tasks, opens, p.seg, p.gen)
      BY DEF Opener
    <3>2. Opener(tasks, opens, u.seg, u.gen)
      BY <1>4, <3>1
    <3> QED
      BY <1>2, <1>4, <1>6, <2>1, <2>4, <3>1, <3>2
  <2>6. Ok(model') /\ Ages(model, model')
    BY <1>2, <1>6, StartParts, BaseParts DEF Carries
  <2>7. \A s \in DOMAIN model'.children : Grew(model, model', s)
    BY <1>2, <2>6, StartParts, AgedGrew DEF Ages
  <2>8. Sole(tasks') /\ ActsOf(tasks') \subseteq ActsOf(tasks) \cup {}
    BY <1>2, <1>6, StartParts
  <2> QED
    BY <1>2, <1>6, <2>2, <2>3, <2>5, <2>6, <2>7, <2>8, StartParts, NothingApt,
       UnopenedStep DEF Start, Ages
<1>9. Linked(opens', broker')
  <2>1. ASSUME NEW p \in opens', p.attached PROVE broker'[p.seg].gen = p.gen
    <3>1. CASE p = u
      BY <1>4, <1>7, <3>1
    <3>2. CASE p \in opens
      <4>1. broker[p.seg].gen = p.gen /\ p.gen >= 1 /\ p.seg \in Segments
        BY <1>2, <2>1, <3>2 DEF Released, Linked, Start, Unopened, IsOpening
      <4> QED
        BY <1>1, <1>7, <4>1
    <3> QED
      BY <1>6, <3>1, <3>2
  <2> QED
    BY <2>1 DEF Linked
<1>10. Mended(model', tasks', attached', closing', dropped')
  BY <1>6 DEF Released
<1>11. Traced(tasks', opens', attached', broker')
  <2>1. ASSUME NEW s \in Segments, broker'[s].gen # 0
        PROVE  \/ attached[s] = broker'[s].gen
               \/ \E p \in opens' : p.attached /\ p.seg = s
               \/ ClosesOf(Shutters(tasks), s, broker'[s].gen)
    <3>1. CASE s = o.seg
      BY <1>4, <1>6, <3>1
    <3>2. CASE s # o.seg
      <4>1. \A p \in opens : p.attached => p \in opens'
        BY <1>1, <1>6
      <4> QED
        BY <1>7, <2>1, <3>2, <4>1 DEF Released, Traced
    <3> QED
      BY <3>1, <3>2
  <2> QED
    BY <1>6, <2>1 DEF Traced
<1>12. Ceased(closing', opens', attached', broker')
  BY <1>6 DEF Released, Ceased
<1>13. Pure(tasks')
  BY <1>2, <1>6 DEF Start
<1> QED
  BY <1>7, <1>8, <1>9, <1>10, <1>11, <1>12, <1>13, StartIs

(* A child that opens sends nothing but permits. *)
LEMMA OpenedGrants ==
    ASSUME Start, NEW s \in DOMAIN model.children, model.children[s].phase = "Opening",
           NEW n, n = ChildOpened(model, s)
    PROVE  /\ GrantsOnly(Emitted(model, n)) /\ Ok(n) /\ n.nextGen = model.nextGen
           /\ DOMAIN n.children = DOMAIN model.children
           /\ n.children[s].phase \notin Unready
           /\ \A x \in DOMAIN n.children :
                x # s => Grew(model, n, x) /\ Moves(model.children[x], n.children[x])
           /\ OthersFlow(model, n, s)
<1>1. /\ Goes(model, n, {s}) /\ s \in DOMAIN n.children
      /\ Waiting(model.children[s], n.children[s])
      /\ DOMAIN n.children = DOMAIN model.children /\ n.nextGen = model.nextGen
      /\ OthersFlow(model, n, s)
  BY ChildOpenedGoes, StartParts
<1>2. ASSUME NEW x \in DOMAIN n.children, x # s
      PROVE  Grew(model, n, x) /\ Moves(model.children[x], n.children[x])
  <2>1. Moves(model.children[x], n.children[x])
    BY <1>1, <1>2 DEF Goes, Evolves
  <2> QED
    BY <1>1, <1>2, <2>1 DEF Grew, Moves, Has, Unready
<1>3. ASSUME NEW a \in Emitted(model, n) PROVE a.op = "grant"
  <2>1. Announces(model, n, a)
    BY EmittedAnnounces
  <2>2. CASE a.seg = s
    BY <1>1, <2>1, <2>2 DEF Announces, Waiting, Has
  <2>3. CASE a.seg # s
    BY <1>1, <2>1, <2>3 DEF Announces, OthersFlow, Has
  <2> QED
    BY <2>2, <2>3
<1> QED
  BY <1>1, <1>2, <1>3 DEF GrantsOnly, Goes, Waiting, Unready

LEMMA OpenStepReleased ==
    ASSUME Released, Base', dropped \subseteq dropped', NEW o \in opens, OpenStep(o)
    PROVE  Released'
<1> DEFINE n == ChildOpened(model, o.seg)
           X == Emitted(model, n)
           w == Free(X)
           s == o.seg
<1>1. Start /\ Posted(broker) /\ IsOpening(o) /\ o.gen < model.nextGen
  BY DEF Released, Start, Unopened
<1>2. /\ s \in DOMAIN model.children /\ model.children[s].phase = "Opening"
      /\ model.children[s].gen = o.gen /\ closing = "Open" /\ o.attached
      /\ s \in Segments /\ o.gen \in Nat
  BY <1>1 DEF OpenStep, OpenCurrent, Has, IsOpening
<1>3. /\ model' = n /\ tasks' = Add(tasks, w) /\ opens' = opens \ {o}
      /\ broker' = broker /\ closing' = closing
      /\ attached' = [attached EXCEPT ![s] = o.gen]
  BY DEF OpenStep, control
<1>4. attached'[s] = o.gen /\ \A x \in Segments : x # s => attached'[x] = attached[x]
  BY <1>1, <1>2, <1>3, StartParts
<1>5. /\ GrantsOnly(X) /\ Ok(n) /\ n.nextGen = model.nextGen
      /\ DOMAIN n.children = DOMAIN model.children
      /\ n.children[s].phase \notin Unready
      /\ \A x \in DOMAIN n.children :
           x # s => Grew(model, n, x) /\ Moves(model.children[x], n.children[x])
      /\ OthersFlow(model, n, s)
  BY <1>1, <1>2, OpenedGrants
<1> HIDE DEF n
<1>6. w.acts = X
  BY FreeIs
<1>7. Turned(X, {})
  <2>1. Apt(w.acts, model.nextGen, tasks, opens)
    BY <1>5, <1>6, GrantsApt
  <2> HIDE DEF w, X
  <2> QED
    BY <1>1, <1>3, <1>6, <2>1, TurnAdd
<1> HIDE DEF w, X
<1>8. ~Opener(tasks', opens', s, o.gen)
  <2>1. ASSUME NEW p \in opens', p.seg = s, p.gen = o.gen PROVE FALSE
    BY <1>1, <1>3, <2>1 DEF Start, Unopened, Unique
  <2>2. ASSUME NEW a \in ActsOf(tasks'), IsOpenOf(a, s, o.gen) PROVE FALSE
    <3>1. a \in ActsOf(tasks) \/ a \in X
      BY <1>7 DEF Turned
    <3> QED
      BY <1>1, <1>5, <2>2, <3>1 DEF Start, Unopened, Apart, GrantsOnly, IsOpenOf
  <2> QED
    BY <2>1, <2>2 DEF Opener
<1>9. Unopened(model', tasks', opens', attached')
  <2>1. \A x \in DOMAIN n.children :
          Grew(model, n, x) \/ ~Opener(tasks', opens', x, n.children[x].gen)
    <3>1. n.children[s].gen = o.gen
      <4>1. Waiting(model.children[s], n.children[s])
        BY <1>1, <1>2, ChildOpenedGoes, StartParts DEF n
      <4> QED
        BY <1>2, <4>1 DEF Waiting
    <3> QED
      BY <1>5, <1>8, <3>1
  <2>2. \A x \in Segments : \/ attached'[x] = attached[x] \/ attached'[x] = 0
                            \/ ~Opener(tasks', opens', x, attached'[x])
    BY <1>4, <1>8
  <2>3. /\ Sole(tasks') /\ ActsOf(tasks') \subseteq ActsOf(tasks) \cup X
        /\ opens' \subseteq opens /\ n.nextGen >= model.nextGen
    BY <1>1, <1>3, <1>5, <1>7, StartParts DEF Turned
  <2>4. Apt(X, model.nextGen, tasks, opens)
    BY <1>5, GrantsApt
  <2>5. /\ Ok(model) /\ Manned(model, tasks) /\ Unopened(model, tasks, opens, attached)
        /\ \A x \in Segments : attached[x] \in Nat /\ attached[x] < model.nextGen
    BY <1>1, StartParts DEF Start
  <2> HIDE DEF s
  <2>6. Unopened(n, tasks', opens', attached')
    BY <1>5, <2>1, <2>2, <2>3, <2>4, <2>5, UnopenedLess
  <2> QED
    BY <1>3, <2>6
<1>10. broker[s].gen = o.gen
  BY <1>2 DEF Released, Linked
<1>11. Linked(opens', broker')
  BY <1>3, <1>4, <1>10 DEF Released, Linked
<1>12. Mended(model', tasks', attached', closing', dropped')
  <2> DEFINE E == Resorts(tasks', closing', dropped')
  <2>0. Resorts(tasks, closing, dropped) \subseteq E
    BY <1>2, <1>3, <1>7, TurnedKeeps DEF Resorts, Cuts
  <2> HIDE DEF E
  <2>1. ASSUME NEW x \in DOMAIN n.children, n.children[x].phase = "Closing"
        PROVE  \/ EndsOf(E, x, n.children[x].gen)
               \/ attached'[x] = n.children[x].gen
    <3>1. x # s
      BY <1>5, <2>1 DEF Unready
    <3>2. x \in DOMAIN model.children /\ n.children[x] = model.children[x]
      BY <1>5, <2>1, <3>1 DEF OthersFlow
    <3>3. x \in Segments
      BY <1>1, <3>2, StartParts, OkParts
    <3>4. \/ EndsOf(Resorts(tasks, closing, dropped), x, n.children[x].gen)
          \/ attached[x] = n.children[x].gen
      BY <2>1, <3>2 DEF Released, Mended
    <3> QED
      BY <1>4, <2>0, <3>1, <3>3, <3>4 DEF EndsOf
  <2> QED
    BY <1>3, <2>1 DEF Mended, E
<1>13. Traced(tasks', opens', attached', broker')
  <2>1. ASSUME NEW x \in Segments, broker[x].gen # 0
        PROVE  \/ attached'[x] = broker[x].gen
               \/ \E p \in opens' : p.attached /\ p.seg = x
               \/ ClosesOf(Shutters(tasks'), x, broker[x].gen)
    <3>1. CASE x = s
      BY <1>4, <1>10, <3>1
    <3>2. CASE x # s
      <4>1. CASE attached[x] = broker[x].gen
        BY <1>4, <3>2, <4>1
      <4>2. CASE \E p \in opens : p.attached /\ p.seg = x
        BY <1>3, <3>2, <4>2
      <4>3. CASE ClosesOf(Shutters(tasks), x, broker[x].gen)
        BY <1>7, <4>3, CloseKept
      <4> QED
        BY <2>1, <4>1, <4>2, <4>3 DEF Released, Traced
    <3> QED
      BY <3>1, <3>2
  <2> QED
    BY <1>3, <2>1 DEF Traced
<1>14. Ceased(closing', opens', attached', broker')
  BY <1>2, <1>3 DEF Ceased
<1> QED
  BY <1>1, <1>3, <1>7, <1>9, <1>11, <1>12, <1>13, <1>14, StartIs DEF Turned

LEMMA StaleOpenReleased ==
    ASSUME Released, Base', dropped \subseteq dropped', NEW o \in opens,
           opens' = opens \ {o}, Gives,
           attached' = attached, closing' = closing,
           model' = Shut(model, o.seg, o.gen),
           broker' = IF o.attached THEN AtBroker(o.seg, Detached(broker[o.seg]))
                     ELSE broker
    PROVE  Released'
<1> DEFINE X == Emitted(model, model')
           s == o.seg
<1>1. Start /\ Posted(broker) /\ IsOpening(o) /\ o.gen < model.nextGen
  BY DEF Released, Start, Unopened
<1>2. Ok(model') /\ Ages(model, model')
  BY <1>1, ShutAges, StartParts
<1>3. Shuts(X, {}) /\ Turned(X, {}) /\ Apt(X, model.nextGen, tasks, opens)
  BY <1>1, <1>2, ShutsEmitted, EmittedStart DEF Gives
<1> HIDE DEF X
<1>4. CASE ~o.attached
  <2>1. broker' = broker
    BY <1>4
  <2>2. Plain(X, {})
    BY <1>1, <1>2, <1>3, <1>4, <2>1 DEF Plain
  <2> QED
    BY <2>2, PlainReleased
<1>5. CASE o.attached
  <2>1. s \in Segments /\ broker[s].gen = o.gen /\ o.gen >= 1 /\ o.gen \in Nat
    BY <1>1, <1>5 DEF Released, Linked, IsOpening
  <2>2. /\ Posted(broker') /\ broker'[s].gen = 0
        /\ \A x \in Segments : x # s => broker'[x] = broker[x]
    <3> DEFINE d == Detached(broker[s])
    <3>1. IsBroker(d) /\ d.gen = 0
      BY <1>1, <2>1, DetachedIs DEF Posted
    <3>2. broker' = AtBroker(s, d)
      BY <1>5
    <3> HIDE DEF d, s
    <3> QED
      BY <1>1, <2>1, <3>1, <3>2, AtBrokerIs
  <2>3. Unopened(model', tasks', opens', attached')
    <3>1. \A x \in DOMAIN model'.children : Grew(model, model', x)
      BY <1>1, <1>2, AgedGrew, StartParts DEF Ages
    <3> QED
      BY <1>1, <1>2, <1>3, <3>1, StartParts, UnopenedLess DEF Turned, Ages, Start
  <2>4. Linked(opens', broker')
    <3>1. ASSUME NEW p \in opens', p.attached PROVE broker'[p.seg].gen = p.gen
      <4>1. p \in opens /\ p # o /\ broker[p.seg].gen = p.gen /\ p.seg \in Segments
        BY <1>1, <3>1 DEF Released, Linked, Start, Unopened, IsOpening
      <4>2. p.seg # s
        BY <1>1, <2>1, <4>1 DEF Start, Unopened, Unique
      <4> QED
        BY <2>2, <4>1, <4>2
    <3> QED
      BY <3>1 DEF Linked
  <2>5. Mended(model', tasks', attached', closing', dropped')
    BY <1>1, <1>3, MendedStep DEF Released
  <2>6. Traced(tasks', opens', attached', broker')
    <3>1. ASSUME NEW x \in Segments, broker'[x].gen # 0
          PROVE  \/ attached[x] = broker'[x].gen
                 \/ \E p \in opens' : p.attached /\ p.seg = x
                 \/ ClosesOf(Shutters(tasks'), x, broker'[x].gen)
      <4>1. x # s /\ broker'[x] = broker[x]
        BY <2>2, <3>1
      <4>2. CASE attached[x] = broker[x].gen
        BY <4>1, <4>2
      <4>3. CASE \E p \in opens : p.attached /\ p.seg = x
        BY <4>1, <4>3
      <4>4. CASE ClosesOf(Shutters(tasks), x, broker[x].gen)
        BY <1>3, <4>1, <4>4, CloseKept
      <4> QED
        BY <3>1, <4>1, <4>2, <4>3, <4>4 DEF Released, Traced
    <3> QED
      BY <3>1 DEF Traced
  <2>7. Ceased(closing', opens', attached', broker')
    BY DEF Released, Ceased
  <2> QED
    BY <1>1, <1>3, <2>2, <2>3, <2>4, <2>5, <2>6, <2>7, StartIs DEF Turned
<1> QED
  BY <1>4, <1>5

LEMMA OpenReturnsReleased ==
    ASSUME Released, Base', dropped \subseteq dropped', OpenReturns
    PROVE  Released'
<1>1. PICK o \in opens :
        /\ opens' = opens \ {o}
        /\ UNCHANGED <<flowRes, arriving, app, control, left>>
        /\ \/ OpenStep(o)
           \/ /\ ~OpenCurrent(o) /\ Gives /\ attached' = attached
              /\ model' = Shut(model, o.seg, o.gen)
              /\ broker' = IF o.attached
                           THEN AtBroker(o.seg, Detached(broker[o.seg]))
                           ELSE broker
  BY OpenReturnsTurns DEF Released
<1>2. closing' = closing
  BY <1>1 DEF control
<1> QED
  BY <1>1, <1>2, OpenStepReleased, StaleOpenReleased

(* What a close does to the registrations and at the broker. *)
Detaches(a) ==
    /\ opens' = opens
    /\ attached' = IF attached[a.seg] = a.gen THEN [attached EXCEPT ![a.seg] = 0]
                   ELSE attached
    /\ broker' = Unsubscribed(a.seg, a.gen)

LEMMA UnsubscribedIs ==
    ASSUME Posted(broker), NEW s \in Segments, NEW g, broker' = Unsubscribed(s, g)
    PROVE  /\ \A x \in Segments :
                \/ broker'[x] = broker[x] /\ ~(x = s /\ broker[x].gen = g)
                \/ broker'[x].gen = 0 /\ x = s /\ broker[x].gen = g
           /\ Posted(broker')
<1> DEFINE d == Detached(broker[s])
<1>1. IsBroker(d) /\ d.gen = 0
  BY DetachedIs DEF Posted
<1>2. broker' = IF broker[s].gen = g THEN AtBroker(s, d) ELSE broker
  BY DEF Unsubscribed
<1> HIDE DEF d
<1>3. CASE broker[s].gen = g
  BY <1>1, <1>2, <1>3, AtBrokerIs
<1>4. CASE broker[s].gen # g
  BY <1>2, <1>4
<1> QED
  BY <1>3, <1>4

LEMMA DetachesIs ==
    ASSUME Released, NEW a \in ActsOf(tasks), a.op = "close", a.seg \in Segments,
           Detaches(a)
    PROVE  /\ \A s \in Segments :
                \/ attached'[s] = attached[s] /\ ~(s = a.seg /\ attached[s] = a.gen)
                \/ attached'[s] = 0 /\ s = a.seg /\ attached[s] = a.gen
           /\ \A s \in Segments :
                \/ broker'[s] = broker[s] /\ ~(s = a.seg /\ broker[s].gen = a.gen)
                \/ broker'[s].gen = 0 /\ s = a.seg /\ broker[s].gen = a.gen
           /\ Posted(broker')
<1>1. Posted(broker) /\ attached \in [Segments -> Nat]
  BY StartParts DEF Released
<1>2. \A s \in Segments :
        \/ attached'[s] = attached[s] /\ ~(s = a.seg /\ attached[s] = a.gen)
        \/ attached'[s] = 0 /\ s = a.seg /\ attached[s] = a.gen
  BY <1>1 DEF Detaches
<1> QED
  BY <1>1, <1>2, UnsubscribedIs DEF Detaches

LEMMA DetachesKeeps ==
    ASSUME Released, NEW a \in ActsOf(tasks), a.op = "close", a.seg \in Segments,
           Detaches(a), NEW X, Turned(X, {a})
    PROVE  /\ Linked(opens', broker')
           /\ Traced(tasks', opens', attached', broker')
<1>1. /\ \A s \in Segments :
           \/ attached'[s] = attached[s] /\ ~(s = a.seg /\ attached[s] = a.gen)
           \/ attached'[s] = 0 /\ s = a.seg /\ attached[s] = a.gen
      /\ \A s \in Segments :
           \/ broker'[s] = broker[s] /\ ~(s = a.seg /\ broker[s].gen = a.gen)
           \/ broker'[s].gen = 0 /\ s = a.seg /\ broker[s].gen = a.gen
  BY DetachesIs
<1>2. opens' = opens /\ Start
  BY DEF Detaches, Released
<1>3. Linked(opens', broker')
  <2>1. ASSUME NEW p \in opens, p.attached PROVE broker'[p.seg].gen = p.gen
    <3>1. broker[p.seg].gen = p.gen /\ p.seg \in Segments
      BY <1>2, <2>1 DEF Released, Linked, Start, Unopened, IsOpening
    <3>2. ~(p.seg = a.seg /\ p.gen = a.gen)
      BY <1>2 DEF Start, Unopened, Opener
    <3> QED
      BY <1>1, <3>1, <3>2
  <2> QED
    BY <1>2, <2>1 DEF Linked
<1>4. Traced(tasks', opens', attached', broker')
  <2>1. ASSUME NEW s \in Segments, broker'[s].gen # 0
        PROVE  \/ attached'[s] = broker'[s].gen
               \/ \E p \in opens' : p.attached /\ p.seg = s
               \/ ClosesOf(Shutters(tasks'), s, broker'[s].gen)
    <3>1. broker'[s] = broker[s] /\ ~(s = a.seg /\ broker[s].gen = a.gen)
      BY <1>1, <2>1
    <3>2. CASE attached[s] = broker[s].gen
      BY <1>1, <3>1, <3>2
    <3>3. CASE \E p \in opens : p.attached /\ p.seg = s
      BY <1>2, <3>3
    <3>4. CASE ClosesOf(Shutters(tasks), s, broker[s].gen)
      BY <3>1, <3>4, CloseKept
    <3> QED
      BY <2>1, <3>1, <3>2, <3>3, <3>4 DEF Released, Traced
  <2> QED
    BY <2>1 DEF Traced
<1> QED
  BY <1>3, <1>4

LEMMA PartsReleased ==
    ASSUME Released, Base', dropped \subseteq dropped', NEW t \in tasks, NEW a \in t.acts,
           Parts(t, a), opens' = opens, broker' = Unsubscribed(a.seg, a.gen)
    PROVE  Released'
<1> DEFINE X == Emitted(model, model')
<1>1. Start /\ Posted(broker)
  BY DEF Released
<1>2. /\ Turned(X, {a}) /\ model' = Shut(model, a.seg, a.gen)
      /\ Ok(model') /\ Ages(model, model') /\ a.op = "close"
  BY <1>1, PartsTurns DEF Parts
<1>3. Has(model', a.seg, a.gen) => model'.children[a.seg].phase # "Closing"
  BY <1>1, <1>2, ShutGone
<1>4. Shuts(X, {a}) /\ Apt(X, model.nextGen, tasks, opens)
  BY <1>1, <1>2, <1>3, ShutsEmitted, EmittedStart
<1> HIDE DEF X
<1>5. a \in ActsOf(tasks) /\ a.seg \in Segments
  BY <1>1, StartParts DEF ActsOf, Manned, Actable
<1>6. Detaches(a) /\ closing' = closing
  BY DEF Parts, Detaches
<1>7. /\ \A s \in Segments :
           \/ attached'[s] = attached[s] /\ ~(s = a.seg /\ attached[s] = a.gen)
           \/ attached'[s] = 0 /\ s = a.seg /\ attached[s] = a.gen
      /\ \A s \in Segments :
           \/ broker'[s] = broker[s] /\ ~(s = a.seg /\ broker[s].gen = a.gen)
           \/ broker'[s].gen = 0 /\ s = a.seg /\ broker[s].gen = a.gen
      /\ Posted(broker')
  BY <1>2, <1>5, <1>6, DetachesIs
<1>8. /\ Linked(opens', broker')
      /\ Traced(tasks', opens', attached', broker')
  BY <1>2, <1>5, <1>6, DetachesKeeps
<1>9. Unopened(model', tasks', opens', attached')
  <2>1. \A x \in DOMAIN model'.children : Grew(model, model', x)
    BY <1>1, <1>2, AgedGrew, StartParts DEF Ages
  <2>2. \A s \in Segments : attached'[s] = attached[s] \/ attached'[s] = 0
    BY <1>7
  <2> QED
    BY <1>1, <1>2, <1>4, <1>6, <2>1, <2>2, StartParts, UnopenedLess
       DEF Turned, Ages, Start, Detaches
<1>10. Mended(model', tasks', attached', closing', dropped')
  <2>1. ASSUME NEW s \in DOMAIN model'.children, attached[s] = model'.children[s].gen
        PROVE  \/ attached'[s] = model'.children[s].gen
               \/ model'.children[s].phase # "Closing"
    <3>1. s \in Segments
      BY <1>2, OkParts
    <3>2. CASE s = a.seg /\ attached[s] = a.gen
      BY <1>3, <2>1, <3>2 DEF Has
    <3> QED
      BY <1>7, <2>1, <3>1, <3>2
  <2> QED
    BY <1>1, <1>2, <1>4, <1>6, <2>1, MendedStep DEF Released
<1>11. Ceased(closing', opens', attached', broker')
  <2>1. closing' # "Open" => \A s \in Segments : attached'[s] = 0
    BY <1>6, <1>7 DEF Released, Ceased
  <2>2. closing' = "Closed" => opens' = {} /\ \A s \in Segments : broker'[s].gen = 0
    BY <1>6, <1>7 DEF Released, Ceased
  <2> QED
    BY <2>1, <2>2 DEF Ceased
<1> QED
  BY <1>1, <1>2, <1>7, <1>8, <1>9, <1>10, <1>11, StartIs DEF Turned

LEMMA ExecCloseReleased ==
    ASSUME Released, Base', dropped \subseteq dropped',
           NEW t \in tasks, NEW a \in t.acts, ExecClose(t, a),
           UNCHANGED <<app, control, left>>
    PROVE  Released'
<1>1. Parts(t, a) /\ opens' = opens /\ broker' = Unsubscribed(a.seg, a.gen)
  BY Zenon DEF ExecClose, Shut, app, control, Parts
<1> QED
  BY <1>1, PartsReleased

(* What a resynchronisation sends ends children, and nothing else. *)
LEMMA ResyncEnds ==
    ASSUME NEW m, Ok(m), NEW f, f = RequireResync(m)
    PROVE  /\ Ok(f) /\ DOMAIN f.children = DOMAIN m.children /\ f.nextGen = m.nextGen
           /\ \A s \in DOMAIN f.children : Moves(m.children[s], f.children[s])
           /\ \A a \in Emitted(m, f) : a.op \notin {"open", "seek"}
           /\ \A a \in Emitted(m, f) : a.op = "close" =>
                /\ Has(m, a.seg, a.gen) /\ m.children[a.seg].phase \notin Unready
           /\ \A s \in DOMAIN f.children :
                m.children[s].phase = "Opening" =>
                  EndsOf(Cuts(Emitted(m, f)), s, f.children[s].gen)
<1>1. /\ Goes(m, f, {}) /\ DOMAIN f.children = DOMAIN m.children
      /\ f.nextGen = m.nextGen
      /\ \A s \in DOMAIN f.children : f.children[s].phase = "Closing"
  BY RequireResyncGoes
<1>2. Ok(f) /\ \A s \in DOMAIN f.children : Moves(m.children[s], f.children[s])
  BY <1>1 DEF Goes, Evolves
<1>3. ASSUME NEW a \in Emitted(m, f)
      PROVE  /\ a.op \notin {"open", "seek"}
             /\ a.op = "close" => /\ Has(m, a.seg, a.gen)
                                  /\ m.children[a.seg].phase \notin Unready
  <2>1. Announces(m, f, a)
    BY EmittedAnnounces
  <2>2. /\ a.seg \in DOMAIN m.children /\ a.gen = m.children[a.seg].gen
        /\ f.children[a.seg].phase = "Closing"
    BY <1>1, <1>2, <2>1 DEF Announces, Moves
  <2> QED
    BY <2>1, <2>2 DEF Announces, Has, Unready
<1>4. ASSUME NEW s \in DOMAIN f.children, m.children[s].phase = "Opening"
      PROVE  EndsOf(Cuts(Emitted(m, f)), s, f.children[s].gen)
  <2>1. Has(m, s, f.children[s].gen)
    BY <1>1, <1>2 DEF Has, Moves
  <2>2. Handed(m, f, s, "cancel", Emitted(m, f))
    BY <1>1, <1>4, <2>1, EmittedFor
  <2> QED
    BY <2>2 DEF Handed, EndsOf, Finishes, Cuts
<1> QED
  BY <1>1, <1>2, <1>3, <1>4

(* A task without an open action joins the tasks. *)
LEMMA SoleJoin ==
    ASSUME NEW T, Sole(T), NEW w, \A a \in w.acts : a.op # "open"
    PROVE  Sole(Add(T, w))
<1>1. Add(T, w) \subseteq T \cup {w}
  BY AddIs
<1>2. \A b \in w.acts : \A s, g : ~IsOpenOf(b, s, g)
  BY DEF IsOpenOf
<1>3. Single(w.acts)
  BY <1>2 DEF Single
<1> QED
  BY <1>1, <1>2, <1>3 DEF Sole

LEMMA FailsReleased ==
    ASSUME Released, Base', dropped \subseteq dropped', NEW t \in tasks, NEW a \in t.acts,
           Fails(t, a), a.op = "close", attached[a.seg] = a.gen, closing = "Open",
           CanChildClosed(model, a.seg, a.gen),
           attached' = [attached EXCEPT ![a.seg] = 0],
           broker' = Unsubscribed(a.seg, a.gen), UNCHANGED <<opens, closing>>
    PROVE  Released'
<1> DEFINE n == ChildClosed(model, a.seg)
           Y == Emitted(model, n)
           Z == Emitted(n, model')
           R == Advance(t, a, Y)
           w == Handoff(Z)
<1>3. Start /\ Posted(broker) /\ Ok(model) /\ IsTask(t)
  BY StartParts DEF Released
<1>4. /\ model' = RequireResync(n) /\ tasks' = Add(R, w) /\ w.acts = Z
      /\ n = Shut(model, a.seg, a.gen)
  BY HandoffIs DEF Shut, Fails
<1>5. Ok(n) /\ Ages(model, n) /\ \A b \in Y : b.op # "seek"
  BY <1>3, <1>4, ShutAges, StartParts
<1>6. a.seg \in DOMAIN n.children => n.children[a.seg].phase = "Opening"
  <2>1. a.seg \in DOMAIN model.children /\ model.children[a.seg].phase = "Closing"
    BY DEF CanChildClosed, Has
  <2>2. a.seg \in DOMAIN n.children => Fresh(n.children[a.seg])
    BY <1>3, <2>1, ChildClosedGoes
  <2> QED
    BY <2>2 DEF Fresh
<1> HIDE DEF n
<1>7. /\ Ok(model') /\ DOMAIN model'.children = DOMAIN n.children
      /\ model'.nextGen = n.nextGen
      /\ \A s \in DOMAIN model'.children : Moves(n.children[s], model'.children[s])
      /\ \A b \in Z : b.op \notin {"open", "seek"}
      /\ \A b \in Z : b.op = "close" =>
           /\ Has(n, b.seg, b.gen) /\ n.children[b.seg].phase \notin Unready
      /\ \A s \in DOMAIN model'.children :
           n.children[s].phase = "Opening" => EndsOf(Cuts(Z), s, model'.children[s].gen)
  BY <1>4, <1>5, ResyncEnds
<1>8. Apt(Y, model.nextGen, tasks, opens)
  BY <1>3, <1>5, EmittedStart
<1>9. Follows(a, Y)
  BY <1>5 DEF Follows, Finishes
<1>10. \A s \in DOMAIN n.children : Grew(model, n, s)
  BY <1>3, <1>5, AgedGrew DEF Ages
<1> HIDE DEF w, Y, Z
<1> DEFINE X == Y \cup Z
<1>11. Apt(X, model.nextGen, tasks, opens)
  <2>1. Single(X) /\ Above(X, model.nextGen)
        /\ \A b \in X : b.op = "open" => b.gen \in Nat /\ b.gen >= 1
    BY <1>7, <1>8 DEF Apt, Single, Above, IsOpenOf
  <2>2. Clean(X)
    BY <1>5, <1>7 DEF Clean
  <2>3. ASSUME NEW b \in Z, b.op = "close"
        PROVE  b.gen < model.nextGen /\ ~Opener(tasks, opens, b.seg, b.gen)
    <3>1. /\ b.seg \in DOMAIN n.children /\ b.gen = n.children[b.seg].gen
          /\ n.children[b.seg].phase \notin Unready
      BY <1>7, <2>3 DEF Has
    <3>2. Has(model, b.seg, b.gen) /\ model.children[b.seg].phase \notin Unready
      BY <1>10, <3>1 DEF Grew
    <3> QED
      BY <1>3, <3>2, StartParts, OkParts DEF Young, Has, Numbered
  <2> QED
    BY <1>8, <2>1, <2>2, <2>3 DEF Apt
<1>12. Turned(X, {a})
  <2>1. Sole(R) /\ Pure(R)
    BY <1>3, <1>8, <1>9, StartParts, SoleAdvance, PureAdvance DEF Apt
  <2>2. /\ ActsOf(R) \subseteq ActsOf(tasks) \cup Y
        /\ (ActsOf(tasks) \ {a}) \cup Y \subseteq ActsOf(R)
    BY <1>3, ActsAdvance
  <2>6. Shutters(tasks) \ {a} \subseteq Shutters(R)
    BY <1>3, ShuttersAdvance
  <2> HIDE DEF R
  <2>3. Sole(tasks')
    BY <1>4, <1>7, <2>1, SoleJoin
  <2>4. Pure(tasks')
    BY <1>4, <1>7, <2>1, PureAdd DEF Clean
  <2>5. ActsOf(tasks') = ActsOf(R) \cup Z
    BY <1>4, ActsAdd
  <2>7. Shutters(tasks) \ {a} \subseteq Shutters(tasks')
    BY <1>4, <2>6, ShuttersAdd
  <2> QED
    BY <2>2, <2>3, <2>4, <2>5, <2>7 DEF Turned, Cuts
<1> HIDE DEF X, R
<1>13. /\ a \in ActsOf(tasks) /\ a.seg \in Segments /\ a.gen >= 1
       /\ a.gen \in Nat /\ Has(model, a.seg, a.gen)
  BY <1>3, StartParts, OkParts
     DEF ActsOf, Manned, Actable, CanChildClosed, Has, Numbered
<1>14. Detaches(a)
  BY DEF Detaches
<1>15. /\ \A s \in Segments :
            \/ attached'[s] = attached[s] /\ ~(s = a.seg /\ attached[s] = a.gen)
            \/ attached'[s] = 0 /\ s = a.seg /\ attached[s] = a.gen
       /\ Posted(broker')
  BY <1>13, <1>14, DetachesIs
<1>16. /\ Linked(opens', broker')
       /\ Traced(tasks', opens', attached', broker')
  BY <1>12, <1>13, <1>14, DetachesKeeps
<1>17. Unopened(model', tasks', opens', attached')
  <2>1. \A s \in DOMAIN model'.children : Grew(model, model', s)
    BY <1>7, <1>10 DEF Grew, Moves, Unready
  <2>2. \A s \in Segments : attached'[s] = attached[s] \/ attached'[s] = 0
    BY <1>15
  <2>3. opens' \subseteq opens /\ model'.nextGen >= model.nextGen
    BY <1>5, <1>7 DEF Ages
  <2> QED
    BY <1>3, <1>7, <1>11, <1>12, <2>1, <2>2, <2>3, StartParts, UnopenedLess
       DEF Turned, Start
<1>18. Mended(model', tasks', attached', closing', dropped')
  <2> DEFINE E == Resorts(tasks', closing', dropped')
  <2>0. /\ Cuts(X) \subseteq E
        /\ \A b \in Resorts(tasks, closing, dropped) : b # a => b \in E
    BY <1>12, TurnedKeeps DEF Resorts, Cuts
  <2> HIDE DEF E
  <2>1. ASSUME NEW s \in DOMAIN model'.children, model'.children[s].phase = "Closing"
        PROVE  \/ EndsOf(E, s, model'.children[s].gen)
               \/ attached'[s] = model'.children[s].gen
    <3> DEFINE g == model'.children[s].gen
               c == model.children[s]
    <3>1. Cuts(Y) \subseteq E /\ Cuts(Z) \subseteq E
      BY <2>0 DEF Cuts, X
    <3>2. s \in DOMAIN n.children /\ n.children[s].gen = g /\ s \in Segments
      BY <1>5, <1>7, OkParts DEF Moves
    <3>3. CASE n.children[s].phase = "Opening"
      BY <1>7, <3>1, <3>3 DEF EndsOf
    <3>4. CASE n.children[s].phase # "Opening"
      <4>1. s # a.seg
        BY <1>6, <3>2, <3>4
      <4>2. s \in DOMAIN model.children /\ c.gen = g
        BY <1>5, <3>2, <3>4 DEF Ages, Aged
      <4>3. Has(model, s, g) /\ c.phase \in Phases
        BY <1>3, <4>2, OkParts DEF Has, Good, IsChild
      <4>4. CASE c.phase = "Closing"
        <5>1. EndsOf(Resorts(tasks, closing, dropped), s, g) \/ attached[s] = g
          BY <4>2, <4>4 DEF Released, Mended
        <5> QED
          BY <1>15, <2>0, <3>2, <4>1, <5>1 DEF EndsOf
      <4>5. CASE c.phase = "Opening"
        <5>1. n.children[s].phase = "Closing"
          BY <1>10, <3>2, <3>4, <4>2, <4>5 DEF Grew, Unready, Has
        <5>2. Handed(model, n, s, "cancel", Y)
          BY <3>2, <4>3, <4>5, <5>1, EmittedFor DEF Y
        <5> QED
          BY <3>1, <3>2, <5>2 DEF Handed, EndsOf, Finishes, Cuts
      <4>6. CASE c.phase \notin Unready
        <5>1. Lives(c)
          BY <4>6 DEF Lives, Unready
        <5>2. attached[s] = g
          BY <1>3, <4>2, <5>1, StartParts DEF Base, Lodged
        <5> QED
          BY <1>15, <3>2, <4>1, <5>2
      <4> QED
        BY <4>4, <4>5, <4>6 DEF Unready
    <3> QED
      BY <3>3, <3>4
  <2> QED
    BY <2>1 DEF Mended, E
<1>19. Ceased(closing', opens', attached', broker')
  BY DEF Ceased
<1> QED
  BY <1>12, <1>15, <1>16, <1>17, <1>18, <1>19, StartIs DEF Turned

LEMMA CloseFailsReleased ==
    ASSUME Released, Base', dropped \subseteq dropped', CloseFails
    PROVE  Released'
<1>1. PICK t \in tasks : \E a \in t.acts :
        /\ a.op = "close" /\ attached[a.seg] = a.gen
        /\ closing = "Open" /\ CanChildClosed(model, a.seg, a.gen)
        /\ attached' = [attached EXCEPT ![a.seg] = 0]
        /\ broker' = Unsubscribed(a.seg, a.gen)
        /\ UNCHANGED <<opens, closing>>
        /\ Parts(t, a) \/ Fails(t, a)
  BY Zenon, CloseFailsIs
<1>2. PICK a \in t.acts :
        /\ a.op = "close" /\ attached[a.seg] = a.gen
        /\ closing = "Open" /\ CanChildClosed(model, a.seg, a.gen)
        /\ attached' = [attached EXCEPT ![a.seg] = 0]
        /\ broker' = Unsubscribed(a.seg, a.gen)
        /\ UNCHANGED <<opens, closing>>
        /\ Parts(t, a) \/ Fails(t, a)
  BY Zenon, <1>1
<1>3. CASE Parts(t, a)
  BY <1>2, <1>3, PartsReleased
<1>4. CASE Fails(t, a)
  BY <1>2, <1>4, FailsReleased
<1> QED
  BY <1>2, <1>3, <1>4

(* The application dropped its future: the child stays registered. *)
LEMMA DropCloseReleased ==
    ASSUME Released, Base', dropped \subseteq dropped', DropClose
    PROVE  Released'
<1>1. PICK t \in tasks : \E a \in Ready(t) :
        /\ t.by = "app" /\ a.op = "close" /\ attached[a.seg] = a.gen
        /\ tasks' = tasks \ {t} /\ dropped' = dropped \cup t.acts
        /\ broker' = Unsubscribed(a.seg, a.gen)
        /\ UNCHANGED <<model, opens, attached, closing>>
  BY DEF DropClose
<1>2. PICK a \in Ready(t) :
        /\ t.by = "app" /\ a.op = "close" /\ attached[a.seg] = a.gen
        /\ tasks' = tasks \ {t} /\ dropped' = dropped \cup t.acts
        /\ broker' = Unsubscribed(a.seg, a.gen)
        /\ UNCHANGED <<model, opens, attached, closing>>
  BY <1>1
<1>3. Start /\ Posted(broker) /\ a \in t.acts
  BY <1>2 DEF Released, Ready
<1>4. Turned({}, {}) /\ ActsOf(tasks') \subseteq ActsOf(tasks)
  <2>1. ActsOf(tasks) = ActsOf(tasks \ {t}) \cup t.acts
    BY ActsLess
  <2>2. Sole(tasks \ {t}) /\ Pure(tasks \ {t})
    BY <1>3, StartParts, SoleLess, PureLess
  <2>3. Shutters(tasks) \subseteq Shutters(tasks \ {t})
    BY <1>2 DEF Shutters, ActsOf
  <2> QED
    BY <1>2, <2>1, <2>2, <2>3 DEF Turned, Cuts
<1>5. Ok(model') /\ Ages(model, model') /\ Emitted(model, model') = {}
  BY <1>2, <1>3, StartParts, BaseParts, EmittedSame DEF Carries
<1>6. Shuts({}, {})
  BY <1>3, <1>5, ShutsEmitted
<1>7. Unopened(model', tasks', opens', attached')
  <2>1. \A x \in DOMAIN model'.children : Grew(model, model', x)
    BY <1>3, <1>5, AgedGrew, StartParts DEF Ages
  <2>2. Sole(tasks') /\ ActsOf(tasks') \subseteq ActsOf(tasks) \cup {}
    BY <1>4 DEF Turned
  <2>3. opens' \subseteq opens /\ model'.nextGen >= model.nextGen
    BY <1>2, <1>5 DEF Ages
  <2> QED
    BY <1>2, <1>3, <1>5, <2>1, <2>2, <2>3, NothingApt, StartParts, UnopenedLess DEF Start
<1>8. a \in ActsOf(tasks) /\ a.seg \in Segments
  BY <1>3, StartParts DEF ActsOf, Manned, Actable
<1>9. /\ \A s \in Segments :
           \/ broker'[s] = broker[s] /\ ~(s = a.seg /\ broker[s].gen = a.gen)
           \/ broker'[s].gen = 0 /\ s = a.seg /\ broker[s].gen = a.gen
      /\ Posted(broker')
  BY <1>2, <1>3, <1>8, UnsubscribedIs
<1>10. Linked(opens', broker')
  <2>1. ASSUME NEW p \in opens, p.attached PROVE broker'[p.seg].gen = p.gen
    <3>1. broker[p.seg].gen = p.gen /\ p.seg \in Segments
      BY <1>3, <2>1 DEF Released, Linked, Start, Unopened, IsOpening
    <3>2. ~(p.seg = a.seg /\ p.gen = a.gen)
      BY <1>2, <1>3, <1>8 DEF Start, Unopened, Opener
    <3> QED
      BY <1>9, <3>1, <3>2
  <2> QED
    BY <1>2, <2>1 DEF Linked
<1>11. Mended(model', tasks', attached', closing', dropped')
  BY <1>2, <1>3, <1>4, <1>6, MendedStep DEF Released
<1>12. Traced(tasks', opens', attached', broker')
  <2>1. ASSUME NEW s \in Segments, broker'[s].gen # 0
        PROVE  \/ attached[s] = broker'[s].gen
               \/ \E p \in opens : p.attached /\ p.seg = s
               \/ ClosesOf(Shutters(tasks'), s, broker'[s].gen)
    <3>1. broker'[s] = broker[s]
      BY <1>9, <2>1
    <3>2. CASE ClosesOf(Shutters(tasks), s, broker[s].gen)
      BY <1>4, <3>1, <3>2, CloseKept
    <3> QED
      BY <2>1, <3>1, <3>2 DEF Released, Traced
  <2> QED
    BY <1>2, <2>1 DEF Traced
<1>13. Ceased(closing', opens', attached', broker')
  BY <1>2, <1>9 DEF Released, Ceased
<1>14. Pure(tasks')
  BY <1>4 DEF Turned
<1> QED
  BY <1>7, <1>9, <1>10, <1>11, <1>12, <1>13, <1>14, StartIs

LEMMA CloseCallReleased ==
    ASSUME Released, Base', dropped \subseteq dropped', CloseCall
    PROVE  Released'
<1> DEFINE n == Close(model)
           cuts == {a \in Emitted(model, n) : a.op = "cancel"}
           ends == {[op |-> "close", seg |-> s, gen |-> attached[s], inc |-> 0,
                     epoch |-> 0] : s \in {s \in Segments : attached[s] # 0}}
           w == Task("closer", 0, 0, {}, cuts \cup ends, {})
           X == cuts \cup ends
<1>1. Start /\ Posted(broker) /\ Ok(model)
  BY StartParts DEF Released
<1>2. /\ closing = "Open" /\ model' = n /\ tasks' = Add(tasks, w)
      /\ closing' = "Closing" /\ attached' = [s \in Segments |-> 0]
      /\ opens' = opens /\ broker' = broker /\ w.acts = X /\ w.by = "closer"
  BY TaskIs DEF CloseCall
<1>3. /\ Goes(model, n, {}) /\ DOMAIN n.children = DOMAIN model.children
      /\ n.nextGen = model.nextGen
      /\ \A s \in DOMAIN n.children : n.children[s].phase = "Closing"
  BY <1>1, CloseGoes
<1> HIDE DEF n, w
<1>4. Ok(n) /\ \A s \in DOMAIN n.children : Moves(model.children[s], n.children[s])
  BY <1>3 DEF Goes, Evolves
<1>5. Ages(model, n)
  BY <1>3, EvolvesDrifts, DriftsAge DEF Goes
<1>6. \A a \in X : Finishes(a)
  BY DEF Finishes
<1>7. ASSUME NEW a \in X, a.op = "close"
      PROVE  a.gen < model.nextGen /\ ~Opener(tasks, opens, a.seg, a.gen)
  <2>1. PICK s \in Segments : a.seg = s /\ a.gen = attached[s]
    BY <1>7
  <2> QED
    BY <1>1, <2>1, StartParts DEF Start, Unopened
<1>8. ASSUME NEW s \in Segments, attached[s] # 0
      PROVE  \E a \in X : a.op = "close" /\ a.seg = s /\ a.gen = attached[s]
  <2> DEFINE e == [op |-> "close", seg |-> s, gen |-> attached[s], inc |-> 0,
                   epoch |-> 0]
  <2>1. e \in X /\ e.op = "close" /\ e.seg = s /\ e.gen = attached[s]
    BY <1>8
  <2> HIDE DEF e, X
  <2> QED
    BY <2>1
<1>9. ASSUME NEW s \in DOMAIN n.children, model.children[s].phase = "Opening"
      PROVE  EndsOf(Cuts(X), s, n.children[s].gen)
  <2>1. Has(model, s, n.children[s].gen)
    BY <1>3, <1>4 DEF Has, Moves
  <2>2. Handed(model, n, s, "cancel", Emitted(model, n))
    BY <1>3, <1>9, <2>1, EmittedFor
  <2> QED
    BY <2>2 DEF Handed, EndsOf, Finishes, Cuts
<1> HIDE DEF cuts, ends, X
<1>10. Apt(X, model.nextGen, tasks, opens)
  BY <1>6, <1>7 DEF Apt, Single, Above, Clean, Finishes
<1>11. Turned(X, {})
  BY <1>1, <1>2, <1>10, TurnAdd
<1>12. Shuts(X, {})
  <2>1. ASSUME NEW s \in DOMAIN n.children
        PROVE  LET g == n.children[s].gen
               IN  \/ EndsOf(Cuts(X), s, g)
                   \/ attached[s] = g
                   \/ /\ Has(model, s, g) /\ model.children[s].phase = "Closing"
                      /\ ~EndsOf({}, s, g)
    <3>1. s \in DOMAIN model.children /\ n.children[s].gen = model.children[s].gen
      BY <1>3, <1>4 DEF Moves
    <3>2. CASE model.children[s].phase = "Opening"
      BY <1>9, <3>2
    <3>3. CASE model.children[s].phase = "Closing"
      BY <3>1, <3>3 DEF Has, EndsOf
    <3>4. CASE model.children[s].phase \notin Unready
      <4>1. Lives(model.children[s])
        BY <3>4 DEF Lives, Unready
      <4> QED
        BY <1>1, <1>2, <3>1, <4>1, StartParts DEF Base, Lodged
    <3> QED
      BY <3>2, <3>3, <3>4 DEF Unready
  <2> QED
    BY <1>2, <2>1 DEF Shuts
<1>13. ASSUME NEW s \in Segments, attached[s] # 0
       PROVE  \E a \in Shutters(tasks') : /\ a.op = "close" /\ a.seg = s
                                         /\ a.gen = attached[s]
  <2>1. PICK a \in X : a.op = "close" /\ a.seg = s /\ a.gen = attached[s]
    BY <1>8, <1>13
  <2>2. w \in tasks'
    BY <1>2, <2>1, AddIs
  <2>3. a \in Shutters(tasks')
    BY <1>2, <2>1, <2>2 DEF Shutters, ActsOf
  <2> QED
    BY <2>1, <2>3
<1>14. \A s \in Segments : attached'[s] = 0
  BY <1>2
<1>15. Unopened(model', tasks', opens', attached')
  <2>1. \A x \in DOMAIN n.children : Grew(model, n, x)
    BY <1>1, <1>4, <1>5, AgedGrew DEF Ages
  <2>2. opens' \subseteq opens /\ n.nextGen >= model.nextGen
    BY <1>2, <1>5 DEF Ages
  <2>3. /\ Manned(model, tasks) /\ Unopened(model, tasks, opens, attached)
        /\ \A s \in Segments : attached[s] \in Nat /\ attached[s] < model.nextGen
        /\ Sole(tasks') /\ ActsOf(tasks') \subseteq ActsOf(tasks) \cup X
    BY <1>1, <1>11, StartParts DEF Start, Turned
  <2>5. /\ \A x \in DOMAIN n.children :
             Grew(model, n, x) \/ ~Opener(tasks', opens', x, n.children[x].gen)
        /\ \A s \in Segments : \/ attached'[s] = attached[s] \/ attached'[s] = 0
                               \/ ~Opener(tasks', opens', s, attached'[s])
    BY <1>14, <2>1
  <2>4. Unopened(n, tasks', opens', attached')
    BY <1>1, <1>4, <1>10, <2>2, <2>3, <2>5, UnopenedLess
  <2> QED
    BY <1>2, <2>4
<1>16. Linked(opens', broker')
  BY <1>2, <1>14 DEF Released, Linked
<1>17. Mended(model', tasks', attached', closing', dropped')
  <2>1. ASSUME NEW s \in DOMAIN n.children, attached[s] = n.children[s].gen
        PROVE  EndsOf(Resorts(tasks', closing', dropped'), s, n.children[s].gen)
    <3>1. n.children[s].gen >= 1 /\ s \in Segments
      BY <1>4, OkParts DEF Numbered
    <3>2. attached[s] # 0
      BY <1>1, <2>1, <3>1, StartParts
    <3> QED
      BY <1>2, <1>13, <2>1, <3>1, <3>2 DEF EndsOf, Resorts, Finishes
  <2> QED
    BY <1>1, <1>2, <1>11, <1>12, <2>1, MendedStep DEF Released
<1>18. Traced(tasks', opens', attached', broker')
  <2>1. ASSUME NEW s \in Segments, broker[s].gen # 0
        PROVE  \/ \E p \in opens : p.attached /\ p.seg = s
               \/ ClosesOf(Shutters(tasks'), s, broker[s].gen)
    <3>1. CASE attached[s] = broker[s].gen
      BY <1>13, <2>1, <3>1 DEF ClosesOf
    <3>2. CASE ClosesOf(Shutters(tasks), s, broker[s].gen)
      BY <1>11, <3>2, CloseKept
    <3> QED
      BY <2>1, <3>1, <3>2 DEF Released, Traced
  <2> QED
    BY <1>2, <2>1 DEF Traced
<1>19. Ceased(closing', opens', attached', broker')
  BY <1>2, <1>14 DEF Ceased
<1> QED
  BY <1>1, <1>2, <1>11, <1>15, <1>16, <1>17, <1>18, <1>19, StartIs DEF Turned

LEMMA FinishCloseReleased ==
    ASSUME Released, Base', FinishClose
    PROVE  Released'
<1>1. /\ closing = "Closing" /\ Tracked = {} /\ opens = {} /\ closing' = "Closed"
      /\ model' = model /\ tasks' = tasks /\ opens' = opens /\ attached' = attached
      /\ broker' = broker /\ dropped' = dropped
  BY DEF FinishClose, client, lost
<1>2. Start /\ \A s \in Segments : attached[s] = 0
  BY <1>1 DEF Released, Ceased
<1>3. Shutters(tasks) = {}
  BY <1>1 DEF Shutters, ActsOf, Tracked
<1>4. Mended(model', tasks', attached', closing', dropped')
  <2>1. Resorts(tasks, closing, dropped) = Resorts(tasks', closing', dropped')
    BY <1>1, <1>3 DEF Resorts
  <2> QED
    BY <1>1, <2>1 DEF Released, Mended
<1>5. \A s \in Segments : broker[s].gen = 0
  BY <1>1, <1>2, <1>3 DEF Released, Traced, ClosesOf
<1>6. Ceased(closing', opens', attached', broker')
  BY <1>1, <1>2, <1>5 DEF Ceased
<1> QED
  BY <1>1, <1>4, <1>6 DEF Released, Start

(* The actions reach a task of their own, or close() came first. *)
LEMMA SpawnActionsPlain ==
    ASSUME Released, SpawnActions
    PROVE  Plain({}, {})
<1>1. PICK t \in tasks :
        /\ t.by = "handoff"
        /\ \/ tasks' = Add(tasks \ {t}, Free(t.acts))
           \/ tasks' = tasks \ {t} /\ dropped' = dropped \cup t.acts
        /\ UNCHANGED <<model, client, closing, broker>>
  BY DEF SpawnActions
<1>2. Start /\ Hushed /\ SameHosts(broker')
  BY <1>1, HostsSame DEF Released, Hushed, client
<1>3. ActsOf(tasks) = ActsOf(tasks \ {t}) \cup t.acts
  BY ActsLess
<1>4. Shutters(tasks) \subseteq Shutters(tasks \ {t})
  BY <1>1 DEF Shutters, ActsOf
<1>5. Turned({}, {})
  <2>1. CASE tasks' = Add(tasks \ {t}, Free(t.acts))
    <3> DEFINE u == Free(t.acts)
    <3>1. u.acts = t.acts
      BY FreeIs
    <3>2. tasks' = Add(tasks \ {t}, u)
      BY <2>1
    <3> HIDE DEF u
    <3>3. Sole(tasks')
      <4>1. u.acts \subseteq t.acts \cup {} /\ Above({}, model.nextGen) /\ Single({})
        BY <3>1 DEF Above, Single
      <4> QED
        BY <1>2, <3>2, <4>1, StartParts, SoleHeir
    <3>4. Pure(tasks')
      BY <1>2, <3>1, <3>2, StartParts, PureAdd, PureLess DEF Pure
    <3>5. ActsOf(tasks') = ActsOf(tasks)
      BY <1>3, <3>1, <3>2, ActsAdd
    <3>6. Shutters(tasks) \subseteq Shutters(tasks')
      BY <1>4, <3>2, ShuttersAdd
    <3> QED
      BY <3>3, <3>4, <3>5, <3>6 DEF Turned, Cuts
  <2>2. CASE tasks' = tasks \ {t} /\ dropped' = dropped \cup t.acts
    <3>1. Sole(tasks \ {t}) /\ Pure(tasks \ {t})
      BY <1>2, StartParts, SoleLess, PureLess
    <3> QED
      BY <1>3, <1>4, <2>2, <3>1 DEF Turned, Cuts
  <2> QED
    BY <1>1, <2>1, <2>2
<1>6. Ok(model') /\ Ages(model, model') /\ Emitted(model, model') = {}
  BY <1>1, <1>2, StartParts, BaseParts, EmittedSame DEF Carries
<1> QED
  BY <1>2, <1>5, <1>6, PlainEmitted DEF Gives

LEMMA InitReleased == Init => Released
<1> SUFFICES ASSUME Init PROVE Released
  OBVIOUS
<1> DEFINE n == ApplyControlPlane(InitModel, Plan[1].layout, Plan[1].assigned)
           X == Emitted(InitModel, n)
           t == Task("control", 0, 0, {}, X, {})
<1>1. /\ model = n /\ tasks = Add({}, t) /\ opens = {} /\ closing = "Open"
      /\ attached = [s \in Segments |-> 0] /\ t.acts = X
  BY TaskIs DEF Init
<1>2. Base
  BY InitBase
<1>3. Ok(InitModel) /\ InitModel.nextGen = 1 /\ DOMAIN InitModel.children = {}
  BY InitModelIs
<1>4. Ok(n) /\ Ages(InitModel, n)
  <2>1. 1 \in 1..Len(Plan) /\ Dry(InitModel)
    BY RuntimeAssumption, InitModelIs DEF Dry
  <2>2. Tends(InitModel, n)
    BY <2>1, PlanIs, InitModelIs, ApplyTends
  <2> QED
    BY <2>2 DEF Tends, Carries
<1> HIDE DEF n, X, t
<1>5. ActsOf({}) = {} /\ Manned(InitModel, {})
  BY DEF ActsOf, Manned
<1>6. Unopened(InitModel, {}, {}, attached) /\ Sole({}) /\ Below({}, 1) /\ Pure({})
  BY <1>3, <1>5 DEF Unopened, Sole, Unique, Apart, Young, Opener, Below, Pure
<1>7. Apt(X, 1, {}, {})
  BY <1>3, <1>4, <1>6, EmittedApt DEF X, Unopened
<1>8. Sole(tasks) /\ Pure(tasks) /\ ActsOf(tasks) \subseteq ActsOf({}) \cup X
  BY <1>1, <1>6, <1>7, SoleAdd, PureAdd, ActsAdd DEF Apt
<1>9. Unopened(n, tasks, {}, attached)
  <2>1. \A s \in DOMAIN n.children : Grew(InitModel, n, s)
    BY <1>3, <1>4, AgedGrew DEF Ages
  <2>2. /\ \A s \in Segments : attached[s] \in Nat /\ attached[s] < 1
        /\ {} \subseteq {} /\ n.nextGen >= InitModel.nextGen
    BY <1>1, <1>4 DEF Ages
  <2> QED
    BY <1>3, <1>4, <1>5, <1>6, <1>7, <1>8, <2>1, <2>2, UnopenedLess
<1>10. Mended(model, tasks, attached, closing, dropped)
  BY <1>1, <1>3, <1>4 DEF Mended, Ages, Aged
<1>11. Posted(broker) /\ \A s \in Segments : broker[s].gen = 0
  <2> DEFINE b == [gen |-> 0, permits |-> 0, wire |-> <<>>, sent |-> {},
                   acked |-> {}, half |-> 0, ended |-> FALSE]
  <2>1. broker = [s \in Segments |-> b]
    BY DEF Init
  <2>2. b.gen = 0 /\ IsBroker(b)
    BY NoneIsSeq DEF IsBroker
  <2> HIDE DEF b
  <2> QED
    BY <2>1, <2>2 DEF Posted
<1>12. Linked(opens, broker) /\ Traced(tasks, opens, attached, broker)
  BY <1>1, <1>11 DEF Linked, Traced
<1>13. Ceased(closing, opens, attached, broker)
  BY <1>1 DEF Ceased
<1> QED
  BY <1>1, <1>2, <1>8, <1>9, <1>10, <1>11, <1>12, <1>13 DEF Released, Start

LEMMA ExecuteReleased ==
    ASSUME Released, Base', dropped \subseteq dropped', Execute
    PROVE  Released'
<1>1. PICK t \in tasks : \E a \in Ready(t) :
        /\ \/ ExecOpen(t, a) \/ ExecCancel(t, a) \/ ExecGrant(t, a)
           \/ ExecClose(t, a) \/ ExecSeek(t, a)
        /\ UNCHANGED <<app, control, left>>
  BY Zenon DEF Execute
<1>2. PICK a \in Ready(t) :
        /\ \/ ExecOpen(t, a) \/ ExecCancel(t, a) \/ ExecGrant(t, a)
           \/ ExecClose(t, a) \/ ExecSeek(t, a)
        /\ UNCHANGED <<app, control, left>>
  BY Zenon, <1>1
<1>3. a \in t.acts
  BY <1>2 DEF Ready
<1>4. CASE ExecOpen(t, a)
  BY <1>2, <1>3, <1>4, ExecOpenReleased
<1>5. CASE ExecClose(t, a)
  BY <1>2, <1>3, <1>5, ExecCloseReleased
<1>6. CASE ExecCancel(t, a)
  BY <1>2, <1>3, <1>6, ExecCancelPlain, PlainReleased
<1>7. CASE ExecGrant(t, a)
  BY <1>2, <1>3, <1>7, ExecGrantPlain, PlainReleased
<1>8. CASE ExecSeek(t, a)
  BY <1>2, <1>3, <1>8, ExecSeekPlain, PlainReleased
<1> QED
  BY <1>2, <1>4, <1>5, <1>6, <1>7, <1>8

(* What nobody will execute any more stays so. *)
LEMMA DroppedGrows ==
    ASSUME [Next]_vars
    PROVE  dropped \subseteq dropped'
<1>1. CASE Runtime
  BY <1>1 DEF Runtime, ControlUpdate, ReconnectControlPlane, SpawnActions, Execute,
     TryComplete, BrokerAttach, OpenReturns, OpenBusy, Finalize, LoopReceive, LoopTerminal,
     control, lost
<1>2. CASE Application
  BY <1>2 DEF Application, Receive, RestoreDelivery, NegativeAcknowledge, SeekPositions,
     CloseCall, FinishClose, DropClose, Acknowledge, AcknowledgeCumulative,
     AcknowledgeInTransaction, AdmitTokens, AdmitVector, Begin, AckComponent, SettleAck,
     AbandonAck, ParkTxnAck, TransactionOutcome, control, lost
<1>3. CASE Failures
  BY <1>3 DEF Failures, ControlFails, SeekFails, CloseFails, OpenFails, LoopFails, lost
<1>4. CASE Environment
  BY <1>4 DEF Environment, Publish, Dispatch, EndOfTopic, control, lost
<1>5. CASE UNCHANGED vars
  BY <1>5 DEF vars
<1> QED
  BY <1>1, <1>2, <1>3, <1>4, <1>5 DEF Next

LEMMA NextReleased == Released /\ [Next]_vars => Released'
<1> SUFFICES ASSUME Released, [Next]_vars PROVE Released'
  OBVIOUS
<1>0. Base' /\ dropped \subseteq dropped'
  BY NextBase, StartParts, DroppedGrows DEF Released
<1>1. CASE Runtime
  <2>1. CASE ControlUpdate \/ ReconnectControlPlane \/ TryComplete \/ OpenBusy
    BY <1>0, <2>1, ControlUpdatePlain, ReconnectPlain, TryCompletePlain, OpenBusyPlain,
       PlainReleased
  <2>3. CASE SpawnActions
    BY <1>0, <2>3, SpawnActionsPlain, PlainReleased
  <2>2. CASE Finalize \/ \E s \in Segments : LoopReceive(s) \/ LoopTerminal(s)
    BY <1>0, <2>2, FinalizePlain, LoopReceivePlain, LoopTerminalPlain, PlainReleased
  <2> QED
    BY <1>0, <1>1, <2>1, <2>2, <2>3, ExecuteReleased, BrokerAttachReleased,
       OpenReturnsReleased DEF Runtime
<1>2. CASE Application
  <2>1. CASE Receive \/ RestoreDelivery \/ NegativeAcknowledge \/ SeekPositions
    BY <1>0, <2>1, ReceivePlain, RestorePlain, NegativeAcknowledgePlain,
       SeekPositionsPlain, PlainReleased
  <2>2. CASE Acknowledge \/ AcknowledgeCumulative \/ AcknowledgeInTransaction
    BY <1>0, <2>2, AcknowledgesPlain, PlainReleased
  <2>3. CASE AckComponent \/ SettleAck \/ AbandonAck \/ ParkTxnAck \/ TransactionOutcome
    BY <1>0, <2>3, AckComponentPlain, SettleAckPlain, AbandonAckPlain, ParkTxnAckPlain,
       TransactionOutcomePlain, PlainReleased
  <2> QED
    BY <1>0, <1>2, <2>1, <2>2, <2>3, CloseCallReleased, FinishCloseReleased,
       DropCloseReleased DEF Application
<1>3. CASE Failures
  <2>1. CASE ControlFails \/ OpenFails \/ \E s \in Segments : LoopFails(s)
    BY <1>0, <2>1, FailsPlain, PlainReleased
  <2>2. CASE SeekFails
    BY <1>0, <2>2, SeekFailsPlain, PlainReleased
  <2> QED
    BY <1>0, <1>3, <2>1, <2>2, CloseFailsReleased DEF Failures
<1>4. CASE Environment
  BY <1>0, <1>4, EnvironmentPlain, PlainReleased
<1>5. CASE UNCHANGED vars
  BY <1>0, <1>5 DEF Released, Start, vars
<1> QED
  BY <1>1, <1>2, <1>3, <1>4, <1>5 DEF Next

(* Whatever is under way when close() is called, once it has returned the  *)
(* broker holds no consumer of the aggregate and none is registered: an    *)
(* open that was overtaken ends the consumer it attached, and every other  *)
(* one was registered.  No child is left either, except one whose          *)
(* CancelOpen was emitted and not executed: it never opened, and the       *)
(* close() came between its failure and spawn_actions.                     *)
THEOREM ClosingReleasesAll == Spec => []ClosedIsReleased
<1>1. Released => ClosedIsReleased
  <2> SUFFICES ASSUME Released, closing = "Closed" PROVE ClosedIsReleased
    BY DEF ClosedIsReleased
  <2>1. opens = {} /\ \A s \in Segments : attached[s] = 0 /\ broker[s].gen = 0
    BY DEF Released, Ceased
  <2>2. ASSUME NEW s \in DOMAIN model.children
        PROVE  Pending("cancel", s, model.children[s].gen)
    <3>1. model.phase # "Open" /\ model.children[s].gen >= 1 /\ s \in Segments
      BY StartParts, OkParts DEF Released, Base, Staged, Numbered
    <3>2. model.children[s].phase = "Closing"
      BY <3>1, StartParts, OkParts DEF Released, Phased
    <3>3. EndsOf(Cuts(ActsOf(tasks) \cup dropped), s, model.children[s].gen)
      <4>1. \/ EndsOf(Resorts(tasks, closing, dropped), s, model.children[s].gen)
            \/ attached[s] = model.children[s].gen
        BY <3>2 DEF Released, Mended
      <4>2. attached[s] # model.children[s].gen
        BY <2>1, <3>1
      <4>3. Resorts(tasks, closing, dropped) = Cuts(ActsOf(tasks) \cup dropped)
        BY DEF Resorts
      <4> QED
        BY <4>1, <4>2, <4>3
    <3>4. PICK a \in Cuts(ActsOf(tasks) \cup dropped) :
                 a.seg = s /\ a.gen = model.children[s].gen
      BY <3>3 DEF EndsOf
    <3>5. a \in dropped \cup UNION {t.acts : t \in tasks} /\ a.op = "cancel"
      BY <3>4 DEF Cuts, ActsOf
    <3> QED
      BY <3>4, <3>5 DEF Pending
  <2> QED
    BY <2>1, <2>2 DEF ClosedIsReleased
<1> QED
  BY <1>1, InitReleased, NextReleased, PTL DEF Spec

=============================================================================
